----------------------------- MODULE KonReference -----------------------------
(***************************************************************************)
(* What a program means, in direct style: the reference the trampolined    *)
(* evaluator is checked against.  There are no continuations here.  A call *)
(* returns its result, and jumping to the continuation of a procedure call,*)
(* of a loop or of a call-cc that is still active is an escape: a result   *)
(* that carries the identity of the activation it jumps to and that every  *)
(* evaluation in between passes on.  Programs that invoke a continuation   *)
(* after its activation has ended, or that use accessors or dispatchers,   *)
(* are out of its scope.                                                   *)
(*                                                                         *)
(* A store s holds the environments and the number of activations so far;  *)
(* a result is a store, a value and `to`: OnlyValue, the activation that   *)
(* is escaped to, or how the run ended.                                    *)
(***************************************************************************)
EXTENDS KonSyntax, SequencesExt

CONSTANTS NativeValue(_, _), NativeDefined(_, _), Keywords

OnlyValue == 0
Res(s, v, to) == [s |-> s, v |-> v, to |-> to]
Ok(s, v) == Res(s, v, OnlyValue)
End(s, how) == Res(s, Lit("undef"), how)
Fault == -1
Exit == -2

Elements(v) == IF v.t = "pair" THEN v.items ELSE <<>>
IsList(v) == v.t \in {"pair", "nil"}
IsSym(v, types) == v.t = "symbol" /\ v.type \in types
IsRef(v) == IsSym(v, {"WORD", "VARIABLE", "PREFIX_WORD"})
IsKey(v) == IsSym(v, {"WORD", "PREFIX_WORD"}) /\ v.name \in Keywords
IsElse(v) == IsSym(v, {"WORD"}) /\ v.name = "else"
Markers == {"APPLY", "ASSIGN", "PROC_PIPE", "GET_SLOT", "MSG_SIGNAL", "CLAUSE_END"}
IsSelf(v) ==
  \/ v.t \in {"nil", "ukn", "undef", "true", "false", "fix", "flo", "quote", "string",
              "vector", "table", "map"} \cup Markers
  \/ IsSym(v, {"IDENTIFIER", "STRING"})

(***************************************************************************)
(* Stores.                                                                 *)
(***************************************************************************)
EmptyEnv(parent) == [parent |-> parent, vals |-> <<>>]
Bind(s, e, name, v) ==
  [s EXCEPT !.envs[e].vals = [n \in {name} \cup DOMAIN @ |-> IF n = name THEN v ELSE @[n]]]
NewEnv(s, parent) == [s EXCEPT !.envs = Append(@, EmptyEnv(parent))]
Newest(s) == Len(s.envs)

RECURSIVE LookUp(_, _, _)
LookUp(s, e, name) ==
  LET env == s.envs[e]
  IN  IF name \in DOMAIN env.vals /\ env.vals[name] # Lit("undef") THEN env.vals[name]
      ELSE IF env.parent = 0 THEN Lit("ukn") ELSE LookUp(s, env.parent, name)

\* A new activation; Activated binds names to it, Caught is its result.
Activation(s) == s.activations + 1
Activate(s) == [s EXCEPT !.activations = @ + 1]
Escape(id) == [t |-> "escape", id |-> id]
Caught(r, id) == IF r.to = id THEN Ok(r.s, r.v) ELSE r

RECURSIVE BindAll(_, _, _, _)
BindAll(s, e, names, vals) ==
  IF names = <<>> THEN s
  ELSE BindAll(Bind(s, e, Head(names), Head(vals)), e, Tail(names), Tail(vals))

(***************************************************************************)
(* The loop of SplitClauses: state 1 wants a verb, 2 objects up to ";", 3  *)
(* one object.                                                             *)
(***************************************************************************)
SingleItem(v) ==
  v.t \in {"vector", "table", "param", "map", "pair", "nil", "cell", "quote", "quasi", "symbol"}

SplitStep(acc, item) ==
  LET pushed == Append(acc.clause, item)
      closed(c) == [state |-> 1, clause |-> <<>>, clauses |-> Append(acc.clauses, c)]
  IN  CASE acc.state = 1 /\ SingleItem(item) -> closed(<<item>>)
        [] acc.state = 1 /\ item.t = "GET_SLOT" -> [acc EXCEPT !.clause = pushed, !.state = 3]
        [] acc.state = 1 /\ item.t # "GET_SLOT" /\ ~SingleItem(item) ->
             [acc EXCEPT !.clause = pushed, !.state = 2]
        [] acc.state = 3 -> closed(pushed)
        [] acc.state = 2 /\ item.t = "CLAUSE_END" -> closed(acc.clause)
        [] acc.state = 2 /\ item.t # "CLAUSE_END" -> [acc EXCEPT !.clause = pushed]

SplitClauses(words) ==
  LET acc == FoldLeft(SplitStep, [state |-> 1, clause |-> <<>>, clauses |-> <<>>], words)
  IN  IF acc.clause = <<>> THEN acc.clauses ELSE Append(acc.clauses, acc.clause)

-----------------------------------------------------------------------------
RECURSIVE Ev(_, _, _), EvSeq(_, _, _), EvAll(_, _, _, _), EvClauses(_, _, _, _),
          ApplyProc(_, _, _, _), EvCond(_, _, _), EvAnd(_, _, _), EvOr(_, _, _),
          EvLoop(_, _, _, _, _)

\* One after the other; the value is the last one's.
EvSeq(xs, e, s) ==
  IF xs = <<>> THEN Ok(s, Lit("true"))
  ELSE LET r == Ev(Head(xs), e, s)
       IN  IF r.to # OnlyValue \/ Len(xs) = 1 THEN r ELSE EvSeq(Tail(xs), e, r.s)

EvBody(w, e, s) == IF IsList(w) THEN EvSeq(Elements(w), e, s) ELSE End(s, Fault)

\* The values of all of xs, left to right, in a sequence.
EvAll(xs, vs, e, s) ==
  IF xs = <<>> THEN Ok(s, vs)
  ELSE LET r == Ev(Head(xs), e, s)
       IN  IF r.to # OnlyValue THEN r ELSE EvAll(Tail(xs), Append(vs, r.v), e, r.s)

\* proc called with the values args from environment e.
ApplyProc(proc, args, e, s) ==
  LET n == Len(proc.params)
      id == Activation(s)
      lambda == proc.type \in {"LAMBDA", "MACRO_LAMBDA"}
      parent == IF lambda THEN proc.env ELSE e
      outer == IF lambda THEN e ELSE proc.env
      vals == [i \in 1 .. n |-> IF i = n /\ Len(args) > n
                                THEN List(SubSeq(args, n, Len(args))) ELSE args[i]]
      captured == [i \in DOMAIN proc.capture |-> LookUp(s, outer, proc.capture[i])]
      s1 == NewEnv(Activate(s), parent)
      s2 == Bind(s1, Newest(s1), "return", Escape(id))
      s3 == BindAll(s2, Newest(s1), proc.capture, captured)
  IN  IF Len(args) < n THEN End(s, Fault)
      ELSE Caught(EvBody(proc.body, Newest(s1),
                         BindAll(s3, Newest(s1), proc.params, vals)), id)

ApplyValue(f, args, e, s) ==
  CASE f.t = "escape" -> IF args = <<>> THEN End(s, Fault) ELSE Res(s, args[1], f.id)
    [] f.t = "native" -> IF NativeDefined(f.name, args) THEN Ok(s, NativeValue(f.name, args))
                         ELSE End(s, Fault)
    [] f.t = "procedure" ->
         IF f.type \in {"LAMBDA", "FUNC"} THEN ApplyProc(f, args, e, s)
         ELSE IF args # <<>> /\ args[1].t = "quote"
              THEN ApplyProc(f, Elements(args[1].inner), e, s) ELSE End(s, Fault)
    [] OTHER -> End(s, Fault)

\* Verb and objects, all values, for the subject f.
Perform(f, vs, e, s) ==
  CASE vs[1].t = "APPLY" -> ApplyValue(f, Tail(vs), e, s)
    [] vs[1].t = "ASSIGN" /\ Len(vs) > 1 -> Ok(s, vs[2])
    [] vs[1].t = "PROC_PIPE" /\ Len(vs) > 1 /\ vs[2].t # "escape" ->
         ApplyValue(vs[2], <<f>> \o SubSeq(vs, 3, Len(vs)), e, s)
    [] OTHER -> End(s, Fault)

\* The verb of a clause is data, and so is the name after "." or "/".
AsData(v) ==
  CASE IsSym(v, {"WORD"}) -> Ident(v.name)
    [] v.t = "pair" -> Quote("LIST", v)
    [] v.t = "cell" -> Quote("CELL", v)
    [] OTHER -> v
Prepared(clause) ==
  [i \in DOMAIN clause |->
     IF i = 1 \/ (i = 2 /\ clause[1].t \in {"MSG_SIGNAL", "GET_SLOT"} /\ IsSym(clause[2], {"WORD"}))
     THEN AsData(clause[i]) ELSE clause[i]]

\* Each clause is given the value of the one before as its subject.
EvClauses(f, clauses, e, s) ==
  IF clauses = <<>> THEN Ok(s, f)
  ELSE LET args == EvAll(Prepared(Head(clauses)), <<>>, e, s)
           r == Perform(f, args.v, e, args.s)
       IN  IF args.to # OnlyValue THEN args
           ELSE IF r.to # OnlyValue THEN r ELSE EvClauses(r.v, Tail(clauses), e, r.s)

EvSentence(subj, words, e, s) ==
  LET r == Ev(subj, e, s)
  IN  IF r.to # OnlyValue THEN r ELSE EvClauses(r.v, SplitClauses(words), e, r.s)

\* cond, its pairs in order.
EvCond(pairs, e, s) ==
  IF pairs = <<>> THEN Ok(s, Lit("false"))
  ELSE IF IsElse(pairs[1].core) THEN EvBody(pairs[1].list, e, s)
  ELSE LET r == Ev(pairs[1].core, e, s)
       IN  IF r.to # OnlyValue THEN r
           ELSE IF r.v # Lit("false") THEN EvBody(pairs[1].list, e, r.s)
           ELSE EvCond(Tail(pairs), e, r.s)

EvAnd(xs, e, s) ==
  IF xs = <<>> THEN Ok(s, Lit("true"))
  ELSE LET r == Ev(Head(xs), e, s)
       IN  IF r.to # OnlyValue THEN r
           ELSE IF r.v.t \in {"false", "nil"} THEN Ok(r.s, Lit("false"))
           ELSE EvAnd(Tail(xs), e, r.s)

EvOr(xs, e, s) ==
  IF xs = <<>> THEN Ok(s, Lit("false"))
  ELSE LET r == Ev(Head(xs), e, s)
       IN  IF r.to # OnlyValue THEN r
           ELSE IF r.v # Lit("false") THEN Ok(r.s, Lit("true"))
           ELSE EvOr(Tail(xs), e, r.s)

\* A loop from one of its stages; `next` is the activation "continue" goes to.
EvLoop(stage, loop, next, e, s) ==
  LET x == CASE stage = "init" -> Ev(loop.init, e, s)
             [] stage = "test" -> Ev(loop.test, e, s)
             [] stage = "body" -> EvBody(loop.body, e, s)
             [] stage = "after" -> Ev(loop.after, e, s)
  IN  CASE x.to = next -> EvLoop("after", loop, next, e, x.s)
        [] x.to \notin {next, OnlyValue} -> x
        [] x.to = OnlyValue /\ stage \in {"init", "after"} ->
             EvLoop("test", loop, next, e, x.s)
        [] x.to = OnlyValue /\ stage = "body" -> EvLoop("after", loop, next, e, x.s)
        [] x.to = OnlyValue /\ stage = "test" ->
             IF x.v = Lit("false") THEN Ok(x.s, Lit("true"))
             ELSE EvLoop("body", loop, next, e, x.s)

EvFor(seg, e, s) ==
  LET part(i) == IF i <= Len(seg.table.items) THEN seg.table.items[i] ELSE Lit("undef")
      break == Activation(s)
      next == break + 1
      s1 == NewEnv(Activate(Activate(s)), e)
      s2 == BindAll(s1, Newest(s1), <<"break", "continue">>, <<Escape(break), Escape(next)>>)
  IN  Caught(EvLoop("init", [init |-> part(1), test |-> part(2), after |-> part(3),
                             body |-> seg.list], next, Newest(s1), s2), break)

Jump(name, v, e, s) ==
  LET target == LookUp(s, e, name)
  IN  IF target.t = "escape" THEN Res(s, v, target.id) ELSE Ok(s, v)

EvProc(segs, type, e, s) ==
  LET anonymous == segs[1].table.t # "undef"
      def == IF anonymous THEN segs[1] ELSE segs[2]
      names(ws) == [i \in DOMAIN ws |-> ws[i].name]
      proc == [t |-> "procedure", type |-> type, env |-> e, body |-> def.list,
               params |-> names(def.table.items), capture |-> names(Elements(def.capture))]
      named == ~anonymous /\ IsSym(def.core, {"WORD"})
  IN  Ok(IF named THEN Bind(s, e, def.core.name, proc) ELSE s, proc)

EvCallCC(x, e, s) ==
  LET proc == IF IsRef(x) THEN LookUp(s, e, x.name) ELSE x
      id == Activation(s)
  IN  IF proc.t = "procedure"
      THEN Caught(ApplyProc([proc EXCEPT !.type = "LAMBDA"], <<Escape(id)>>, e, Activate(s)), id)
      ELSE End(s, Fault)

Unquoted(v) == IF v.t = "quote" /\ v.type = "LIST" THEN v.inner ELSE v

EvApply(symExpr, argsExpr, e, s) ==
  LET sym == Ev(symExpr, e, s)
      args == Ev(argsExpr, e, sym.s)
      list == Unquoted(args.v)
      f == IF IsRef(sym.v) \/ IsSym(sym.v, {"IDENTIFIER"})
           THEN LookUp(args.s, e, sym.v.name) ELSE Lit("undef")
  IN  CASE sym.to # OnlyValue -> sym
        [] sym.to = OnlyValue /\ args.to # OnlyValue -> args
        [] sym.to = OnlyValue /\ args.to = OnlyValue ->
             IF f.t \in {"native", "procedure"} /\ IsList(list)
             THEN ApplyValue(f, Elements(list), e, args.s) ELSE End(args.s, Fault)

EvLetSet(segs, v, e, s) ==
  LET r == Ev(segs[3].core, e, s)
      name == segs[2].core.name
  IN  IF Len(segs) = 2 THEN Ok(Bind(s, e, name, Lit("ukn")), Lit("true"))
      ELSE IF r.to # OnlyValue THEN r ELSE Ok(Bind(r.s, e, name, r.v), v)

EvIf(segs, e, s) ==
  LET r == Ev(segs[2].core, e, s)
      no == IF Len(segs) > 2 THEN segs[3].list ELSE Lit("nil")
  IN  IF r.to # OnlyValue THEN r
      ELSE IF r.v # Lit("false") THEN EvBody(segs[2].list, e, r.s)
      ELSE IF no = Lit("nil") THEN Ok(r.s, Lit("false")) ELSE EvBody(no, e, r.s)

EvEval(x, e, s) ==
  LET r == Ev(x, e, s) IN IF r.to # OnlyValue THEN r ELSE Ev(Unquoted(r.v), e, r.s)

EvKeyword(segs, e, s) ==
  LET name == segs[1].core.name
      cores == [i \in DOMAIN Tail(segs) |-> Tail(segs)[i].core]
  IN  CASE name = "let" -> EvLetSet(segs, Lit("true"), e, s)
        [] name = "set" -> EvLetSet(segs, Num(2), e, s)
        [] name = "if" -> EvIf(segs, e, s)
        [] name = "cond" -> EvCond(Tail(segs), e, s)
        [] name = "and" -> EvAnd(cores, e, s)
        [] name = "or" -> EvOr(cores, e, s)
        [] name = "for" -> EvFor(segs[1], e, s)
        [] name = "break" -> Jump("break", Lit("false"), e, s)
        [] name = "continue" -> Jump("continue", Lit("true"), e, s)
        [] name = "lambda" -> EvProc(segs, "LAMBDA", e, s)
        [] name = "func" -> EvProc(segs, "FUNC", e, s)
        [] name = "macro-lambda" -> EvProc(segs, "MACRO_LAMBDA", e, s)
        [] name = "macro-func" -> EvProc(segs, "MACRO_FUNC", e, s)
        [] name = "call-cc" -> EvCallCC(segs[2].core, e, s)
        [] name = "eval" -> EvEval(segs[2].core, e, s)
        [] name = "apply" -> EvApply(segs[2].core, segs[3].core, e, s)
        [] OTHER -> Ok(s, Lit("ukn"))

EvListKeyword(name, body, e, s) ==
  LET s1 == NewEnv(s, e)
  IN  CASE name = "blk" -> EvSeq(body, Newest(s1), s1)
        [] name = "do" -> EvSeq(body, e, s)
        [] OTHER -> Ok(s, Lit("ukn"))

EvQuasi(items, e, s) ==
  LET quoted(v) == IF v.t = "unquote" THEN v.inner ELSE Quote("", v)
      r == EvAll([i \in DOMAIN items |-> quoted(items[i])], <<>>, e, s)
      plain(i) == IF items[i].t = "unquote" THEN r.v[i] ELSE items[i]
  IN  IF items = <<>> THEN End(s, Exit)
      ELSE IF r.to # OnlyValue THEN r ELSE Ok(r.s, List([i \in DOMAIN items |-> plain(i)]))

Ev(x, e, s) ==
  CASE IsSelf(x) -> Ok(s, x)
    [] IsRef(x) -> Ok(s, LookUp(s, e, x.name))
    [] x.t = "cell" ->
         LET first == x.segs[1].core
             words == [i \in DOMAIN Tail(x.segs) |-> Tail(x.segs)[i].core]
             ast == <<Lit("APPLY"), Quote("CELL", List(<<x>>))>>
         IN  IF IsKey(first) THEN EvKeyword(x.segs, e, s)
             ELSE EvSentence(first, IF IsSym(first, {"PREFIX_WORD"}) THEN ast ELSE words, e, s)
    [] x.t = "pair" ->
         LET first == Head(x.items)
             args == Tail(x.items)
             ast == <<Lit("APPLY"), Quote("LIST", List(args))>>
         IN  IF IsKey(first) THEN EvListKeyword(first.name, args, e, s)
             ELSE EvSentence(first, IF IsSym(first, {"PREFIX_WORD"}) THEN ast
                                    ELSE <<Lit("APPLY")>> \o args, e, s)
    [] x.t = "quasi" -> EvQuasi(x.items, e, s)
    [] OTHER -> End(s, Exit)

\* The whole program: natives in the root environment, "return" in its child.
Meaning(body, natives) ==
  LET root == [parent |-> 0, vals |-> [n \in natives |-> [t |-> "native", name |-> n]]]
      s == [envs |-> <<root, EmptyEnv(1)>>, activations |-> 1]
  IN  Caught(EvSeq(body, 2, Bind(s, 2, "return", Escape(1))), 1)
=============================================================================
