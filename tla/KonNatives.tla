------------------------------ MODULE KonNatives ------------------------------
(***************************************************************************)
(* Native procedures.  A native is a procedure node with its name, and it  *)
(* answers at once.  Modelled are "+" and "<" of core/module/kon_number.c, *)
(* which take their arguments as a list, "not" and "set-dispatcher-id" of  *)
(* core/interpreter/primary.c, and what programs make and change accessors *)
(* with; flonums only take integral values here.                           *)
(***************************************************************************)
EXTENDS KonAccessors

NativeNode(name) == [Node("procedure") EXCEPT !.type = "NATIVE_FUNC", !.name = name]

IsNumber(w) == w.t \in {"fix", "flo"}
\* What a list item counts for: anything that is no number is skipped or 0.
NumberOf(w) == IF IsNumber(w) THEN w.id ELSE 0

\* The type of the sum is that of the first argument; it is not checked for
\* overflow.
PlusValue(args) ==
  [t |-> IF args[1].t = "fix" \/ args[1] = Nil THEN "fix" ELSE "flo",
   id |-> IF args[1] = Nil THEN 0 ELSE SumFunction([i \in DOMAIN args |-> NumberOf(args[i])])]
PlusDefined(args) == args # <<>> /\ PlusValue(args).id \in Fixnums

\* A mutant: lower or equal.
LowerThanOrEqual(args) ==
  IF args[1] = Nil \/ \A i \in 2 .. Len(args) : NumberOf(args[i - 1]) <= NumberOf(args[i])
  THEN True ELSE False

LowerThanValue(args) ==
  IF args[1] = Nil \/ \A i \in 2 .. Len(args) : NumberOf(args[i - 1]) < NumberOf(args[i])
  THEN True ELSE False
LowerThanDefined(args) ==
  args # <<>> /\ (args[1] = Nil \/ (IsNumber(args[1]) /\ Len(args) > 1))

NotValue(w) == IF w = False THEN True ELSE False

\* KN_UNBOX_FIXNUM of any word: an immediate is half its bits, a pointer no
\* index of the dispatcher vector.
UnboxFixnum(w) ==
  CASE w.t = "fix" -> w.id
    [] w.t = "undef" -> 7 [] w.t = "nil" -> 15 [] w.t = "ukn" -> 23
    [] w.t = "true" -> 31 [] w.t = "false" -> 39
    [] OTHER -> -1

Answer(defined, v, k) ==
  \/ defined /\ GoOn(v, k)
  \/ ~defined /\ Fault

\* The object keeps the id whether there is such a dispatcher or not.  That of
\* a flonum or a continuation stays what it is in the model.
SetDispatcherId(w, id, k) ==
  /\ \/ /\ w.t = "node"
        /\ nodes' = [nodes EXCEPT ![w.id].dispatcher = UnboxFixnum(id)]
        /\ UNCHANGED accessors
     \/ /\ IsAccessor(w)
        /\ accessors' = [accessors EXCEPT ![w.id].dispatcher = UnboxFixnum(id)]
        /\ UNCHANGED nodes
     \/ w.t \notin {"node", "accessor"} /\ UNCHANGED <<nodes, accessors>>
  /\ Bounce(Run(True, k))
  /\ UNCHANGED <<envs, conts, memos, registry, currCode>>

ParamNum(name) ==
  CASE name \in {"+", "<", "init-dir"} -> 0
    [] name \in {"not", "unbox", "init-prop"} -> 1
    [] name \in {"set-val", "has-key", "at-key", "set-dispatcher-id"} -> 2
    [] name \in {"put-key-val", "put-key-prop"} -> 3

CallAccessorFunc(name, args, k) ==
  CASE name = "init-dir" -> AllocAccessor(MakeDirAccessor(NoBindings), k)
    [] name = "init-prop" ->
         AllocAccessor(MakePropertyAccessor(args[1], IF Len(args) > 2 THEN args[3] ELSE Undef), k)
    [] name = "unbox" -> \/ UnboxingLoops(args[1]) /\ Stop("HANG")
                         \/ ~UnboxingLoops(args[1]) /\ GoOn(UnBoxAccessorValue(args[1]), k)
    [] name = "set-val" /\ IsAccessor(args[1]) ->
         Assign(args[1], args[2], accessors[args[1].id].table, args[1], k)
    [] name = "has-key" /\ IsKey(args[2]) /\ TableRead(args[1]) ->
         GoOn(HasKey(args[1], args[2]), k)
    [] name = "at-key" /\ IsKey(args[2]) /\ TableRead(args[1]) ->
         GoOn(AtKey(args[1], args[2]), k)
    [] name = "put-key-val" /\ IsKey(args[2]) ->
         PutKeyVal(args[1], args[2], args[3], IF Len(args) > 3 THEN args[4] ELSE Undef, k)
    [] name = "put-key-prop" /\ IsKey(args[2]) -> PutKeyProp(args[1], args[2], args[3], k)
    [] OTHER -> Fault

\* KN_ApplyArgsToNativeFunc: as many list items as the procedure has
\* parameters, then the rest of the list if it takes one.
ApplyArgsToNativeFunc(name, args, k) ==
  \/ Len(args) < ParamNum(name) /\ Fault
  \/ /\ Len(args) >= ParamNum(name)
     /\ CASE name = "+" -> Answer(PlusDefined(args), PlusValue(args), k)
          [] name = "<" -> Answer(LowerThanDefined(args), LowerThanValue(args), k)
          [] name = "not" -> GoOn(NotValue(args[1]), k)
          [] name = "set-dispatcher-id" -> SetDispatcherId(args[1], args[2], k)
          [] OTHER -> CallAccessorFunc(name, args, k)

\* The call of prefix_apply.c: the function gets the word of the argument
\* list whatever parameters it declares, and nothing in place of the others.
CallNativeFunc(name, w, k) ==
  CASE name = "+" -> Answer(PlusDefined(Items(w)), PlusValue(Items(w)), k)
    [] name = "<" -> Answer(LowerThanDefined(Items(w)), LowerThanValue(Items(w)), k)
    [] name = "not" -> GoOn(NotValue(w), k)
    [] name \in {"unbox", "init-dir"} -> CallAccessorFunc(name, <<w>>, k)
    [] OTHER -> Fault
=============================================================================
