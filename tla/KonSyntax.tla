------------------------------- MODULE KonSyntax -------------------------------
(***************************************************************************)
(* Kana programs written down as data, one value per node the KSON reader  *)
(* builds.  Code and data are the same values, as in the interpreter.      *)
(***************************************************************************)
EXTENDS Integers, Sequences

Lit(t) == [t |-> t, id |-> 0]
Num(n) == [t |-> "fix", id |-> n]
Symbol(type, name) == [t |-> "symbol", type |-> type, name |-> name]
Word(name) == Symbol("WORD", name)            \* name
Ident(name) == Symbol("IDENTIFIER", name)     \* $name
Macro(name) == Symbol("PREFIX_WORD", name)    \* !name
String(s) == [t |-> "string", name |-> s]    \* "s"

Sequence(t, items) == [t |-> t, items |-> items]
List(items) == IF items = <<>> THEN Lit("nil") ELSE Sequence("pair", items)    \* [a b c]
Quasi(items) == Sequence("quasi", items)      \* @[a b c]
Vector(items) == Sequence("vector", items)    \* <a b c>
Param(items) == Sequence("param", items)      \* (a b c), behind a cell's word
Table(keys, items) ==                         \* #(:k a  :l b)
  [t |-> "table", items |-> items, keys |-> keys]
Quote(type, x) == [t |-> "quote", type |-> type, inner |-> x]
QuoteList(items) == Quote("LIST", List(items))    \* $[a b c]
Unquote(x) == [t |-> "unquote", inner |-> x]    \* $.a

\* A cell {a b (t) #[l]} is the chain of its segments: a core word and what
\* follows it of a table, a list and the entry "capture" of a map.
Cell(segs) == [t |-> "cell", segs |-> segs]
Segment(core, table, list, capture) ==
  [t |-> "segment", core |-> core, table |-> table, list |-> list, capture |-> capture]
None == Lit("undef")
Seg(core) == Segment(core, None, None, None)
SegList(core, body) == Segment(core, None, List(body), None)
SegTable(core, table, body) == Segment(core, Param(table), List(body), None)
SegCapture(core, table, body, names) == Segment(core, Param(table), List(body), List(names))
Cores(cores) == Cell([i \in DOMAIN cores |-> Seg(cores[i])])
Keyword(name) == Seg(Word(name))

\* The forms the programs of the runs are made of.
Call(f, args) == List(<<Word(f)>> \o args)
Let(name, x) == Cores(<<Word("let"), Word(name), x>>)
Set(name, x) == Cores(<<Word("set"), Word(name), x>>)
If(c, yes, no) == Cell(<<Keyword("if"), SegList(c, yes), SegList(Word("else"), no)>>)
IfThen(c, yes) == Cell(<<Keyword("if"), SegList(c, yes)>>)
For(init, pred, after, body) == Cell(<<SegTable(Word("for"), <<init, pred, after>>, body)>>)
Proc(kind, name, params, body) == Cell(<<Keyword(kind), SegTable(Word(name), params, body)>>)
Anonymous(kind, params, body) == Cell(<<SegTable(Word(kind), params, body)>>)
Blk(body) == List(<<Word("blk")>> \o body)
Do(body) == List(<<Word("do")>> \o body)
Break == Cores(<<Word("break")>>)
Continue == Cores(<<Word("continue")>>)
CallCC(x) == Cores(<<Word("call-cc"), x>>)
EvalOf(x) == Cores(<<Word("eval"), x>>)
Apply(f, args) == Cores(<<Word("apply"), f, args>>)
=============================================================================
