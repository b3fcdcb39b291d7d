--------------------------- MODULE MCKonDocumented ---------------------------
(***************************************************************************)
(* Programs for which the README, a test or a comment says what happens,   *)
(* and it does not.                                                        *)
(***************************************************************************)
EXTENDS MCKonMachine

\* README.md:373-389.  The list form of let is no keyword the evaluator handles.
DynamicScopePrograms == << Parsed(
     Program(<<Let("a", Num(2)), Proc("func", "f", <<>>, <<Word("a")>>),
               Proc("lambda", "g", <<>>, <<Call("let", <<Word("a"), Num(3)>>), Call("f", <<>>)>>),
               Call("g", <<>>)>>, <<"LAND", Num(3)>>)) >>

\* A name bound to the cell that evaluates the name.
SelfEvalPrograms == << Parsed(
     Source(<<Cores(<<Word("def-builder"), Word("a"), Num(23), EvalOf(Word("a"))>>),
              EvalOf(Word("a"))>>)) >>

\* The program ends as its documentation says.
EndsAsDocumented == Done => Outcome = Programs[currCode].source.outcome
=============================================================================
