--------------------------- MODULE MCKxStringBuffer ---------------------------
(***************************************************************************)
(* The strings KxStringBuffer is checked with: up to five of a character   *)
(* and one of two.                                                         *)
(***************************************************************************)
EXTENDS KxStringBuffer

SomeStrings == {<<>>, <<"a">>, <<"a", "b">>} \cup {[i \in 1 .. n |-> "a"] : n \in 3 .. 5}
================================================================================
