------------------------------- MODULE MCKxList -------------------------------
(***************************************************************************)
(* KxList for TLC: three nodes are enough for an item with neighbours on    *)
(* both sides that is deleted and whose node is used again.                *)
(***************************************************************************)
EXTENDS KxList, TLC

CONSTANTS a, b

SomeLists == {<<>>, <<a>>, <<a, b>>}

NodeSymmetry == Permutations(Nodes)
===============================================================================
