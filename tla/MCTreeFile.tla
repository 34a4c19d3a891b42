----------------------------- MODULE MCTreeFile -----------------------------
(***************************************************************************)
(* A small instance of TreeFile.                                           *)
(***************************************************************************)
EXTENDS TreeFile

\* Text 1 is shorter than every path, text 5 longer.
MCLength == [n \in Names |-> CASE n = 1 -> 1 [] n = 5 -> 3 [] OTHER -> 2]

MCDirtyLists == {<< >>, <<1>>, <<2, 1>>}
=============================================================================
