---------------------------- MODULE MCBlockCache ----------------------------
(***************************************************************************)
(* Small instances of the block cache.                                     *)
(***************************************************************************)
EXTENDS BlockCache, TLC

CONSTANTS f, g, d, t, v, w

\* Every path is in the root directory; the text of a relative link has no
\* slash, and is its own parent (find_last_of yields npos).
MCParent == [n \in Names |-> IF n = t THEN "t" ELSE "/"]

MCLinks == {<<t, f>>}

MCRenames == {<<f, g>>}

NoPairs == {}

\* Block contents are only copied.
ValueSymmetry == Permutations(Values)
=============================================================================
