------------------------------- MODULE MCSync -------------------------------
(***************************************************************************)
(* A small instance of Sync: machine a makes a tree, machine b gets it.    *)
(***************************************************************************)
EXTENDS Sync

CONSTANTS a, b, t, r1, r2, r3

MCOwner == [x \in Trees |-> a]

MCScriptOn == [s \in Scripts |-> IF s = r3 THEN b ELSE a]
=============================================================================
