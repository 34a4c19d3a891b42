----------------------------- MODULE BlockStore -----------------------------
(***************************************************************************)
(* What the block cache and its tree files promise together: a store of    *)
(* file blocks.  A write changes one block; a flush makes everything       *)
(* written so far durable; only a crash loses what was not durable, and it *)
(* loses nothing else.  A write may flush on its way out, and then makes itself durable  *)
(* with the rest.                                                          *)
(***************************************************************************)
CONSTANTS
  Files,   \* the identities of files
  Blocks,  \* the block indices of a file
  Values,  \* the contents of a block
  Nil      \* no such block

VARIABLES
  up,      \* the store serves
  vol,     \* what was written last
  stable   \* what survives a crash

Contents == [Files -> [Blocks -> Values \cup {Nil}]]

Init ==
  /\ up = FALSE
  /\ vol = [f \in Files |-> [b \in Blocks |-> Nil]]
  /\ stable = vol

Start ==
  /\ ~up /\ up' = TRUE
  /\ UNCHANGED <<vol, stable>>

Write(f, b, v) ==
  /\ up
  /\ vol' = [vol EXCEPT ![f][b] = v]
  /\ stable' \in {stable, vol'}
  /\ UNCHANGED up

Flush ==
  /\ up
  /\ stable' = vol
  /\ UNCHANGED <<up, vol>>

Stop ==
  /\ up /\ up' = FALSE
  /\ stable' = vol
  /\ UNCHANGED vol

Crash ==
  /\ up /\ up' = FALSE
  /\ vol' = stable
  /\ UNCHANGED stable

Next ==
  \/ Start \/ Flush \/ Stop \/ Crash
  \/ \E f \in Files, b \in Blocks, v \in Values : Write(f, b, v)

Spec == Init /\ [][Next]_<<up, vol, stable>>
=============================================================================
