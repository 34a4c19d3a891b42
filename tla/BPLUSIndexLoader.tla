-------------------------- MODULE BPLUSIndexLoader --------------------------
(***************************************************************************)
(* What BPLUSIndexLoader reads out of the TREE files it has mapped         *)
(* (bplus_index_loader.cpp), and the merge BlockCache::readdir makes of    *)
(* it.  The search inside one tree is the subject of module BPLUSIndex;    *)
(* here a tree is the map it stores, from inode ids to disk inodes.        *)
(*                                                                         *)
(* trees is the sequence of all trees, oldest first.  visit is the order   *)
(* in which the loop over file_to_mem_, an unordered_map keyed by random   *)
(* file names, meets the mapped ones.                                      *)
(***************************************************************************)
EXTENDS Integers, Sequences

CONSTANTS
  Names,    \* paths, and other texts that get hashed
  Dirs,     \* what may come before the last "/" of a name
  Parent,   \* Parent[n]: the text of n before its last "/"
  Blocks,   \* block indices
  Nil       \* absent

\* Util::crypto_hash: injective, and all the code needs to know of it.
crypto_hash(n) == [hash |-> n]

Ids == {crypto_hash(n) : n \in Names}

\* The tree at place i of the loop, and its inode for id (Nil if none).
Entry(trees, visit, id, i) == trees[visit[i]][id]

\* block_data # -1.
HasData(di) == \E b \in Blocks : di.blocks[b] # Nil

\* The places whose inode find_latest_inode looks at: the loop returns at
\* the first tree without the key and, when it collects data, breaks after
\* the first inode that has none.
Reached(trees, visit, id, get_data) ==
  {i \in DOMAIN visit :
     /\ Entry(trees, visit, id, i) # Nil
     /\ \A j \in 1..(i - 1) :
          /\ Entry(trees, visit, id, j) # Nil
          /\ get_data => HasData(Entry(trees, visit, id, j))}

\* Mutant: the block found last wins, whatever its mtime.
LastMetBlock(trees, visit, id, reached, b) ==
  LET held == {i \in reached : Entry(trees, visit, id, i).blocks[b] # Nil}
  IN  IF held = {} THEN Nil
      ELSE Entry(trees, visit, id, CHOOSE i \in held : \A j \in held : j <= i).blocks[b].data

\* The contents of block b: the latest version among the places reached, the
\* last one met when mtimes are equal.
LatestBlock(trees, visit, id, reached, b) ==
  LET blk(i) == Entry(trees, visit, id, i).blocks[b]
      held == {i \in reached : blk(i) # Nil}
      wins(i) == \A j \in held :
                   blk(j).mtime < blk(i).mtime \/ (blk(j).mtime = blk(i).mtime /\ j <= i)
  IN  IF held = {} THEN Nil ELSE blk(CHOOSE i \in held : wins(i)).data

\* find_latest_inode: the metadata of the latest version among the places
\* reached (the first one met when mtimes are equal), with the contents of
\* its blocks; Nil stands for i_mtime = 0.
find_latest_inode(trees, visit, id, get_data) ==
  LET reached == Reached(trees, visit, id, get_data)
      di(i) == Entry(trees, visit, id, i)
      wins(i) == \A j \in reached :
                   di(j).mtime < di(i).mtime \/ (di(j).mtime = di(i).mtime /\ i <= j)
      data(b) == IF get_data THEN LatestBlock(trees, visit, id, reached, b) ELSE Nil
  IN  IF reached = {} THEN Nil
      ELSE [di(CHOOSE i \in reached : wins(i)) EXCEPT !.blocks = [b \in Blocks |-> data(b)]]

\* Mutant: readdir keeps the entry with the smaller mtime.
OldestListed(trees, visit, dir) ==
  LET di(n, i) == Entry(trees, visit, crypto_hash(n), i)
      held(n) == {i \in DOMAIN visit : di(n, i) # Nil}
      wins(n, i) == \A j \in held(n) :
                      di(n, j).mtime > di(n, i).mtime
                        \/ (di(n, j).mtime = di(n, i).mtime /\ j <= i)
  IN  {n \in Names : /\ Parent[n] = dir
                     /\ held(n) # {}
                     /\ ~di(n, CHOOSE i \in held(n) : wins(n, i)).deleted}

\* get_children, and readdir's merge of its answer: a name is listed when
\* its latest entry (the last one met when mtimes are equal) is not a
\* deletion.
readdir_names(trees, visit, dir) ==
  LET di(n, i) == Entry(trees, visit, crypto_hash(n), i)
      held(n) == {i \in DOMAIN visit : di(n, i) # Nil}
      wins(n, i) == \A j \in held(n) :
                      di(n, j).mtime < di(n, i).mtime
                        \/ (di(n, j).mtime = di(n, i).mtime /\ j <= i)
  IN  {n \in Names : /\ Parent[n] = dir
                     /\ held(n) # {}
                     /\ ~di(n, CHOOSE i \in held(n) : wins(n, i)).deleted}
=============================================================================
