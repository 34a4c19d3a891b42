------------------------------ MODULE TreeFile ------------------------------
(***************************************************************************)
(* One flush, store by store: flush_to_disk counts what it is about to     *)
(* write (block_cache.cpp), add_inode allocates one region of the TREE     *)
(* file for each kind of thing and fills the regions behind cursors        *)
(* (bplus_index.cpp).  The file is mapped shared, so a process that is     *)
(* killed leaves what it has stored so far, and the next mount maps it     *)
(* like any other tree (bplus_index_loader.cpp).                           *)
(*                                                                         *)
(* Every state is one in which the process may be killed, or the file be   *)
(* copied by rsync; Lookup and Listing are what the loader makes of it.    *)
(*                                                                         *)
(* A name stands for a text and for the id hashed from it.  The nodes of   *)
(* the tree are left to BPLUSIndex: here the tree is the set of the slots  *)
(* whose insertion has returned, which is what a search finds between      *)
(* insertions (SearchFindsInodes there), however often nodes were split.   *)
(* While an insertion stores into nodes the tree is torn, and a search may *)
(* give anything.  Stores happen in program order.                         *)
(***************************************************************************)
EXTENDS Integers, Sequences, FiniteSets, Functions

CONSTANTS
  Paths,     \* paths that may be cached
  Texts,     \* other texts a symbolic link may have
  Length,    \* the length of every name
  DirtyLists,\* what dirty_block_ may hold for a file: sequences of actual sizes
  Nil        \* memory that is still zero; absent

Names == Paths \cup Texts

ASSUME TreeFileAssumption ==
  /\ IsFiniteSet(Names) /\ Nil \notin Names
  /\ Length \in [Names -> Nat \ {0}]
  /\ << >> \in DirtyLists /\ DirtyLists \subseteq Seq(Nat \ {0})

VARIABLES
  inode_idx,    \* inode_idx_: the id cached for each path, or Nil
  dirty_block,  \* dirty_block_: the sizes of the dirty blocks of each id
  pc,           \* the next store
  todo,         \* the entries of inode_idx_ the loop has still to meet
  id,           \* the id of the entry being added
  mem,          \* the mapped file, by region
  cur           \* the cursors, the first one that of inodes and of hashes

vars == <<inode_idx, dirty_block, pc, todo, id, mem, cur>>
-----------------------------------------------------------------------------
(* What flush_to_disk counts before it starts.                             *)

Cached == {p \in Paths : inode_idx[p] # Nil}

num_ents == Cardinality(Cached)

\* The sum of the values of f, as a number of pairs.
Total(f) == Cardinality(UNION {{x} \X (1..f[x]) : x \in DOMAIN f})

DirtyBlocks == UNION {{n} \X DOMAIN dirty_block[n] : n \in Names}

block_size == Total([x \in DirtyBlocks |-> dirty_block[x[1]][x[2]]])

\* Mutant: counts the inodes that have dirty blocks.
DirtyInodes == Cardinality({n \in Names : dirty_block[n] # << >>})

num_blocks == Total([n \in Names |-> Len(dirty_block[n])])

\* The lengths of the paths; what is written is the name of the inode, which
\* is the text for a symbolic link.
path_size == Total([p \in Cached |-> Length[p]])
-----------------------------------------------------------------------------
(* The file.                                                               *)

Cleared(n) == [i \in 1..n |-> Nil]

NewRecord == [path |-> 0, path_size |-> 0, block_data |-> 0, block_data_size |-> 0]

\* size: whether the file is absent, empty, or can be mapped.  Offsets that
\* are still zero are FALSE.
NoFile ==
  [size |-> "absent",
   header |-> [num_inodes |-> 0, inode_list |-> FALSE, root |-> FALSE],
   tree |-> [is_leaf |-> FALSE, slots |-> {}],
   inodes |-> << >>, bytes |-> << >>, bds |-> << >>, hashes |-> << >>, paths |-> << >>]

\* memcpy of s to the bytes behind place at.
Put(region, at, s) ==
  [i \in DOMAIN region |-> IF i > at /\ i <= at + Len(s) THEN s[i - at] ELSE region[i]]

Fits(region, at, n) == at + n <= Len(region)

Chars(n) == [i \in 1..Length[n] |-> <<n, i>>]

BlockBytes(n, k) == [i \in 1..dirty_block[n][k] |-> <<n, k, i>>]

\* All the caches a flush may start from: files, links to other texts, and
\* links whose text is a path.  Only a path has ever been written to.
Init ==
  /\ inode_idx \in [Paths -> Names \cup {Nil}] /\ Cached # {}
  /\ dirty_block \in [Names -> DirtyLists]
  /\ \A n \in Names : dirty_block[n] # << >> => n \in Paths /\ n \in Range(inode_idx)
  /\ pc = "open"
  /\ todo = Cached
  /\ id = Nil
  /\ mem = NoFile
  /\ cur = [inode |-> 0, block |-> 0, bd |-> 0, initial_bd |-> 0, path |-> 0]

cache == <<inode_idx, dirty_block>>

(* The stores of the first add_inode.                                      *)

\* get_tire's first request: the file is created empty, ...
open_file ==
  /\ pc = "open"
  /\ pc' = "truncate"
  /\ mem' = [mem EXCEPT !.size = "empty"]
  /\ UNCHANGED <<cache, todo, id, cur>>

\* ... then given the length of a header of zeros.
truncate_file ==
  /\ pc = "truncate"
  /\ pc' = "num_inodes"
  /\ mem' = [mem EXCEPT !.size = "mapped"]
  /\ UNCHANGED <<cache, todo, id, cur>>

set_num_inodes ==
  /\ pc = "num_inodes"
  /\ pc' = "root"
  /\ mem' = [mem EXCEPT !.header.num_inodes = num_ents]
  /\ UNCHANGED <<cache, todo, id, cur>>

\* The root's tire, and the header's offset of it.
set_root ==
  /\ pc = "root"
  /\ pc' = "leaf"
  /\ mem' = [mem EXCEPT !.header.root = TRUE]
  /\ UNCHANGED <<cache, todo, id, cur>>

\* num_keys is one from here on; the offset of the first key is still zero,
\* and no hash equals the text at the start of the file.
set_leaf ==
  /\ pc = "leaf"
  /\ pc' = "regions"
  /\ mem' = [mem EXCEPT !.tree.is_leaf = TRUE]
  /\ UNCHANGED <<cache, todo, id, cur>>

\* One tire for each region.
allocate_regions ==
  /\ pc = "regions"
  /\ pc' = "path"
  /\ mem' = [mem EXCEPT !.header.inode_list = TRUE,
                        !.inodes = [i \in 1..num_ents |-> NewRecord],
                        !.bytes = Cleared(block_size),
                        !.bds = Cleared(num_blocks),
                        !.hashes = Cleared(num_ents),
                        !.paths = Cleared(path_size)]
  /\ UNCHANGED <<cache, todo, id, cur>>
-----------------------------------------------------------------------------
(* The stores of every add_inode.                                          *)

\* A store behind the end of its region hits other memory: followed no
\* further.
overrun == pc = "overrun"

\* The next entry of inode_idx_: its path and its hash.  The order of the
\* paths says nothing about the order of the hashes.
add_path(p) ==
  /\ pc = "path" /\ p \in todo
  /\ LET n == inode_idx[p]
     IN  /\ todo' = todo \ {p}
         /\ id' = n
         /\ pc' = IF Fits(mem.paths, cur.path, Length[n]) THEN "inode" ELSE "overrun"
         /\ mem' = [mem EXCEPT !.paths = Put(@, cur.path, Chars(n)),
                               !.hashes[cur.inode + 1] = n]
  /\ UNCHANGED <<cache, cur>>

\* Mutant: the key goes into the tree with the inode, before its blocks.
KeyBeforeBlocks ==
  /\ pc = "inode"
  /\ pc' = "blocks"
  /\ LET slot == cur.inode + 1
     IN  mem' = [mem EXCEPT !.inodes[slot].path = cur.path,
                            !.inodes[slot].path_size = Length[id],
                            !.tree.slots = @ \cup {slot}]
  /\ UNCHANGED <<cache, todo, id, cur>>

\* The fields of the inode, path_size the last: before it is set, none of
\* the others is looked at.
add_fields ==
  /\ pc = "inode"
  /\ pc' = "blocks"
  /\ mem' = [mem EXCEPT !.inodes[cur.inode + 1] =
                           [@ EXCEPT !.path = cur.path, !.path_size = Length[id]]]
  /\ UNCHANGED <<cache, todo, id, cur>>

\* The dirty blocks of the inode that are written.
written == cur.bd - cur.initial_bd

\* The next dirty block: its bytes and its block_data.
add_block ==
  /\ pc = "blocks" /\ written < Len(dirty_block[id])
  /\ LET k == written + 1
         size == dirty_block[id][k]
     IN  /\ pc' = IF Fits(mem.bytes, cur.block, size) /\ Fits(mem.bds, cur.bd, 1)
                    THEN "blocks" ELSE "overrun"
         /\ mem' = [mem EXCEPT
                      !.bytes = Put(@, cur.block, BlockBytes(id, k)),
                      !.bds = Put(@, cur.bd, << [block_id |-> k, size |-> size,
                                                 data_offset |-> cur.block] >>)]
         /\ cur' = [cur EXCEPT !.block = @ + size, !.bd = @ + 1]
  /\ UNCHANGED <<cache, todo, id>>

\* Mutant: the path cursor stays where it is.
PathCursorStays ==
  /\ pc = "blocks" /\ written = Len(dirty_block[id])
  /\ pc' = "insert"
  /\ mem' = [mem EXCEPT !.inodes[cur.inode + 1].block_data =
                           IF written > 0 THEN cur.initial_bd ELSE -1,
                        !.inodes[cur.inode + 1].block_data_size = written]
  /\ cur' = [cur EXCEPT !.inode = @ + 1, !.initial_bd = cur.bd]
  /\ UNCHANGED <<cache, todo, id>>

\* The inode gets its list of blocks, and the cursors move on.
add_block_list ==
  /\ pc = "blocks" /\ written = Len(dirty_block[id])
  /\ pc' = "insert"
  /\ mem' = [mem EXCEPT !.inodes[cur.inode + 1] =
                           [@ EXCEPT !.block_data = IF written > 0 THEN cur.initial_bd ELSE -1,
                                     !.block_data_size = written]]
  /\ cur' = [cur EXCEPT !.inode = @ + 1, !.path = @ + Length[id], !.initial_bd = cur.bd]
  /\ UNCHANGED <<cache, todo, id>>

\* The key goes into a node: into the empty root, or down to a leaf.  From
\* its first store to its last, keys stand beside the values of others, and a
\* node that is split has lost a half that hangs nowhere yet.
insert_begins ==
  /\ pc = "insert"
  /\ pc' = "torn"
  /\ UNCHANGED <<cache, todo, id, mem, cur>>

\* The key, as the place of its hash, is in the tree with its inode.
insert_returns ==
  /\ pc = "torn"
  /\ pc' = "path"
  /\ mem' = [mem EXCEPT !.tree.slots = @ \cup {cur.inode}]
  /\ UNCHANGED <<cache, todo, id, cur>>

\* flush_to_disk returns: TireFire::end closes the file and unmaps it.
end ==
  /\ pc = "path" /\ todo = {}
  /\ pc' = "done"
  /\ UNCHANGED <<cache, todo, id, mem, cur>>

Next ==
  \/ open_file \/ truncate_file \/ set_num_inodes \/ set_root \/ set_leaf \/ allocate_regions
  \/ \E p \in Paths : add_path(p)
  \/ add_fields \/ add_block \/ add_block_list \/ insert_begins \/ insert_returns \/ end

Spec == Init /\ [][Next]_vars
-----------------------------------------------------------------------------
(* What the loader reads.                                                  *)

\* The loader can search the file.  An empty one cannot be mapped; without
\* a root, and before the root is a leaf, all offsets are zero and the
\* descent turns in a circle.
Searchable == mem.size = "mapped" /\ mem.header.root /\ mem.tree.is_leaf

\* find_latest_inode's search of the tree for n: the place of an inode in the
\* list, or Nil.
Lookup(n) ==
  LET at == {k \in mem.tree.slots : mem.hashes[k] = n}
  IN  IF at = {} THEN Nil ELSE CHOOSE k \in at : TRUE

\* The path in inode record r: empty as long as path_size is zero.
PathIn(r) == SubSeq(mem.paths, r.path + 1, r.path + r.path_size)

\* The blocks find_latest_inode collects from inode record r.
BlocksIn(r) ==
  IF r.block_data = -1 THEN << >>
  ELSE [i \in 1..r.block_data_size |->
          LET b == mem.bds[r.block_data + i]
          IN  [block_id |-> b.block_id,
               data |-> SubSeq(mem.bytes, b.data_offset + 1, b.data_offset + b.size)]]

\* The paths get_children walks over: as many records as the header says.
Listing == {PathIn(mem.inodes[i]) : i \in 1..mem.header.num_inodes}
-----------------------------------------------------------------------------
\* The file has all its regions, and no insertion is under way.
Steady == pc \notin {"open", "truncate", "num_inodes", "root", "leaf", "regions", "torn", "overrun"}

\* The ids whose add_inode has returned.
Added == {mem.hashes[k] : k \in mem.tree.slots}

\* No two cached paths have one id: no link's text is a path in use, nor the
\* text of another link.
DistinctIds == \A p, q \in Cached : p # q => inode_idx[p] # inode_idx[q]

\* Links, if any, are no longer than their own paths and have ids of their
\* own.
PlainLinks == DistinctIds /\ \A p \in Cached : Length[inode_idx[p]] <= Length[p]

\* What flush_to_disk counts is enough for what add_inode writes: no store
\* goes behind the end of its region (the sizes are summed over dirty_block_
\* and over the paths, the stores follow inode_idx_).
RegionsHold == PlainLinks => ~overrun

\* A flush of entries with ids of their own, wherever it is cut off after the
\* regions are allocated, but for the stores of an insertion (shifting a node
\* or splitting nodes): the loader finds in the file the inodes that were
\* added, each with its own path and blocks, and no other.  An inode whose
\* blocks are not all there is not found, and one that was added is not spoilt
\* by the ones after it.  In particular the finished tree holds the whole
\* cache.
CutTreeReadable ==
  DistinctIds =>
    /\ Steady => Searchable
    /\ Steady =>
         \A n \in Names :
           IF n \notin Added THEN Lookup(n) = Nil
           ELSE LET r == mem.inodes[Lookup(n)]
                IN  /\ PathIn(r) = Chars(n)
                    /\ BlocksIn(r) = [k \in 1..Len(dirty_block[n]) |->
                                        [block_id |-> k, data |-> BlockBytes(n, k)]]
    /\ pc = "done" => Added = {inode_idx[p] : p \in Cached}

\* At the same points, whatever the ids, readdir lists every name added and no
\* text that is not one: apart from the name being added, records not yet
\* written have the empty path (get_children believes the header, which is
\* written first, and does not look at the tree).
CutTreeListable ==
  Steady => /\ {Chars(n) : n \in Added} \subseteq Listing
            /\ Listing \subseteq {Chars(n) : n \in Added \cup ({id} \ {Nil})} \cup {<< >>}
=============================================================================
