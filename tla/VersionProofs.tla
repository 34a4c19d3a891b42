--------------------------- MODULE VersionProofs ---------------------------
(***************************************************************************)
(* Which version of a block or of an inode wins, for all instances, with   *)
(* renames and symbolic links: when every tree has data for a file the     *)
(* merge finds the last version of each block (MergeFindsLatest), a        *)
(* listing does not depend on the order of the trees (ListingOrderFree),   *)
(* and a version made since the last flush wins (NewVersionListed).  The   *)
(* merge goes by mtime alone, so this takes a clock that moves between two *)
(* flushes (ClockMoves).                                                   *)
(***************************************************************************)
EXTENDS BlockCacheProofs

\* Two flushes are never in the same millisecond.
ClockMoves == 0 \notin ClockSteps
-----------------------------------------------------------------------------
(* The invariant.                                                          *)

\* Every version on disk is older than the clock; the versions of a block
\* get younger from tree to tree; versions of an inode that share an mtime
\* agree about its deletion.
Past(trees, time) ==
  \A i \in DOMAIN trees, id \in Ids :
    trees[i][id] # Nil =>
      /\ trees[i][id].mtime < time
      /\ \A b \in Blocks : trees[i][id].blocks[b] # Nil => trees[i][id].blocks[b].mtime < time

Ordered(trees) ==
  \A i, j \in DOMAIN trees, id \in Ids, b \in Blocks :
    /\ i < j
    /\ trees[i][id] # Nil /\ trees[i][id].blocks[b] # Nil
    /\ trees[j][id] # Nil /\ trees[j][id].blocks[b] # Nil
    => trees[i][id].blocks[b].mtime < trees[j][id].blocks[b].mtime

Agreed(trees) ==
  \A i, j \in DOMAIN trees, id \in Ids :
    /\ trees[i][id] # Nil /\ trees[j][id] # Nil
    /\ trees[i][id].mtime = trees[j][id].mtime
    => trees[i][id].deleted = trees[j][id].deleted

\* A cached inode is new, or has the mtime of a version on disk, and neither
\* is deleted.
Known(ino, id) ==
  /\ ~ino.deleted
  /\ \E i \in DOMAIN disk :
       disk[i][id] # Nil /\ disk[i][id].mtime = ino.mtime /\ ~disk[i][id].deleted

Stamped(c) ==
  \A id \in Ids :
    c.inode_ptrs[id] # Nil => c.inode_ptrs[id].mtime = now \/ Known(c.inode_ptrs[id], id)

\* What is dirty was written since the last flush, at which the clock moved.
DirtyNow(c) ==
  \A id \in Ids, b \in Blocks : c.dirty_block[id][b] # Nil => c.dirty_block[id][b].mtime = now

Timed(c) == Stamped(c) /\ DirtyNow(c)

VInv == IInv /\ Past(disk, now) /\ Ordered(disk) /\ Agreed(disk) /\ Timed(cache)
-----------------------------------------------------------------------------
(* Which version wins.                                                     *)

\* An order of the trees meets each of them once.
LEMMA OrderFacts ==
  ASSUME NEW n \in Nat, NEW order \in Orders(n)
  PROVE  /\ DOMAIN order = 1..n
         /\ \A i \in 1..n : order[i] \in 1..n
         /\ \A i, j \in 1..n : order[i] = order[j] => i = j
         /\ \A k \in 1..n : \E i \in 1..n : order[i] = k
  BY DEF Orders, Bijection, Injection, Surjection, IsInjective

\* The order in which the trees were written is one.
LEMMA IdentityOrder ==
  ASSUME NEW n \in Nat
  PROVE  [i \in 1..n |-> i] \in Orders(n)
  BY DEF Orders, Bijection, Injection, Surjection, IsInjective

\* A version of block b, and of an inode, by its tree.
LEMMA VersionTypes ==
  ASSUME NEW trees \in Seq(Tree)
  PROVE  /\ Len(trees) \in Nat /\ DOMAIN trees = 1..Len(trees)
         /\ \A i \in 1..Len(trees), id \in Ids : trees[i][id] # Nil =>
              /\ trees[i][id] \in DiskInode
              /\ trees[i][id].mtime \in Nat
              /\ trees[i][id].deleted \in BOOLEAN
              /\ \A b \in Blocks : trees[i][id].blocks[b] # Nil => trees[i][id].blocks[b].mtime \in Nat
  <1>1. Len(trees) \in Nat /\ DOMAIN trees = 1..Len(trees) /\ \A i \in 1..Len(trees) : trees[i] \in Tree
    OBVIOUS
  <1>2. \A i \in 1..Len(trees), id \in Ids : trees[i][id] # Nil => trees[i][id] \in DiskInode
    BY <1>1 DEF Tree
  <1> QED BY <1>1, <1>2 DEF DiskInode

\* The loop keeps the version of the block with the greatest mtime, which is
\* in the last tree that has one.
LEMMA MergeLatest == VInv => MergeFindsLatest
  <1> SUFFICES ASSUME VInv, NEW id \in Ids, NEW order \in Orders(Len(disk)), NEW b \in Blocks,
                      \A i \in DOMAIN disk : disk[i][id] # Nil /\ HasData(disk[i][id])
               PROVE  LatestBlock(disk, order, id, Reached(disk, order, id, TRUE), b) = Latest(disk, id, b)
    BY DEF MergeFindsLatest
  <1> DEFINE n == Len(disk)
             blk(i) == Entry(disk, order, id, i).blocks[b]
             reached == Reached(disk, order, id, TRUE)
             held == {i \in reached : blk(i) # Nil}
             wins(i) == \A j \in held :
                          blk(j).mtime < blk(i).mtime \/ (blk(j).mtime = blk(i).mtime /\ j <= i)
             H == {i \in DOMAIN disk : disk[i][id] # Nil /\ disk[i][id].blocks[b] # Nil}
  <1>1. disk \in Seq(Tree) /\ Ordered(disk)
    BY DEF VInv, IInv, TypeOK, Tree
  <1>2. n \in Nat /\ DOMAIN disk = 1..n
    BY <1>1
  <1>3. \A i \in H : disk[i][id].blocks[b].mtime \in Nat
    BY <1>1, <1>2, VersionTypes
  <1>4. /\ DOMAIN order = 1..n
        /\ \A i \in 1..n : order[i] \in 1..n
        /\ \A i, j \in 1..n : order[i] = order[j] => i = j
        /\ \A k \in 1..n : \E i \in 1..n : order[i] = k
    BY <1>2, OrderFacts
  <1>5. reached = 1..n
    <2>1. \A i \in 1..n : \A j \in 1..(i - 1) : j \in 1..n
      BY <1>2
    <2>2. \A i \in 1..n : Entry(disk, order, id, i) # Nil /\ HasData(Entry(disk, order, id, i))
      BY <1>2, <1>4 DEF Entry
    <2> QED BY <1>4, <2>1, <2>2 DEF Reached
  <1>6. \A i \in 1..n : (i \in held <=> order[i] \in H) /\ blk(i) = disk[order[i]][id].blocks[b]
    <2>1. \A i \in 1..n : order[i] \in DOMAIN disk
      BY <1>2, <1>4
    <2> QED BY <1>5, <2>1 DEF Entry
  <1>7. held \subseteq 1..n /\ H \subseteq 1..n /\ H \subseteq Nat
    <2>1. 1..n \subseteq Nat
      BY <1>2
    <2>2. held \subseteq 1..n /\ H \subseteq 1..n
      BY <1>2, <1>5
    <2> HIDE DEF n, held, H
    <2> QED BY <2>1, <2>2
  <1>8. LatestBlock(disk, order, id, reached, b) = IF held = {} THEN Nil ELSE blk(CHOOSE i \in held : wins(i)).data
    BY DEF LatestBlock
  <1>9. Latest(disk, id, b) = IF H = {} THEN Nil ELSE disk[CHOOSE i \in H : \A j \in H : j <= i][id].blocks[b].data
    BY DEF Latest
  <1>10. \A i, j \in H : i < j => disk[i][id].blocks[b].mtime < disk[j][id].blocks[b].mtime
    BY <1>1 DEF Ordered
  <1> HIDE DEF n, blk, held, H, reached
  <1>11. CASE H = {}
    <2>1. held = {}
      BY <1>6, <1>7, <1>11
    <2> QED BY <1>8, <1>9, <1>11, <2>1 DEF reached
  <1>12. CASE H # {}
    <2> DEFINE m == CHOOSE i \in H : \A j \in H : j <= i
               w == CHOOSE i \in held : wins(i)
    <2>1. m \in H /\ \A j \in H : j <= m
      <3>1. \E i \in H : \A j \in H : j <= i
        BY <1>2, <1>7, <1>12, Greatest
      <3> QED BY <3>1
    <2> HIDE DEF m
    <2>2. PICK k \in 1..n : order[k] = m
      BY <1>4, <1>7, <2>1
    <2>3. k \in held
      BY <1>6, <2>1, <2>2
    <2>4. ASSUME NEW j \in held
          PROVE  /\ j \in 1..n /\ order[j] \in H /\ order[j] \in Nat /\ m \in Nat
                 /\ order[j] <= m /\ blk(j) = disk[order[j]][id].blocks[b]
                 /\ order[j] < m => blk(j).mtime < blk(k).mtime
                 /\ order[j] = m => j = k
                 /\ blk(j).mtime \in Nat /\ blk(k).mtime \in Nat
      <3>1. j \in 1..n /\ order[j] \in H /\ blk(j) = disk[order[j]][id].blocks[b]
        BY <1>6, <1>7
      <3>2. blk(k) = disk[m][id].blocks[b]
        BY <1>6, <2>2
      <3>3. order[j] <= m
        BY <2>1, <3>1
      <3>4. order[j] \in Nat /\ m \in Nat
        BY <1>7, <2>1, <3>1
      <3>5. order[j] < m => blk(j).mtime < blk(k).mtime
        BY <1>10, <2>1, <3>1, <3>2
      <3>6. order[j] = m => j = k
        BY <1>4, <2>2, <3>1
      <3>7. blk(j).mtime \in Nat /\ blk(k).mtime \in Nat
        BY <1>3, <2>1, <3>1, <3>2
      <3> QED BY <3>1, <3>3, <3>4, <3>5, <3>6, <3>7
    <2>5. wins(k)
      <3> SUFFICES ASSUME NEW j \in held
                   PROVE  blk(j).mtime < blk(k).mtime \/ (blk(j).mtime = blk(k).mtime /\ j <= k)
        OBVIOUS
      <3>1. order[j] < m \/ order[j] = m
        BY <2>4
      <3> QED BY <2>4, <3>1
    <2>6. w \in held /\ wins(w)
      <3> HIDE DEF wins
      <3> QED BY <2>3, <2>5
    <2> HIDE DEF w
    <2>7. order[w] = m
      <3>1. blk(k).mtime < blk(w).mtime \/ blk(k).mtime = blk(w).mtime
        BY <2>3, <2>6
      <3>2. ~(order[w] < m)
        BY <2>4, <2>6, <3>1
      <3> QED BY <2>4, <2>6, <3>2
    <2>8. held # {}
      BY <2>3
    <2>9. blk(w) = disk[m][id].blocks[b]
      BY <2>4, <2>6, <2>7
    <2> QED BY <1>8, <1>9, <1>12, <2>8, <2>9 DEF w, m, reached
  <1> QED BY <1>11, <1>12

\* A name is listed when its youngest version is not a deletion, whatever the
\* order of the trees.
Alive(trees, id) ==
  \E i \in DOMAIN trees :
    /\ trees[i][id] # Nil /\ ~trees[i][id].deleted
    /\ \A j \in DOMAIN trees : trees[j][id] # Nil => trees[j][id].mtime <= trees[i][id].mtime

\* A name is listed exactly when its newest version is alive.
LEMMA ListedIff ==
  ASSUME NEW trees \in Seq(Tree), Agreed(trees), NEW order \in Orders(Len(trees)),
         NEW dir, NEW x \in Names
  PROVE  x \in readdir_names(trees, order, dir) <=> Parent[x] = dir /\ Alive(trees, crypto_hash(x))
  <1> DEFINE n == Len(trees)
             id == crypto_hash(x)
             di(i) == Entry(trees, order, id, i)
             held == {i \in DOMAIN order : di(i) # Nil}
             wins(i) == \A j \in held :
                          di(j).mtime < di(i).mtime \/ (di(j).mtime = di(i).mtime /\ j <= i)
             w == CHOOSE i \in held : wins(i)
             m == [i \in held |-> di(i).mtime]
             r == [i \in held |-> i]
  <1>1. n \in Nat /\ DOMAIN trees = 1..n /\ id \in Ids
    BY HashId
  <1>2. \A i \in 1..n : trees[i][id] # Nil => trees[i][id].mtime \in Nat /\ trees[i][id].deleted \in BOOLEAN
    BY <1>1, VersionTypes
  <1>3. /\ DOMAIN order = 1..n
        /\ \A i \in 1..n : order[i] \in 1..n
        /\ \A k \in 1..n : \E i \in 1..n : order[i] = k
    BY <1>1, OrderFacts
  <1>4. x \in readdir_names(trees, order, dir) <=> Parent[x] = dir /\ held # {} /\ ~di(w).deleted
    BY DEF readdir_names
  <1>5. held \subseteq 1..n /\ \A i \in 1..n : di(i) = trees[order[i]][id] /\ (i \in held <=> trees[order[i]][id] # Nil)
    BY <1>3 DEF Entry
  <1>6. \A i, j \in 1..n : /\ trees[i][id] # Nil /\ trees[j][id] # Nil
                           /\ trees[i][id].mtime = trees[j][id].mtime
                           => trees[i][id].deleted = trees[j][id].deleted
    BY <1>1 DEF Agreed
  <1> HIDE DEF n, id, di, held
  <1>7. CASE held = {}
    <2>1. \A i \in 1..n : trees[i][id] = Nil
      BY <1>3, <1>5, <1>7
    <2> QED BY <1>1, <1>4, <1>7, <2>1 DEF Alive, id
  <1>8. CASE held # {}
    <2>1. \E i \in held : \A j \in held : Beats(m, r, i, j)
      <3>1. \A i \in held : m[i] \in Nat /\ r[i] \in Int
        BY <1>2, <1>3, <1>5
      <3> HIDE DEF m, r
      <3> QED BY <1>1, <1>5, <1>8, <3>1, Winner
    <2>2. \E i \in held : wins(i)
      BY <2>1 DEF Beats
    <2>3. w \in held /\ wins(w)
      <3> HIDE DEF wins
      <3> QED BY <2>2
    <2> HIDE DEF w
    <2> DEFINE k == order[w]
    <2>4. k \in 1..n /\ trees[k][id] # Nil /\ di(w) = trees[k][id]
      BY <1>3, <1>5, <2>3
    <2>5. \A j \in 1..n : trees[j][id] # Nil => trees[j][id].mtime <= trees[k][id].mtime
      <3> SUFFICES ASSUME NEW j \in 1..n, trees[j][id] # Nil
                   PROVE  trees[j][id].mtime <= trees[k][id].mtime
        OBVIOUS
      <3>1. PICK i \in 1..n : order[i] = j
        BY <1>3
      <3>2. i \in held /\ di(i) = trees[j][id]
        BY <1>5, <3>1
      <3>3. di(i).mtime < di(w).mtime \/ di(i).mtime = di(w).mtime
        BY <2>3, <3>2
      <3> HIDE DEF k
      <3> QED BY <1>2, <2>4, <3>2, <3>3
    <2> HIDE DEF k
    <2>6. Alive(trees, id) <=> ~trees[k][id].deleted
      <3>1. ASSUME ~trees[k][id].deleted PROVE Alive(trees, id)
        BY <1>1, <2>4, <2>5, <3>1 DEF Alive
      <3>2. ASSUME Alive(trees, id) PROVE ~trees[k][id].deleted
        <4>1. PICK i \in 1..n :
                 /\ trees[i][id] # Nil /\ ~trees[i][id].deleted
                 /\ \A j \in 1..n : trees[j][id] # Nil => trees[j][id].mtime <= trees[i][id].mtime
          BY <1>1, <3>2 DEF Alive
        <4>2. trees[k][id].mtime <= trees[i][id].mtime /\ trees[i][id].mtime <= trees[k][id].mtime
          BY <2>4, <2>5, <4>1
        <4>3. trees[i][id].mtime = trees[k][id].mtime
          BY <1>2, <2>4, <4>1, <4>2
        <4> QED BY <1>6, <2>4, <4>1, <4>3
      <3> QED BY <3>1, <3>2
    <2> QED BY <1>4, <1>8, <2>4, <2>6 DEF id
  <1> QED BY <1>7, <1>8

\* So the order of the trees does not matter.
LEMMA ListingFree == VInv => ListingOrderFree
  <1> SUFFICES ASSUME VInv, NEW dir \in Dirs, NEW order \in Orders(Len(disk))
               PROVE  readdir_names(disk, order, dir) = readdir_names(disk, [i \in DOMAIN disk |-> i], dir)
    BY DEF ListingOrderFree
  <1> DEFINE same == [i \in DOMAIN disk |-> i]
  <1>1. disk \in Seq(Tree) /\ Agreed(disk)
    BY DEF VInv, IInv, TypeOK, Tree
  <1>2. Len(disk) \in Nat /\ DOMAIN disk = 1..Len(disk)
    BY <1>1
  <1>3. same \in Orders(Len(disk))
    BY <1>2, IdentityOrder
  <1>4. \A o : readdir_names(disk, o, dir) \subseteq Names
    BY DEF readdir_names
  <1> HIDE DEF same
  <1>5. \A x \in Names : x \in readdir_names(disk, order, dir) <=> x \in readdir_names(disk, same, dir)
    BY <1>1, <1>3, ListedIff
  <1>6. readdir_names(disk, order, dir) = readdir_names(disk, same, dir)
    <2> DEFINE A == readdir_names(disk, order, dir)
               B == readdir_names(disk, same, dir)
    <2>1. A \subseteq Names /\ B \subseteq Names /\ \A x \in Names : x \in A <=> x \in B
      BY <1>4, <1>5
    <2> HIDE DEF A, B
    <2>2. A = B
      BY <2>1
    <2> QED BY <2>2 DEF A, B
  <1> QED BY <1>6 DEF same
-----------------------------------------------------------------------------
(* What a flush adds.                                                      *)

\* The inodes of the new tree are those of the cache, and their blocks the
\* dirty ones.
LEMMA NewTreeFacts ==
  ASSUME NEW c, Sound(c), Timed(c), NEW id \in Ids, NewTree(c)[id] # Nil
  PROVE  LET ino == c.inode_ptrs[id]
             di == NewTree(c)[id]
         IN  /\ ino \in Inode /\ id \in Cached(c)
             /\ di.mtime = ino.mtime /\ di.deleted = ino.deleted
             /\ di.mtime = now \/ Known(ino, id)
             /\ \A b \in Blocks : di.blocks[b] # Nil => di.blocks[b].mtime = now
  <1>1. id \in Cached(c) /\ NewTree(c)[id] = FlushedInode(c, id)
    BY DEF NewTree
  <1>2. c.inode_ptrs[id] \in Inode /\ c.inode_ptrs[id] # Nil
    BY <1>1, NilAssumption DEF Cached, Sound, Resolves, in_cache, get_inode_by_path
  <1>3. \A b \in Blocks : FlushedInode(c, id).blocks[b] # Nil =>
          c.dirty_block[id][b] # Nil /\ FlushedInode(c, id).blocks[b].mtime = c.dirty_block[id][b].mtime
    BY DEF FlushedInode
  <1>4. FlushedInode(c, id).mtime = c.inode_ptrs[id].mtime /\ FlushedInode(c, id).deleted = c.inode_ptrs[id].deleted
    BY DEF FlushedInode
  <1> QED BY <1>1, <1>2, <1>3, <1>4 DEF Timed, Stamped, DirtyNow

\* The trees with the new one are as the trees were, from the next
\* millisecond on.
LEMMA AppendTimes ==
  ASSUME NEW c, Sound(c), Timed(c), disk \in Seq(Tree), now \in Nat,
         Past(disk, now), Ordered(disk), Agreed(disk)
  PROVE  LET trees == Append(disk, NewTree(c))
         IN  /\ trees \in Seq(Tree) /\ Len(trees) = Len(disk) + 1
             /\ trees[Len(trees)] = NewTree(c)
             /\ \A i \in 1..Len(disk) : trees[i] = disk[i]
             /\ Ordered(trees) /\ Agreed(trees)
             /\ \A time \in Nat : now < time => Past(trees, time)
  <1> DEFINE n == Len(disk)
             t == NewTree(c)
             trees == Append(disk, t)
  <1>1. t \in Tree
    BY NewTreeType
  <1>2. \A id \in Ids : t[id] # Nil =>
          /\ t[id].deleted = c.inode_ptrs[id].deleted /\ t[id].mtime = c.inode_ptrs[id].mtime
          /\ t[id].mtime = now \/ Known(c.inode_ptrs[id], id)
          /\ \A b \in Blocks : t[id].blocks[b] # Nil => t[id].blocks[b].mtime = now
    BY NewTreeFacts
  <1> HIDE DEF t
  <1>3. /\ n \in Nat /\ DOMAIN disk = 1..n
        /\ trees \in Seq(Tree) /\ Len(trees) = n + 1 /\ DOMAIN trees = 1..(n + 1)
        /\ trees[n + 1] = t /\ \A i \in 1..n : trees[i] = disk[i]
    BY <1>1
  <1>4. \A i \in 1..(n + 1) : i \in 1..n \/ i = n + 1
    BY <1>3
  <1>5. \A i \in 1..n, id \in Ids : disk[i][id] # Nil =>
          /\ disk[i][id].mtime < now /\ disk[i][id].mtime \in Nat
          /\ \A b \in Blocks : disk[i][id].blocks[b] # Nil =>
               disk[i][id].blocks[b].mtime < now /\ disk[i][id].blocks[b].mtime \in Nat
    BY <1>3, VersionTypes DEF Past
  <1> HIDE DEF trees, n
  <1>6. Ordered(trees)
    <2> SUFFICES ASSUME NEW i \in 1..(n + 1), NEW j \in 1..(n + 1), NEW id \in Ids, NEW b \in Blocks,
                        i < j, trees[i][id] # Nil, trees[i][id].blocks[b] # Nil,
                        trees[j][id] # Nil, trees[j][id].blocks[b] # Nil
                 PROVE  trees[i][id].blocks[b].mtime < trees[j][id].blocks[b].mtime
      BY <1>3 DEF Ordered
    <2>1. i \in 1..n /\ trees[i] = disk[i]
      BY <1>3, <1>4
    <2>2. CASE j \in 1..n
      BY <1>3, <2>1, <2>2 DEF Ordered
    <2>3. CASE j = n + 1
      BY <1>2, <1>3, <1>5, <2>1, <2>3
    <2> QED BY <1>4, <2>2, <2>3
  <1>7. ASSUME NEW i \in 1..n, NEW id \in Ids, disk[i][id] # Nil, t[id] # Nil,
               disk[i][id].mtime = t[id].mtime
        PROVE  disk[i][id].deleted = t[id].deleted
    <2>1. t[id].mtime # now
      BY <1>5, <1>7
    <2>2. Known(c.inode_ptrs[id], id)
      BY <1>2, <1>7, <2>1
    <2>3. ~t[id].deleted /\ t[id].deleted = c.inode_ptrs[id].deleted
      BY <1>2, <1>7, <2>2 DEF Known
    <2>4. PICK k \in 1..n : disk[k][id] # Nil /\ disk[k][id].mtime = t[id].mtime /\ ~disk[k][id].deleted
      BY <1>2, <1>3, <1>7, <2>2 DEF Known
    <2>5. disk[i][id].deleted = disk[k][id].deleted
      BY <1>3, <1>7, <2>4 DEF Agreed
    <2>6. disk[i][id].deleted \in BOOLEAN /\ t[id].deleted \in BOOLEAN
      <3>1. t[id] \in DiskInode
        BY <1>1, <1>7 DEF Tree
      <3>2. disk[i][id] \in DiskInode
        BY <1>3, <1>7, VersionTypes
      <3> QED BY <3>1, <3>2 DEF DiskInode
    <2> QED BY <2>3, <2>4, <2>5, <2>6, Zenon
  <1>8. Agreed(trees)
    <2> SUFFICES ASSUME NEW i \in 1..(n + 1), NEW j \in 1..(n + 1), NEW id \in Ids,
                        trees[i][id] # Nil, trees[j][id] # Nil, trees[i][id].mtime = trees[j][id].mtime
                 PROVE  trees[i][id].deleted = trees[j][id].deleted
      BY <1>3 DEF Agreed
    <2>1. CASE i \in 1..n /\ j \in 1..n
      BY <1>3, <2>1 DEF Agreed
    <2>2. CASE i \in 1..n /\ j = n + 1
      BY <1>3, <1>7, <2>2
    <2>3. CASE i = n + 1 /\ j \in 1..n
      BY <1>3, <1>7, <2>3
    <2>4. CASE i = n + 1 /\ j = n + 1
      BY <2>4
    <2> QED BY <1>4, <2>1, <2>2, <2>3, <2>4
  <1>9. ASSUME NEW time \in Nat, now < time PROVE Past(trees, time)
    <2> SUFFICES ASSUME NEW i \in 1..(n + 1), NEW id \in Ids, trees[i][id] # Nil
                 PROVE  /\ trees[i][id].mtime < time
                        /\ \A b \in Blocks : trees[i][id].blocks[b] # Nil =>
                             trees[i][id].blocks[b].mtime < time
      BY <1>3 DEF Past
    <2>1. CASE i \in 1..n
      <3>1. disk[i][id] # Nil /\ trees[i] = disk[i]
        BY <1>3, <2>1
      <3> QED BY <1>5, <1>9, <2>1, <3>1
    <2>2. CASE i = n + 1
      <3>1. trees[i] = t /\ t[id] # Nil
        BY <1>3, <2>2
      <3>2. t[id].mtime = now \/ (t[id].mtime < now /\ t[id].mtime \in Nat)
        <4>1. CASE Known(c.inode_ptrs[id], id)
          BY <1>2, <1>3, <1>5, <3>1, <4>1 DEF Known
        <4> QED BY <1>2, <3>1, <4>1
      <3> QED BY <1>2, <1>9, <3>1, <3>2
    <2> QED BY <1>4, <2>1, <2>2
  <1> QED BY <1>3, <1>6, <1>8, <1>9 DEF trees, n, t

\* A version made now is younger than those on disk.
LEMMA NewListed == VInv => NewVersionListed
  <1> DEFINE trees == Append(disk, NewTree(cache))
             n == Len(trees)
  <1> SUFFICES ASSUME VInv, NEW p \in Paths, NEW order \in Orders(n),
                      cache.inode_idx[p] = crypto_hash(p), get_inode_by_path(cache, p).mtime = now
               PROVE  p \in readdir_names(trees, order, Parent[p]) <=> ~get_inode_by_path(cache, p).deleted
    BY DEF NewVersionListed
  <1> DEFINE id == crypto_hash(p)
             t == NewTree(cache)
  <1>1. /\ Sound(cache) /\ Timed(cache) /\ disk \in Seq(Tree) /\ now \in Nat
        /\ Past(disk, now) /\ Ordered(disk) /\ Agreed(disk)
    BY DEF VInv, IInv, TypeOK, Tree
  <1>2. /\ trees \in Seq(Tree) /\ n = Len(disk) + 1 /\ trees[n] = t
        /\ \A i \in 1..Len(disk) : trees[i] = disk[i]
        /\ Agreed(trees)
    BY <1>1, AppendTimes
  <1>3. p \in Names /\ id \in Ids /\ id # Nil
    BY PathId
  <1>4. id \in Cached(cache)
    BY <1>3 DEF Cached, in_cache
  <1>5. t[id] = FlushedInode(cache, id) /\ t[id] # Nil
    BY <1>1, <1>3, <1>4, FlushedInodeType, NilAssumption DEF NewTree
  <1>6. t[id].mtime = now /\ t[id].deleted = get_inode_by_path(cache, p).deleted
    <2>1. get_inode_by_path(cache, p) = cache.inode_ptrs[id]
      BY DEF get_inode_by_path
    <2>2. /\ FlushedInode(cache, id).mtime = cache.inode_ptrs[id].mtime
          /\ FlushedInode(cache, id).deleted = cache.inode_ptrs[id].deleted
      BY Zenon DEF FlushedInode
    <2> QED BY <1>5, <2>1, <2>2, Zenon
  <1> HIDE DEF trees, n, t, id
  <1>7. Len(disk) \in Nat /\ DOMAIN disk = 1..Len(disk) /\ DOMAIN trees = 1..n /\ n \in 1..n
    BY <1>1, <1>2 DEF n
  <1>8. \A i \in 1..n : i # n => i \in 1..Len(disk)
    BY <1>2, <1>7
  <1>9. \A i \in 1..n : trees[i][id] # Nil /\ i # n => trees[i][id].mtime < now /\ trees[i][id].mtime \in Nat
    BY <1>1, <1>2, <1>3, <1>7, <1>8, VersionTypes DEF Past
  <1>10. Alive(trees, id) <=> ~t[id].deleted
    <2>1. ASSUME ~t[id].deleted PROVE Alive(trees, id)
      <3>1. \A j \in 1..n : trees[j][id] # Nil => trees[j][id].mtime <= t[id].mtime
        BY <1>1, <1>2, <1>6, <1>9
      <3> QED BY <1>2, <1>5, <1>7, <2>1, <3>1 DEF Alive
    <2>2. ASSUME Alive(trees, id) PROVE ~t[id].deleted
      <3>1. PICK i \in 1..n : /\ trees[i][id] # Nil /\ ~trees[i][id].deleted
                              /\ \A j \in 1..n : trees[j][id] # Nil => trees[j][id].mtime <= trees[i][id].mtime
        BY <1>7, <2>2 DEF Alive
      <3>2. now <= trees[i][id].mtime
        BY <1>2, <1>5, <1>6, <1>7, <3>1
      <3>3. i = n
        BY <1>1, <1>9, <3>1, <3>2
      <3> QED BY <1>2, <3>1, <3>3
    <2> QED BY <2>1, <2>2
  <1>11. p \in readdir_names(trees, order, Parent[p]) <=> Alive(trees, id)
    BY <1>2, <1>3, ListedIff DEF id, n
  <1> QED BY <1>6, <1>10, <1>11
-----------------------------------------------------------------------------
(* The methods of the cache.                                               *)

\* d has the inodes of c, but for some that were changed now, and the dirty
\* blocks of c, but for some that were written now.
Restamped(c, d) ==
  /\ \A id \in Ids : d.inode_ptrs[id] # Nil =>
       \/ d.inode_ptrs[id].mtime = now
       \/ /\ c.inode_ptrs[id] # Nil
          /\ d.inode_ptrs[id].mtime = c.inode_ptrs[id].mtime
          /\ d.inode_ptrs[id].deleted => c.inode_ptrs[id].deleted
  /\ \A id \in Ids, b \in Blocks : d.dirty_block[id][b] # Nil =>
       d.dirty_block[id][b].mtime = now \/ d.dirty_block[id][b] = c.dirty_block[id][b]

\* Such a change keeps the times.
LEMMA TimedRestamped ==
  ASSUME NEW c, Timed(c), NEW d, Restamped(c, d)
  PROVE  Timed(d)
  <1>1. Stamped(d)
    BY DEF Timed, Stamped, Restamped, Known
  <1>2. DirtyNow(d)
    BY DEF Timed, DirtyNow, Restamped
  <1> QED BY <1>1, <1>2 DEF Timed

\* One inode is replaced by one changed now, or one that lost its deletion
\* mark.
LEMMA ReplaceRestamps ==
  ASSUME NEW c \in Cache, NEW d, NEW id \in Ids, NEW ino,
         \/ ino.mtime = now
         \/ c.inode_ptrs[id] # Nil /\ ino.mtime = c.inode_ptrs[id].mtime /\ ~ino.deleted,
         d.inode_ptrs = [c.inode_ptrs EXCEPT ![id] = ino],
         d.dirty_block = c.dirty_block
  PROVE  Restamped(c, d)
  BY DEF Restamped, Cache

\* Freeing objects changes no inode.
LEMMA TimedFreed ==
  ASSUME NEW c, Sound(c), Timed(c)
  PROVE  Timed(Freed(c))
  <1>1. c \in Cache
    BY DEF Sound
  <1>2. Freed(c).inode_ptrs = c.inode_ptrs /\ Freed(c).dirty_block = c.dirty_block
    BY <1>1, FreedFields
  <1> QED BY <1>2 DEF Timed, Stamped, DirtyNow

\* make_file and symlink make their inode now.
LEMMA TimedNew ==
  ASSUME NEW c, Sound(c), Timed(c), NEW p \in Paths, NEW mode, NEW from \in Names
  PROVE  Timed(make_file(c, p, mode)) /\ Timed(symlink(c, from, p))
  <1>1. c \in Cache /\ crypto_hash(p) \in Ids /\ crypto_hash(from) \in Ids
    BY PathId, HashId DEF Sound
  <1>2. NewInode(p, mode).mtime = now /\ NewInode(from, "lnk").mtime = now
    BY DEF NewInode
  <1>3. /\ make_file(c, p, mode).inode_ptrs = [c.inode_ptrs EXCEPT ![crypto_hash(p)] = NewInode(p, mode)]
        /\ make_file(c, p, mode).dirty_block = c.dirty_block
    BY <1>1 DEF make_file, Cache
  <1>4. /\ symlink(c, from, p).inode_ptrs = [c.inode_ptrs EXCEPT ![crypto_hash(from)] = NewInode(from, "lnk")]
        /\ symlink(c, from, p).dirty_block = c.dirty_block
    BY <1>1 DEF symlink, Cache
  <1>5. Restamped(c, make_file(c, p, mode))
    BY <1>1, <1>2, <1>3, ReplaceRestamps
  <1>6. Restamped(c, symlink(c, from, p))
    BY <1>1, <1>2, <1>4, ReplaceRestamps
  <1> QED BY <1>5, <1>6, TimedRestamped

\* truncate and rmdir change their inode now; remake_inode takes the deletion
\* mark away, which no inode with an older mtime has.
LEMMA TimedChanged ==
  ASSUME NEW c, Sound(c), Timed(c), NEW p \in Paths
  PROVE  /\ \A n \in Nat : Timed(truncate(c, p, n))
         /\ in_cache(c, p) => Timed(rmdir(c, p)) /\ Timed(Remade(c, p))
  <1> DEFINE id == c.inode_idx[p]
             ino == c.inode_ptrs[id]
  <1>1. c \in Cache
    BY DEF Sound
  <1>2. CASE ~in_cache(c, p)
    BY <1>2 DEF truncate
  <1>3. CASE in_cache(c, p)
    <2>1. id \in Ids /\ ino \in Inode /\ ino # Nil
      BY <1>1, <1>3, NilAssumption DEF Sound, Resolves, in_cache, get_inode_by_path, Cache
    <2>2. ASSUME NEW n \in Nat PROVE Timed(truncate(c, p, n))
      <3>1. set_size(ino, n).mtime = now
        BY <2>1 DEF set_size, Inode
      <3>2. /\ truncate(c, p, n).inode_ptrs = [c.inode_ptrs EXCEPT ![id] = set_size(ino, n)]
            /\ truncate(c, p, n).dirty_block = c.dirty_block
        BY <1>1, <1>3, <2>1 DEF truncate, Cache
      <3> HIDE DEF id, ino
      <3>3. Restamped(c, truncate(c, p, n))
        BY <1>1, <2>1, <3>1, <3>2, ReplaceRestamps
      <3> QED BY <3>3, TimedRestamped
    <2>3. Timed(rmdir(c, p))
      <3>1. delete_inode(ino).mtime = now
        BY <2>1 DEF delete_inode, Inode
      <3>2. /\ rmdir(c, p).inode_ptrs = [c.inode_ptrs EXCEPT ![id] = delete_inode(ino)]
            /\ rmdir(c, p).dirty_block = c.dirty_block
        BY <1>1, <2>1 DEF rmdir, Cache
      <3> HIDE DEF id, ino
      <3>3. Restamped(c, rmdir(c, p))
        BY <1>1, <2>1, <3>1, <3>2, ReplaceRestamps
      <3> QED BY <3>3, TimedRestamped
    <2>4. Timed(Remade(c, p))
      <3> DEFINE new == [ino EXCEPT !.deleted = FALSE]
      <3>1. new.mtime = ino.mtime /\ ~new.deleted
        BY <2>1 DEF Inode
      <3>2. /\ Remade(c, p).inode_ptrs = [c.inode_ptrs EXCEPT ![id] = new]
            /\ Remade(c, p).dirty_block = c.dirty_block
        BY <1>1, <2>1 DEF Remade, Cache
      <3> HIDE DEF new
      <3>3. ino = c.inode_ptrs[id]
        OBVIOUS
      <3> HIDE DEF id, ino
      <3>4. Restamped(c, Remade(c, p))
        BY <1>1, <2>1, <3>1, <3>2, <3>3, ReplaceRestamps
      <3> QED BY <3>4, TimedRestamped
    <2> QED BY <2>2, <2>3, <2>4
  <1> QED BY <1>2, <1>3

\* remove takes links away without touching mtimes, and deletes its inode now.
LEMMA TimedRemove ==
  ASSUME NEW c, Sound(c), Timed(c), NEW p \in Paths, in_cache(c, p)
  PROVE  Timed(remove(c, p))
  <1> DEFINE d == remove(c, p)
             id == c.inode_idx[p]
             unlinked(ino) == IF ino # Nil /\ p \in ino.refs THEN dec_link(ino, p) ELSE ino
             ptrs == [x \in Ids |-> unlinked(c.inode_ptrs[x])]
             gone == delete_inode(ptrs[id])
  <1>1. c \in Cache
    BY DEF Sound
  <1>2. p \in Names /\ id \in Ids /\ c.inode_ptrs[id] \in Inode /\ c.inode_ptrs[id] # Nil
    BY <1>1, PathId, NilAssumption DEF Sound, Resolves, in_cache, get_inode_by_path, Cache
  <1>3. ASSUME NEW x \in Ids, ptrs[x] # Nil
        PROVE  /\ c.inode_ptrs[x] # Nil
               /\ ptrs[x].mtime = c.inode_ptrs[x].mtime
               /\ ptrs[x].deleted = c.inode_ptrs[x].deleted
    <2>1. c.inode_ptrs[x] # Nil
      BY <1>3
    <2>2. c.inode_ptrs[x] \in Inode
      BY <1>1, <2>1 DEF Cache
    <2>3. /\ dec_link(c.inode_ptrs[x], p).mtime = c.inode_ptrs[x].mtime
          /\ dec_link(c.inode_ptrs[x], p).deleted = c.inode_ptrs[x].deleted
      BY <2>2 DEF dec_link, Inode
    <2> QED BY <2>1, <2>3
  <1>4. ptrs[id] \in Inode
    <2>1. dec_link(c.inode_ptrs[id], p) \in Inode
      BY <1>2, DecLinkType
    <2> QED BY <1>2, <2>1
  <1>5. gone.mtime = now
    <2> HIDE DEF ptrs
    <2> QED BY <1>4 DEF delete_inode, Inode
  <1>6. d.inode_ptrs = [ptrs EXCEPT ![id] = gone] /\ d.dirty_block = c.dirty_block
    BY <1>1, <1>2 DEF remove, Cache
  <1>7. DOMAIN ptrs = Ids
    OBVIOUS
  <1> HIDE DEF ptrs, gone, d, id
  <1>8. Restamped(c, d)
    BY <1>2, <1>3, <1>5, <1>6, <1>7 DEF Restamped
  <1> QED BY <1>8, TimedRestamped DEF d

\* load_from_disk keeps an old mtime only for an inode that is not deleted.
LEMMA TimedLoad ==
  ASSUME NEW c, Sound(c), Timed(c), DiskOK, NEW p \in Paths
  PROVE  Timed(load_from_disk(c, p))
  <1> DEFINE di == get_latest_inode(p, TRUE)
             d == load_from_disk(c, p)
             id == crypto_hash(p)
             ref == [b \in Blocks |-> NewRef(c, id, b)]
             ino == LoadedInode(p, di, ref)
  <1>1. c \in Cache /\ id \in Ids
    BY PathId DEF Sound
  <1>2. CASE di = Nil
    BY <1>2 DEF load_from_disk
  <1>3. CASE di # Nil
    <2>1. /\ d.inode_ptrs = [c.inode_ptrs EXCEPT ![id] = ino]
          /\ d.dirty_block = c.dirty_block
      <3> HIDE DEF di, ino, ref
      <3> QED BY <1>1, <1>3 DEF load_from_disk, Cache, di, ino, ref
    <2>2. ino.mtime = now \/ Known(ino, id)
      <3>1. CASE di.deleted \/ HasData(di)
        BY <3>1 DEF LoadedInode
      <3>2. CASE ~(di.deleted \/ HasData(di))
        <4> DEFINE n == Len(visit)
        <4>1. disk \in Seq(Tree) /\ visit \in Seq(1..Len(disk))
          BY DEF DiskOK
        <4>2. n \in Nat /\ DOMAIN visit = 1..n /\ \A i \in 1..n : visit[i] \in DOMAIN disk
          BY <4>1
        <4>3. Dated(disk, visit, id, n)
          BY <1>1, <4>1, <4>2, VersionTypes DEF Dated, Entry
        <4>4. Assembled(disk, visit, id, TRUE, di)
          <5> HIDE DEF id, n
          <5> QED BY <1>3, <4>2, <4>3, LatestInodeFound DEF get_latest_inode, id
        <4>5. PICK i \in Reached(disk, visit, id, TRUE) : \E bl :
                 di = [Entry(disk, visit, id, i) EXCEPT !.blocks = bl]
          <5> HIDE DEF di, id
          <5> QED BY <4>4, Zenon DEF Assembled
        <4> DEFINE e == Entry(disk, visit, id, i)
        <4>6. i \in 1..n /\ e # Nil /\ e = disk[visit[i]][id] /\ visit[i] \in DOMAIN disk
          BY <4>2, <4>5 DEF Reached, Entry
        <4>7. e \in DiskInode
          BY <1>1, <4>1, <4>6, VersionTypes
        <4> HIDE DEF e, di, id
        <4>8. di.mtime = e.mtime /\ di.deleted = e.deleted
          BY <4>5, <4>7 DEF e, DiskInode
        <4>9. ino.mtime = di.mtime /\ ino.deleted = di.deleted
          BY <3>2 DEF LoadedInode
        <4> HIDE DEF ino
        <4> QED BY <3>2, <4>6, <4>8, <4>9 DEF Known
      <3> QED BY <3>1, <3>2
    <2> HIDE DEF d, ino, id, di, ref
    <2>3. Stamped(d)
      BY <1>1, <2>1, <2>2 DEF Timed, Stamped, Cache
    <2>4. DirtyNow(d)
      BY <2>1 DEF Timed, DirtyNow
    <2> QED BY <2>3, <2>4 DEF Timed, d
  <1> QED BY <1>2, <1>3

\* write gives the inode and the block the current time.
LEMMA TimedWrite ==
  ASSUME NEW c, Sound(c), Timed(c), DiskOK, NEW p \in Paths, NEW b \in Blocks, NEW v \in Values,
         HasRoom(c, InodeId(c, p))
  PROVE  Timed(write(c, p, b, v))
  <1> DEFINE e == Ready(c, p)
             d == write_block(e, p, b, v)
             id == e.inode_idx[p]
             old == e.inode_ptrs[id]
             ref == IF old.blocks[b] # Nil THEN old.blocks[b] ELSE NewRef(e, id, b)
             ino == [old EXCEPT !.size = IF @ < b + 1 THEN b + 1 ELSE @,
                                !.mtime = now, !.blocks[b] = ref]
             dirty == [ref |-> ref, mtime |-> now]
  <1>1. write(c, p, b, v) = IF in_cache(e, p) THEN d ELSE c
    BY DEF write, Ready
  <1>2. CASE ~in_cache(e, p)
    BY <1>1, <1>2
  <1>3. CASE in_cache(e, p)
    <2>1. Sound(e)
      <3> HIDE DEF e
      <3> QED BY <1>3, ReadyRoom DEF e
    <2>2. Timed(e)
      BY TimedChanged, TimedLoad DEF Ready
    <2> HIDE DEF e
    <2>3. e \in Cache /\ id \in Ids /\ old \in Inode
      BY <1>3, <2>1 DEF Sound, Resolves, in_cache, get_inode_by_path, Cache
    <2>4. d = [e EXCEPT !.inode_ptrs[id] = ino, !.block[ref] = v,
                        !.dirty_block[id][b] = dirty, !.has_changed = TRUE]
      BY DEF write_block
    <2> HIDE DEF id, old, ref, d
    <2>5. ino.mtime = now /\ dirty.mtime = now
      BY <2>3 DEF Inode
    <2> HIDE DEF ino, dirty
    <2>6. /\ d.inode_ptrs = [e.inode_ptrs EXCEPT ![id] = ino]
          /\ d.dirty_block = [e.dirty_block EXCEPT ![id] = [@ EXCEPT ![b] = dirty]]
      BY <2>3, <2>4 DEF Cache
    <2>7. /\ e.inode_ptrs \in [Ids -> Inode \cup {Nil}]
          /\ e.dirty_block \in [Ids -> [Blocks -> Dirty \cup {Nil}]]
      BY <2>3 DEF Cache
    <2>8. \A x \in Ids : d.inode_ptrs[x] = IF x = id THEN ino ELSE e.inode_ptrs[x]
      BY <2>3, <2>6, <2>7
    <2>9. \A x \in Ids, y \in Blocks :
            d.dirty_block[x][y] = IF x = id /\ y = b THEN dirty ELSE e.dirty_block[x][y]
      BY <2>3, <2>6, <2>7
    <2>10. Restamped(e, d)
      BY <2>5, <2>8, <2>9 DEF Restamped
    <2> QED BY <1>1, <1>3, <2>2, <2>10, TimedRestamped
  <1> QED BY <1>2, <1>3

\* rename deletes one inode and makes the other now, whatever it loaded.
LEMMA TimedRename ==
  ASSUME NEW c, Sound(c), Timed(c), DiskOK, NEW from \in Paths, NEW to \in Paths, from # to,
         HasRoom(c, InodeId(c, from)), HasRoom(c, InodeId(c, to))
  PROVE  Timed(rename(c, from, to))
  <1> DEFINE c1 == IF in_cache(c, from) THEN c ELSE load_from_disk(c, from)
             c2 == IF in_cache(c1, to) THEN c1 ELSE load_from_disk(c1, to)
             mode == get_inode_by_path(c1, from).mode
             c3 == IF in_cache(c2, to) THEN c2 ELSE make_file(c2, to, mode)
             that == get_inode_by_path(c3, from)
             gone == delete_inode(that)
             id == c3.inode_idx[from]
             c4 == [c3 EXCEPT !.inode_ptrs[id] = gone]
             ino == RenamedInode(that)
             c5 == [c4 EXCEPT !.inode_idx[to] = crypto_hash(to),
                              !.inode_ptrs[crypto_hash(to)] = ino,
                              !.has_changed = TRUE]
  <1>1. rename(c, from, to) = IF ~in_cache(c1, from) THEN c ELSE c5
    BY DEF rename, get_inode_by_path
  <1> HIDE DEF c5
  <1>2. CASE ~in_cache(c1, from)
    BY <1>1, <1>2
  <1>3. CASE in_cache(c1, from)
    <2>1. Sound(c1) /\ (~in_cache(c1, to) => HasRoom(c1, crypto_hash(to)))
      <3> HIDE DEF c1
      <3> QED BY LoadOther DEF c1
    <2>2. Timed(c1)
      BY TimedLoad
    <2> HIDE DEF c1
    <2>3. Timed(c2)
      BY <2>1, <2>2, TimedLoad
    <2>4. Sound(c2) /\ in_cache(c2, from)
      <3>1. CASE in_cache(c1, to) \/ get_latest_inode(to, TRUE) = Nil
        BY <1>3, <2>1, <3>1 DEF load_from_disk
      <3>2. CASE ~in_cache(c1, to) /\ get_latest_inode(to, TRUE) # Nil
        <4>1. Sound(c2) /\ Loaded(c1, c2, to)
          BY <2>1, <3>2, SoundLoad, LoadFields
        <4>2. c1 \in Cache
          BY <2>1 DEF Sound
        <4> HIDE DEF c2
        <4>3. c2.inode_idx[from] = c1.inode_idx[from]
          BY <4>1, <4>2 DEF Loaded, Cache
        <4> QED BY <1>3, <4>1, <4>3 DEF in_cache
      <3> QED BY <3>1, <3>2
    <2>5. mode \in Modes
      BY <1>3, <2>1 DEF Sound, Resolves, Inode
    <2> HIDE DEF c2, mode
    <2>6. Timed(c3)
      BY <2>3, <2>4, PathId, TimedNew
    <2>7. Sound(c3) /\ in_cache(c3, from)
      <3>1. CASE in_cache(c2, to)
        BY <2>4, <3>1
      <3>2. CASE ~in_cache(c2, to)
        <4>1. Sound(c3)
          BY <2>4, <2>5, <3>2, PathId, MakeFileAssigns, SoundAssigned DEF DiskOK
        <4>2. c3.inode_idx[from] = c2.inode_idx[from]
          BY <2>4, <3>2 DEF make_file, Sound, Cache
        <4> QED BY <2>4, <4>1, <4>2 DEF in_cache
      <3> QED BY <3>1, <3>2
    <2> HIDE DEF c3
    <2>8. c3 \in Cache /\ now \in Nat /\ crypto_hash(to) \in Ids
      BY <2>7, PathId DEF Sound, DiskOK
    <2>9. id \in Ids /\ that \in Inode
      BY <2>7, <2>8 DEF Sound, Resolves, in_cache, get_inode_by_path, Cache
    <2> HIDE DEF id, that
    <2>10. gone \in Inode /\ gone.mtime = now
      BY <2>8, <2>9, DeleteInodeType DEF delete_inode, Inode
    <2>11. ino.mtime = now
      BY <2>9 DEF RenamedInode, Inode
    <2> HIDE DEF gone, ino
    <2>12. /\ c4 \in Cache
           /\ c4.inode_ptrs = [c3.inode_ptrs EXCEPT ![id] = gone]
           /\ c4.dirty_block = c3.dirty_block
      BY <2>8, <2>10 DEF Cache
    <2> HIDE DEF c4
    <2>13. Timed(c4)
      BY <2>6, <2>8, <2>9, <2>10, <2>12, ReplaceRestamps, TimedRestamped
    <2>14. /\ c5.inode_ptrs = [c4.inode_ptrs EXCEPT ![crypto_hash(to)] = ino]
           /\ c5.dirty_block = c4.dirty_block
      BY <2>12 DEF Cache, c5
    <2>15. Timed(c5)
      BY <2>8, <2>11, <2>12, <2>13, <2>14, ReplaceRestamps, TimedRestamped
    <2> QED BY <1>1, <1>3, <2>15
  <1> QED BY <1>2, <1>3
-----------------------------------------------------------------------------
(* The requests.                                                           *)

\* A cache without inodes and dirty blocks has no times.
Bare(c) ==
  /\ \A id \in Ids : c.inode_ptrs[id] = Nil
  /\ \A id \in Ids, b \in Blocks : c.dirty_block[id][b] = Nil

\* A cache that was just made, or just flushed, is one.
LEMMA EmptyBare ==
  /\ \A size : Bare(EmptyCache(size))
  /\ \A c : Bare(Flushed(c))
  BY DEF Bare, EmptyCache, Flushed, NoBlocks

\* A step that leaves the disk alone.
LEMMA IdleVInv ==
  ASSUME VInv, IInv', UNCHANGED <<disk, now>>, Timed(cache') \/ Bare(cache')
  PROVE  VInv'
  <1>1. Past(disk, now)' /\ Ordered(disk)' /\ Agreed(disk)'
    BY DEF VInv, Past, Ordered, Agreed
  <1>2. Timed(cache)'
    BY DEF Bare, Timed, Stamped, DirtyNow, Known
  <1> QED BY <1>1, <1>2 DEF VInv

\* A step that writes a tree: the clock moves and the cache is empty.
LEMMA FlushVInv ==
  ASSUME ClockMoves, VInv, IInv', NEW c, Sound(c), Timed(c), flush_to_disk(c), Bare(cache')
  PROVE  VInv'
  <1>1. CASE Cached(c) = {}
    BY <1>1, IdleVInv DEF flush_to_disk
  <1>2. CASE Cached(c) # {}
    <2>1. disk \in Seq(Tree) /\ now \in Nat /\ Past(disk, now) /\ Ordered(disk) /\ Agreed(disk)
      BY DEF VInv, IInv, TypeOK, Tree
    <2>2. disk' = Append(disk, NewTree(c)) /\ \E d \in ClockSteps : now' = now + d
      BY <1>2 DEF flush_to_disk
    <2>3. now' \in Nat /\ now < now'
      BY <2>1, <2>2, CacheAssumption DEF ClockMoves
    <2>4. Past(disk', now') /\ Ordered(disk') /\ Agreed(disk')
      BY <2>1, <2>2, <2>3, AppendTimes
    <2>5. Past(disk, now)' /\ Ordered(disk)' /\ Agreed(disk)'
      BY <2>4 DEF Past, Ordered, Agreed
    <2>6. Timed(cache)'
      BY DEF Bare, Timed, Stamped, DirtyNow
    <2> QED BY <2>5, <2>6 DEF VInv
  <1> QED BY <1>1, <1>2

\* The end of write and truncate.
LEMMA ShdwVInv ==
  ASSUME ClockMoves, VInv, IInv', NEW c, Sound(c), Timed(c), flush_to_shdw(c)
  PROVE  VInv'
  <1>1. CASE cache' = Freed(c) /\ UNCHANGED <<disk, now>>
    BY <1>1, TimedFreed, IdleVInv
  <1>2. CASE cache' = Flushed(c) /\ flush_to_disk(c)
    BY <1>2, EmptyBare, FlushVInv
  <1> QED BY <1>1, <1>2 DEF flush_to_shdw

\* There are no versions at first.
LEMMA InitVInv == Init => VInv
  <1> SUFFICES ASSUME Init PROVE VInv
    OBVIOUS
  <1>1. disk = << >> /\ Bare(cache)
    BY EmptyBare DEF Init
  <1>2. Past(disk, now) /\ Ordered(disk) /\ Agreed(disk)
    BY <1>1 DEF Past, Ordered, Agreed
  <1>3. Timed(cache)
    BY <1>1 DEF Bare, Timed, Stamped, DirtyNow
  <1> QED BY <1>2, <1>3, InitIInv DEF VInv

\* Every request, fault, crash and mount preserves the invariant.
LEMMA NextVInv == ClockMoves /\ VInv /\ [Next]_vars => VInv'
  <1> SUFFICES ASSUME ClockMoves, VInv, [Next]_vars PROVE VInv'
    OBVIOUS
  <1>0. IInv' /\ Sound(cache) /\ Timed(cache) /\ DiskOK
    BY NextIInv DEF VInv, IInv, TypeOK, Tree, DiskOK
  <1> USE <1>0
  <1>1. ASSUME NEW p \in FilePaths, zippyfs_mknod(p) PROVE VInv'
    <2>1. Timed(cache')
      BY <1>1, PathId, MakeFileAssigns, SoundAssigned, TimedNew, TimedFreed
         DEF zippyfs_mknod, Modes, Paths, DiskOK
    <2> QED BY <1>1, <2>1, IdleVInv DEF zippyfs_mknod
  <1>2. ASSUME NEW p \in DirPaths, zippyfs_mkdir(p) PROVE VInv'
    <2>1. Timed(cache')
      BY <1>2, PathId, MakeFileAssigns, SoundAssigned, TimedNew, TimedFreed
         DEF zippyfs_mkdir, Modes, Paths, DiskOK
    <2> QED BY <1>2, <2>1, IdleVInv DEF zippyfs_mkdir
  <1>3. ASSUME NEW p \in Paths, zippyfs_open(p) PROVE VInv'
    <2>1. Timed(cache')
      BY <1>3, TimedLoad DEF zippyfs_open
    <2> QED BY <1>3, <2>1, IdleVInv DEF zippyfs_open
  <1>4. ASSUME NEW p \in Paths, close(p) PROVE VInv'
    BY <1>4, IdleVInv DEF close
  <1>5. ASSUME NEW p \in Paths, zippyfs_unlink(p) PROVE VInv'
    <2>1. Timed(cache')
      BY <1>5, RemoveShrinks, SoundShrunk, TimedRemove, TimedFreed DEF zippyfs_unlink, DiskOK
    <2> QED BY <1>5, <2>1, IdleVInv DEF zippyfs_unlink
  <1>6. ASSUME NEW p \in Paths, zippyfs_rmdir(p) PROVE VInv'
    <2>1. Timed(cache')
      BY <1>6, RmdirShrinks, SoundShrunk, TimedChanged, TimedFreed DEF zippyfs_rmdir, DiskOK
    <2> QED BY <1>6, <2>1, IdleVInv DEF zippyfs_rmdir
  <1>7. ASSUME NEW p \in Paths, NEW b \in Blocks, zippyfs_read(p, b) PROVE VInv'
    <2> DEFINE c == IF in_cache(cache, p) THEN cache ELSE load_from_disk(cache, p)
    <2>1. Timed(c)
      BY TimedLoad
    <2> HIDE DEF c
    <2>2. \/ Down /\ UNCHANGED <<disk, now>>
          \/ cache' = c /\ UNCHANGED <<mounted, disk, visit, mapped, handles, now>>
      BY <1>7, Zenon DEF zippyfs_read, c
    <2>3. UNCHANGED <<disk, now>> /\ (Bare(cache') \/ Timed(cache'))
      BY <2>1, <2>2, EmptyBare DEF Down
    <2> QED BY <2>3, IdleVInv
  <1>8. ASSUME NEW p \in Paths, NEW b \in Blocks, NEW v \in Values, zippyfs_write(p, b, v)
        PROVE  VInv'
    <2>1. HasRoom(cache, InodeId(cache, p))
      BY <1>8 DEF zippyfs_write, Loadable, InodeId
    <2>2. Sound(write(cache, p, b, v)) /\ Timed(write(cache, p, b, v))
      BY <2>1, SoundWrite, TimedWrite
    <2> QED BY <1>8, <2>2, ShdwVInv DEF zippyfs_write
  <1>9. ASSUME NEW p \in Paths, NEW n \in Lengths, zippyfs_truncate(p, n) PROVE VInv'
    <2>1. n \in Nat
      BY CacheAssumption
    <2>2. Sound(truncate(cache, p, n)) /\ Timed(truncate(cache, p, n))
      BY <2>1, TruncateShrinks, SoundShrunk, TimedChanged DEF DiskOK
    <2> QED BY <1>9, <2>2, ShdwVInv DEF zippyfs_truncate
  <1>10. ASSUME NEW l \in Links, zippyfs_symlink(l[1], l[2]) PROVE VInv'
    <2>1. l[1] \in Names /\ l[2] \in Paths
      BY CacheAssumption
    <2>2. Timed(cache')
      BY <1>10, <2>1, HashId, SymlinkAssigns, SoundAssigned, TimedNew, TimedFreed
         DEF zippyfs_symlink, DiskOK
    <2> QED BY <1>10, <2>2, IdleVInv DEF zippyfs_symlink
  <1>11. ASSUME NEW r \in Renames, zippyfs_rename(r[1], r[2]) PROVE VInv'
    <2>1. r[1] \in Paths /\ r[2] \in Paths /\ r[1] # r[2]
      BY CacheAssumption
    <2>2. HasRoom(cache, InodeId(cache, r[1])) /\ HasRoom(cache, InodeId(cache, r[2]))
      BY <1>11 DEF zippyfs_rename, Loadable, InodeId
    <2>3. Timed(cache')
      BY <1>11, <2>1, <2>2, SoundRename, TimedRename, TimedFreed DEF zippyfs_rename
    <2> QED BY <1>11, <2>3, IdleVInv DEF zippyfs_rename
  <1>12. ASSUME NEW p \in Paths, lookup_fault(p) PROVE VInv'
    BY <1>12, EmptyBare, IdleVInv DEF lookup_fault, Down
  <1>13. CASE zippyfs_readdir
    BY <1>13, IdleVInv DEF zippyfs_readdir
  <1>14. CASE zippyfs_destroy
    <2>1. Bare(cache')
      BY <1>14, EmptyBare DEF zippyfs_destroy, Down
    <2> QED BY <1>14, <2>1, FlushVInv, IdleVInv DEF zippyfs_destroy
  <1>15. CASE kill
    BY <1>15, EmptyBare, IdleVInv DEF kill, Down
  <1>16. CASE zippyfs_init
    BY <1>16, EmptyBare, IdleVInv DEF zippyfs_init
  <1>17. CASE UNCHANGED vars
    BY <1>17, IdleVInv DEF vars
  <1> QED BY <1>1, <1>2, <1>3, <1>4, <1>5, <1>6, <1>7, <1>8, <1>9, <1>10, <1>11, <1>12,
             <1>13, <1>14, <1>15, <1>16, <1>17 DEF Next
-----------------------------------------------------------------------------
(* The theorems.                                                           *)

\* With a clock that moves between flushes, every reachable state satisfies
\* the invariant.
LEMMA VersionsHold == ASSUME ClockMoves PROVE Spec => []VInv
  <1>1. VInv /\ [Next]_vars => VInv'
    BY NextVInv
  <1> QED BY <1>1, InitVInv, PTL DEF Spec

\* When every tree has data for a file, find_latest_inode puts together the
\* last flushed version of each of its blocks, in whatever order the
\* unordered_map yields the trees.
THEOREM MergeIsLatest == ASSUME ClockMoves PROVE Spec => []MergeFindsLatest
  BY VersionsHold, MergeLatest, PTL

\* What get_children lists does not depend on the order in which the
\* unordered_map yields the trees.
THEOREM ListingIsOrderFree == ASSUME ClockMoves PROVE Spec => []ListingOrderFree
  BY VersionsHold, ListingFree, PTL

\* A version made since the last flush, a deletion included, wins over every
\* version on disk once it is flushed.
THEOREM NewVersionWins == ASSUME ClockMoves PROVE Spec => []NewVersionListed
  BY VersionsHold, NewListed, PTL
=============================================================================
