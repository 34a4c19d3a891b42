--------------------------- MODULE DurableProofs ---------------------------
(***************************************************************************)
(* The contents of the blocks survive: dropping the cache loses no block   *)
(* that a reader could have seen (CachedBlocksKept), the cache and its     *)
(* trees implement the durable block store of module BlockStore (Durable), *)
(* and an unmount loses no write (UnmountKeepsWrites), as long as nothing  *)
(* is renamed and no symbolic link is filed under the id of a path         *)
(* (NoAliases).  (With renames blocks are lost: run rename_loses.)  Then,  *)
(* with renames: the contents move with the name (RenameMovesContents),    *)
(* and no request on one file changes another (OthersKeepBlocks).          *)
(***************************************************************************)
EXTENDS BlockCacheProofs

\* Nothing gives one id to two paths, or the objects of one inode to another.
NoAliases == Renames = {} /\ \A l \in Links : l[1] \notin Paths

LinkIds == {crypto_hash(l[1]) : l \in Links}

\* A path is filed under its own id, unless it is a symbolic link.
OwnIds(c) == \A p \in Paths : c.inode_idx[p] \in {Nil, crypto_hash(p)} \cup LinkIds

\* The objects of an inode, and its dirty ones, were made for it.
OwnObjects(c) ==
  \A id \in Ids, b \in Blocks :
    /\ c.inode_ptrs[id] # Nil /\ c.inode_ptrs[id].blocks[b] # Nil
         => c.inode_ptrs[id].blocks[b].id = id
    /\ c.dirty_block[id][b] # Nil => c.dirty_block[id][b].ref.id = id

\* An inode with dirty blocks is in the cache, so that a flush finds it.
DirtyListed(c) ==
  \A id \in Ids, b \in Blocks :
    c.dirty_block[id][b] # Nil => \E p \in Paths : c.inode_idx[p] = id

\* CachedBlocksKept, for all inodes.
Kept(c) ==
  \A id \in Ids, b \in Blocks :
    c.inode_ptrs[id] # Nil /\ c.inode_ptrs[id].blocks[b] # Nil =>
      LET ref == c.inode_ptrs[id].blocks[b]
      IN  IF c.dirty_block[id][b] # Nil
            THEN c.dirty_block[id][b].ref = ref
            ELSE OnDisk(id, b, c.block[ref])

Faithful(c) == OwnIds(c) /\ OwnObjects(c) /\ DirtyListed(c) /\ Kept(c)

KInv == IInv /\ Faithful(cache)
-----------------------------------------------------------------------------
\* Freeing objects nobody holds loses no block.
LEMMA FaithfulFreed ==
  ASSUME NEW c, Sound(c), Faithful(c)
  PROVE  Faithful(Freed(c))
  <1> DEFINE d == Freed(c)
  <1>1. /\ d.inode_idx = c.inode_idx
        /\ d.inode_ptrs = c.inode_ptrs
        /\ d.dirty_block = c.dirty_block
        /\ \A r \in InUse(c) : d.block[r] = c.block[r]
    BY FreedFields DEF Sound
  <1>2. ASSUME NEW id \in Ids, NEW b \in Blocks,
               c.inode_ptrs[id] # Nil, c.inode_ptrs[id].blocks[b] # Nil
        PROVE  c.inode_ptrs[id].blocks[b] \in InUse(c)
    BY <1>2 DEF Sound, Placed, Cache, Inode, InUse
  <1> HIDE DEF d
  <1>3. OwnIds(d) /\ OwnObjects(d) /\ DirtyListed(d)
    BY <1>1 DEF Faithful, OwnIds, OwnObjects, DirtyListed
  <1>4. Kept(d)
    BY <1>1, <1>2 DEF Faithful, Kept
  <1> QED BY <1>3, <1>4 DEF Faithful, d

\* Inodes that keep or lose their blocks lose none that is still visible.
LEMMA FaithfulShrunk ==
  ASSUME NEW c, Faithful(c), NEW d, Shrunk(c, d)
  PROVE  Faithful(d)
  <1>1. OwnIds(d) /\ DirtyListed(d)
    BY DEF Faithful, OwnIds, DirtyListed, Shrunk
  <1>2. OwnObjects(d)
    BY DEF Faithful, OwnObjects, Shrunk, NoBlocks
  <1>3. Kept(d)
    BY DEF Faithful, Kept, Shrunk, NoBlocks
  <1> QED BY <1>1, <1>2, <1>3 DEF Faithful

\* A new inode for a path that was not cached hides no visible block.
LEMMA FaithfulAssigned ==
  ASSUME NEW c, Sound(c), Faithful(c), NEW p \in Paths, ~in_cache(c, p),
         NEW id \in Ids, id \in {crypto_hash(p)} \cup LinkIds,
         NEW d, Assigned(c, d, p, id)
  PROVE  Faithful(d)
  <1>1. c \in Cache /\ d.inode_idx = [c.inode_idx EXCEPT ![p] = id]
        /\ d.dirty_block = c.dirty_block /\ d.block = c.block
    BY DEF Sound, Assigned
  <1>2. PICK ino \in Inode : /\ ino.blocks = NoBlocks
                            /\ d.inode_ptrs = [c.inode_ptrs EXCEPT ![id] = ino]
    BY DEF Assigned
  <1>3. OwnIds(d)
    BY <1>1 DEF Faithful, OwnIds, Cache
  <1>4. DirtyListed(d)
    <2>1. \A q \in Paths : c.inode_idx[q] # Nil => d.inode_idx[q] = c.inode_idx[q]
      BY <1>1 DEF in_cache, Cache
    <2>2. Nil \notin Ids
      BY CacheAssumption
    <2> QED BY <1>1, <2>1, <2>2 DEF Faithful, DirtyListed
  <1>5. OwnObjects(d)
    BY <1>1, <1>2 DEF Faithful, OwnObjects, NoBlocks, Cache
  <1>6. Kept(d)
    BY <1>1, <1>2 DEF Faithful, Kept, NoBlocks, Cache
  <1> QED BY <1>3, <1>4, <1>5, <1>6 DEF Faithful

\* A path that is not cached has no dirty blocks.
LEMMA NotCachedNotDirty ==
  ASSUME NoAliases, NEW c, Faithful(c), NEW p \in Paths, ~in_cache(c, p), NEW b \in Blocks
  PROVE  c.dirty_block[crypto_hash(p)][b] = Nil
  <1> SUFFICES ASSUME c.dirty_block[crypto_hash(p)][b] # Nil PROVE FALSE
    OBVIOUS
  <1>1. p \in Names /\ crypto_hash(p) \in Ids /\ crypto_hash(p) # Nil
    BY PathId
  <1>2. PICK q \in Paths : c.inode_idx[q] = crypto_hash(p)
    BY <1>1 DEF Faithful, DirtyListed
  <1>3. q \in Names /\ c.inode_idx[q] \in {crypto_hash(q)} \cup LinkIds
    BY <1>1, <1>2, PathId DEF Faithful, OwnIds
  <1>4. crypto_hash(p) \notin LinkIds
    <2>1. \A l \in Links : l[1] \in Names /\ l[1] # p
      BY CacheAssumption DEF NoAliases
    <2> QED BY <1>1, <2>1, HashInjective DEF LinkIds
  <1>5. q = p
    BY <1>1, <1>2, <1>3, <1>4, HashInjective
  <1> QED BY <1>1, <1>2, <1>5 DEF in_cache

\* What is loaded is on disk.
LEMMA FaithfulLoad ==
  ASSUME NoAliases, NEW c, Sound(c), Faithful(c), DiskOK,
         NEW p \in Paths, ~in_cache(c, p), HasRoom(c, crypto_hash(p))
  PROVE  Faithful(load_from_disk(c, p))
  <1> DEFINE di == get_latest_inode(p, TRUE)
             d == load_from_disk(c, p)
             id == crypto_hash(p)
  <1>1. CASE di = Nil
    BY <1>1 DEF load_from_disk
  <1>2. CASE di # Nil
    <2>1. id \in Ids /\ c \in Cache
      BY PathId DEF Sound
    <2>2. \A b \in Blocks : c.dirty_block[id][b] = Nil
      BY NotCachedNotDirty
    <2>3. \A b \in Blocks : di.blocks[b] # Nil => OnDisk(id, b, di.blocks[b])
      BY <1>2, LatestType DEF DiskOK
    <2>4. Loaded(c, d, p)
      BY <1>2, LoadFields
    <2> HIDE DEF di, d, id
    <2>5. /\ d.inode_idx = [c.inode_idx EXCEPT ![p] = id]
          /\ d.dirty_block = c.dirty_block
          /\ \A r \in InUse(c) : d.block[r] = c.block[r]
      BY <2>4 DEF Loaded, id
    <2>6. PICK ino \in Inode :
            /\ d.inode_ptrs = [c.inode_ptrs EXCEPT ![id] = ino]
            /\ \A b \in Blocks :
                 /\ di.blocks[b] = Nil => ino.blocks[b] = Nil
                 /\ di.blocks[b] # Nil =>
                      /\ ino.blocks[b] \in Refs \ InUse(c)
                      /\ ino.blocks[b].id = id
                      /\ ino.blocks[b].blk = b
                      /\ d.block[ino.blocks[b]] = di.blocks[b]
      BY <2>4, Zenon DEF Loaded, di, id
    <2>7. \A x \in Ids : d.inode_ptrs[x] = IF x = id THEN ino ELSE c.inode_ptrs[x]
      BY <2>1, <2>6 DEF Cache
    <2>8. OwnIds(d)
      BY <2>1, <2>5 DEF Faithful, OwnIds, Cache, id
    <2>9. DirtyListed(d)
      <3>1. \A q \in Paths : c.inode_idx[q] # Nil => d.inode_idx[q] = c.inode_idx[q]
        BY <2>1, <2>5 DEF in_cache, Cache
      <3>2. Nil \notin Ids
        BY CacheAssumption
      <3> QED BY <2>5, <3>1, <3>2 DEF Faithful, DirtyListed
    <2>10. OwnObjects(d)
      BY <2>5, <2>6, <2>7 DEF Faithful, OwnObjects
    <2>11. Kept(d)
      <3>1. ASSUME NEW x \in Ids, NEW b \in Blocks,
                   d.inode_ptrs[x] # Nil, d.inode_ptrs[x].blocks[b] # Nil
            PROVE  IF d.dirty_block[x][b] # Nil
                     THEN d.dirty_block[x][b].ref = d.inode_ptrs[x].blocks[b]
                     ELSE OnDisk(x, b, d.block[d.inode_ptrs[x].blocks[b]])
        <4>1. CASE x = id
          <5>1. d.inode_ptrs[x] = ino /\ di.blocks[b] # Nil
            BY <2>6, <2>7, <3>1, <4>1
          <5>2. d.block[ino.blocks[b]] = di.blocks[b] /\ d.dirty_block[x][b] = Nil
            BY <2>2, <2>5, <2>6, <4>1, <5>1
          <5> QED BY <2>3, <4>1, <5>1, <5>2
        <4>2. CASE x # id
          <5>1. d.inode_ptrs[x] = c.inode_ptrs[x]
            BY <2>7, <4>2
          <5>2. c.inode_ptrs[x].blocks[b] \in InUse(c)
            BY <2>1, <3>1, <5>1, SMTT(60) DEF Sound, Placed, Cache, Inode, InUse
          <5> QED BY <2>5, <3>1, <5>1, <5>2 DEF Faithful, Kept
        <4> QED BY <4>1, <4>2
      <3> QED BY <3>1 DEF Kept
    <2> QED BY <2>8, <2>9, <2>10, <2>11 DEF Faithful, d
  <1> QED BY <1>1, <1>2

\* A write keeps the other blocks, and its own block is the dirty one.
LEMMA FaithfulWritten ==
  ASSUME NEW c, Sound(c), Faithful(c), now \in Nat,
         NEW p \in Paths, NEW id \in Ids, c.inode_idx[p] = id, c.inode_ptrs[id] \in Inode,
         NEW b \in Blocks, NEW v \in Values, NEW d, Written(c, d, id, b, v)
  PROVE  Faithful(d)
  <1>1. c \in Cache /\ Placed(c) /\ OwnObjects(c) /\ DirtyListed(c) /\ Kept(c)
    BY DEF Sound, Faithful
  <1>2. d \in Cache /\ d.inode_idx = c.inode_idx
    BY DEF Written
  <1> DEFINE dirty(ref) == [ref |-> ref, mtime |-> now]
  <1>3. PICK ref \in Refs, ino \in Inode :
          /\ ref.blk = b
          /\ IF c.inode_ptrs[id].blocks[b] # Nil THEN ref = c.inode_ptrs[id].blocks[b]
             ELSE ref \notin InUse(c) /\ ref.id = id
          /\ ino.blocks = [c.inode_ptrs[id].blocks EXCEPT ![b] = ref]
          /\ d.inode_ptrs = [c.inode_ptrs EXCEPT ![id] = ino]
          /\ d.block = [c.block EXCEPT ![ref] = v]
          /\ d.dirty_block = [c.dirty_block EXCEPT ![id] = [@ EXCEPT ![b] = dirty(ref)]]
    BY DEF Written
  <1>4. /\ c.inode_ptrs \in [Ids -> Inode \cup {Nil}]
        /\ c.block \in [Refs -> Values \cup {Nil}]
        /\ c.dirty_block \in [Ids -> [Blocks -> Dirty \cup {Nil}]]
        /\ c.inode_ptrs[id] # Nil
        /\ c.inode_ptrs[id].blocks \in [Blocks -> Refs \cup {Nil}]
    BY <1>1, NilAssumption DEF Cache, Inode
  <1>5. ref.id = id
    BY <1>1, <1>3, <1>4 DEF OwnObjects
  <1>6. dirty(ref).ref = ref /\ dirty(ref) \in Dirty /\ dirty(ref) # Nil
    <2>1. dirty(ref) \in Dirty
      BY <1>3 DEF Dirty
    <2> QED BY <2>1, NilAssumption
  <1> HIDE DEF dirty
  <1>7. \A x \in Ids, y \in Blocks :
          d.dirty_block[x][y] = IF x = id /\ y = b THEN dirty(ref) ELSE c.dirty_block[x][y]
    BY <1>3, <1>4
  <1>8. d.inode_ptrs[id] = ino /\ \A x \in Ids \ {id} : d.inode_ptrs[x] = c.inode_ptrs[x]
    BY <1>3, <1>4
  <1>9. \A y \in Blocks : ino.blocks[y] = IF y = b THEN ref ELSE c.inode_ptrs[id].blocks[y]
    BY <1>3, <1>4
  <1>10. OwnIds(d)
    BY <1>2 DEF Faithful, OwnIds
  <1>11. OwnObjects(d)
    <2>1. \A x \in Ids, y \in Blocks :
            d.inode_ptrs[x] # Nil /\ d.inode_ptrs[x].blocks[y] # Nil
              => d.inode_ptrs[x].blocks[y].id = x
      BY <1>1, <1>4, <1>5, <1>8, <1>9 DEF OwnObjects
    <2>2. \A x \in Ids, y \in Blocks :
            d.dirty_block[x][y] # Nil => d.dirty_block[x][y].ref.id = x
      BY <1>1, <1>5, <1>6, <1>7 DEF OwnObjects
    <2> QED BY <2>1, <2>2 DEF OwnObjects
  <1>12. DirtyListed(d)
    BY <1>1, <1>2, <1>7 DEF DirtyListed
  <1>13. Kept(d)
    <2>1. ASSUME NEW x \in Ids, NEW y \in Blocks,
                 d.inode_ptrs[x] # Nil, d.inode_ptrs[x].blocks[y] # Nil
          PROVE  IF d.dirty_block[x][y] # Nil
                   THEN d.dirty_block[x][y].ref = d.inode_ptrs[x].blocks[y]
                   ELSE OnDisk(x, y, d.block[d.inode_ptrs[x].blocks[y]])
      <3>1. CASE x = id /\ y = b
        BY <1>6, <1>7, <1>8, <1>9, <3>1
      <3>2. CASE ~(x = id /\ y = b)
        <4> DEFINE r == c.inode_ptrs[x].blocks[y]
        <4>1. /\ d.dirty_block[x][y] = c.dirty_block[x][y]
              /\ c.inode_ptrs[x] # Nil /\ r # Nil /\ d.inode_ptrs[x].blocks[y] = r
          BY <1>4, <1>7, <1>8, <1>9, <2>1, <3>2
        <4>2. r.id = x /\ r.blk = y
          BY <1>1, <4>1 DEF OwnObjects, Placed
        <4>3. r \in Refs
          BY <1>4, <4>1 DEF Inode
        <4>4. d.block[r] = c.block[r]
          BY <1>3, <1>4, <1>5, <3>2, <4>2, <4>3
        <4>5. IF c.dirty_block[x][y] # Nil THEN c.dirty_block[x][y].ref = r
              ELSE OnDisk(x, y, c.block[r])
          BY <1>1, <4>1 DEF Kept
        <4> HIDE DEF r
        <4> QED BY <4>1, <4>4, <4>5
      <3> QED BY <3>1, <3>2
    <2> QED BY <2>1 DEF Kept
  <1> QED BY <1>10, <1>11, <1>12, <1>13 DEF Faithful

\* write: the inode is found in the cache, or loaded, and then written.
LEMMA FaithfulWrite ==
  ASSUME NoAliases, NEW c, Sound(c), Faithful(c), DiskOK,
         NEW p \in Paths, NEW b \in Blocks, NEW v \in Values, HasRoom(c, InodeId(c, p))
  PROVE  Faithful(write(c, p, b, v))
  <1> DEFINE d == Ready(c, p)
             id == InodeId(c, p)
             e == write(c, p, b, v)
  <1>1. Faithful(d)
    <2>1. CASE in_cache(c, p)
      BY <2>1, RemadeShrinks, FaithfulShrunk DEF Ready
    <2>2. CASE ~in_cache(c, p)
      BY <2>2, FaithfulLoad DEF Ready, InodeId
    <2> QED BY <2>1, <2>2
  <1>2. \/ e = c
        \/ /\ Sound(d) /\ id \in Ids /\ d.inode_idx[p] = id /\ d.inode_ptrs[id] \in Inode
           /\ Written(d, e, id, b, v)
    BY WriteCases
  <1>3. now \in Nat
    BY DEF DiskOK
  <1> HIDE DEF d, id, e
  <1>4. Faithful(e)
    BY <1>1, <1>2, <1>3, FaithfulWritten
  <1> QED BY <1>4 DEF e
-----------------------------------------------------------------------------
(* Requests.                                                               *)

\* An empty cache has nothing to lose.
LEMMA FaithfulEmpty ==
  ASSUME NEW c, c.inode_idx = [p \in Paths |-> Nil], c.inode_ptrs = [id \in Ids |-> Nil],
         c.dirty_block = [id \in Ids |-> NoBlocks]
  PROVE  OwnIds(c) /\ OwnObjects(c) /\ DirtyListed(c)
         /\ \A id \in Ids : c.inode_ptrs[id] = Nil
  BY DEF OwnIds, OwnObjects, DirtyListed, NoBlocks

\* The process ends, starts, or has just flushed.
LEMMA EmptiedKInv ==
  ASSUME NEW size, NEW flag,
         cache' = [EmptyCache(size) EXCEPT !.has_changed = flag] \/ cache' = EmptyCache(size)
  PROVE  Faithful(cache)'
  <1>1. /\ cache'.inode_idx = [p \in Paths |-> Nil]
        /\ cache'.inode_ptrs = [id \in Ids |-> Nil]
        /\ cache'.dirty_block = [id \in Ids |-> NoBlocks]
    BY DEF EmptyCache
  <1>2. OwnIds(cache') /\ OwnObjects(cache') /\ DirtyListed(cache')
        /\ \A id \in Ids : cache'.inode_ptrs[id] = Nil
    BY <1>1, FaithfulEmpty
  <1>3. Kept(cache)'
    BY <1>2 DEF Kept
  <1> QED BY <1>2, <1>3 DEF Faithful, OwnIds, OwnObjects, DirtyListed

\* What is on disk stays there.
LEMMA SameDisk ==
  ASSUME disk' = disk, NEW c, Faithful(c), cache' = c
  PROVE  Faithful(cache)'
  <1>1. \A id \in Ids, b \in Blocks : \A v : OnDisk(id, b, v) => OnDisk(id, b, v)'
    BY DEF OnDisk
  <1>2. Kept(cache)'
    BY <1>1 DEF Faithful, Kept
  <1> QED BY <1>2 DEF Faithful, OwnIds, OwnObjects, DirtyListed

\* flush_to_shdw empties the cache or leaves it.
LEMMA FaithfulFlush ==
  ASSUME NEW c, Sound(c), Faithful(c), flush_to_shdw(c)
  PROVE  Faithful(cache)'
  <1>1. CASE c.size < MAX_SIZE \/ ~c.has_changed
    <2>1. cache' = Freed(c) /\ disk' = disk
      BY <1>1 DEF flush_to_shdw
    <2> QED BY <2>1, FaithfulFreed, SameDisk
  <1>2. CASE ~(c.size < MAX_SIZE \/ ~c.has_changed)
    <2>1. cache' = [EmptyCache(0) EXCEPT !.has_changed = c.has_changed]
      BY <1>2 DEF flush_to_shdw, Flushed
    <2> QED BY <2>1, EmptiedKInv
  <1> QED BY <1>1, <1>2

\* A path that getattr does not find is not cached.
LEMMA NotFound ==
  ASSUME Sound(cache), NEW p \in Paths, getattr(p) = Nil
  PROVE  ~in_cache(cache, p)
  <1> SUFFICES ASSUME in_cache(cache, p) PROVE FALSE
    OBVIOUS
  <1>1. get_inode_by_path(cache, p).mode \in Modes
    BY DEF Sound, Resolves, Inode
  <1> QED BY <1>1, NilAssumption DEF getattr

\* Every request, fault, crash and mount preserves the invariant.
LEMMA NextKInv ==
  ASSUME NoAliases
  PROVE  KInv /\ [Next]_vars => KInv'
  <1> SUFFICES ASSUME IInv, Faithful(cache), [Next]_vars PROVE Faithful(cache)'
    BY NextIInv DEF KInv
  <1>0. TypeOK /\ Sound(cache) /\ DiskOK /\ now \in Nat
    BY DEF IInv, TypeOK, Tree, DiskOK
  <1> USE <1>0
  <1>1. ASSUME NEW p \in Paths, NEW mode \in Modes, getattr(p) = Nil,
               cache' = Freed(make_file(cache, p, mode)), disk' = disk
        PROVE  Faithful(cache)'
    <2>1. Sound(make_file(cache, p, mode)) /\ Faithful(make_file(cache, p, mode))
      BY <1>1, NotFound, PathId, MakeFileAssigns, SoundAssigned, FaithfulAssigned
    <2> QED BY <1>1, <2>1, FaithfulFreed, SameDisk
  <1>2. ASSUME NEW p \in FilePaths, zippyfs_mknod(p) PROVE Faithful(cache)'
    BY <1>1, <1>2 DEF zippyfs_mknod, Modes, Paths
  <1>3. ASSUME NEW p \in DirPaths, zippyfs_mkdir(p) PROVE Faithful(cache)'
    BY <1>1, <1>3 DEF zippyfs_mkdir, Modes, Paths
  <1>4. ASSUME NEW p \in Paths, zippyfs_open(p) PROVE Faithful(cache)'
    <2>1. CASE in_cache(cache, p)
      BY <1>4, <2>1, SameDisk DEF zippyfs_open
    <2>2. CASE ~in_cache(cache, p)
      <3>1. HasRoom(cache, crypto_hash(p)) /\ cache' = load_from_disk(cache, p) /\ disk' = disk
        BY <1>4, <2>2 DEF zippyfs_open, Loadable
      <3> QED BY <2>2, <3>1, FaithfulLoad, SameDisk
    <2> QED BY <2>1, <2>2
  <1>5. ASSUME NEW p \in Paths, close(p) PROVE Faithful(cache)'
    BY <1>5, SameDisk DEF close
  <1>6. ASSUME NEW p \in Paths, zippyfs_unlink(p) PROVE Faithful(cache)'
    BY <1>6, RemoveShrinks, SoundShrunk, FaithfulShrunk, FaithfulFreed, SameDisk
       DEF zippyfs_unlink
  <1>7. ASSUME NEW p \in Paths, zippyfs_rmdir(p) PROVE Faithful(cache)'
    BY <1>7, RmdirShrinks, SoundShrunk, FaithfulShrunk, FaithfulFreed, SameDisk
       DEF zippyfs_rmdir
  <1>8. Down => Faithful(cache)'
    BY EmptiedKInv DEF Down
  <1>9. ASSUME NEW p \in Paths, NEW b \in Blocks, zippyfs_read(p, b) PROVE Faithful(cache)'
    <2> DEFINE c == IF in_cache(cache, p) THEN cache ELSE load_from_disk(cache, p)
    <2>1. Faithful(c)
      <3>1. CASE in_cache(cache, p)
        BY <3>1
      <3>2. CASE ~in_cache(cache, p)
        <4>1. HasRoom(cache, crypto_hash(p))
          BY <1>9, <3>2 DEF zippyfs_read, Loadable
        <4> QED BY <3>2, <4>1, FaithfulLoad
      <3> QED BY <3>1, <3>2
    <2> HIDE DEF c
    <2>2. Down \/ (cache' = c /\ disk' = disk)
      BY <1>9, Zenon DEF zippyfs_read, c
    <2> QED BY <1>8, <2>1, <2>2, SameDisk
  <1>10. ASSUME NEW p \in Paths, NEW b \in Blocks, NEW v \in Values, zippyfs_write(p, b, v)
         PROVE  Faithful(cache)'
    <2>1. HasRoom(cache, InodeId(cache, p)) /\ flush_to_shdw(write(cache, p, b, v))
      BY <1>10 DEF zippyfs_write, Loadable, InodeId
    <2>2. Sound(write(cache, p, b, v)) /\ Faithful(write(cache, p, b, v))
      BY <2>1, SoundWrite, FaithfulWrite
    <2> QED BY <2>1, <2>2, FaithfulFlush
  <1>11. ASSUME NEW p \in Paths, NEW n \in Lengths, zippyfs_truncate(p, n)
         PROVE  Faithful(cache)'
    <2>1. n \in Nat /\ flush_to_shdw(truncate(cache, p, n))
      BY <1>11, CacheAssumption DEF zippyfs_truncate
    <2>2. Sound(truncate(cache, p, n)) /\ Faithful(truncate(cache, p, n))
      BY <2>1, TruncateShrinks, SoundShrunk, FaithfulShrunk
    <2> QED BY <2>1, <2>2, FaithfulFlush
  <1>12. ASSUME NEW l \in Links, zippyfs_symlink(l[1], l[2]) PROVE Faithful(cache)'
    <2>1. l[1] \in Names /\ l[2] \in Paths
      BY CacheAssumption
    <2>2. crypto_hash(l[1]) \in Ids /\ crypto_hash(l[1]) \in LinkIds
      BY <2>1, HashId DEF LinkIds
    <2>3. ~in_cache(cache, l[2]) /\ cache' = Freed(symlink(cache, l[1], l[2])) /\ disk' = disk
      BY <1>12, <2>1, NotFound DEF zippyfs_symlink
    <2>4. Sound(symlink(cache, l[1], l[2])) /\ Faithful(symlink(cache, l[1], l[2]))
      BY <2>1, <2>2, <2>3, SymlinkAssigns, SoundAssigned, FaithfulAssigned
    <2> QED BY <2>3, <2>4, FaithfulFreed, SameDisk
  <1>13. Renames = {}
    BY DEF NoAliases
  <1>14. ASSUME NEW p \in Paths, lookup_fault(p) PROVE Faithful(cache)'
    BY <1>8, <1>14 DEF lookup_fault
  <1>15. CASE zippyfs_readdir
    BY <1>15, SameDisk DEF zippyfs_readdir
  <1>16. CASE zippyfs_destroy \/ kill
    BY <1>8, <1>16 DEF zippyfs_destroy, kill
  <1>17. CASE zippyfs_init
    BY <1>17, EmptiedKInv DEF zippyfs_init
  <1>18. CASE UNCHANGED vars
    BY <1>18, SameDisk DEF vars
  <1> QED BY <1>2, <1>3, <1>4, <1>5, <1>6, <1>7, <1>9, <1>10, <1>11, <1>12, <1>13, <1>14,
             <1>15, <1>16, <1>17, <1>18 DEF Next

\* The invariant says of every inode what CachedBlocksKept says of the ones
\* that a path leads to.
LEMMA KInvKeeps == KInv => CachedBlocksKept
  <1> SUFFICES ASSUME KInv, NEW p \in Paths, NEW b \in Blocks,
                      in_cache(cache, p), get_inode_by_path(cache, p).blocks[b] # Nil
               PROVE  LET id == cache.inode_idx[p]
                          ref == get_inode_by_path(cache, p).blocks[b]
                      IN  \/ cache.dirty_block[id][b] # Nil /\ cache.dirty_block[id][b].ref = ref
                          \/ cache.dirty_block[id][b] = Nil /\ OnDisk(id, b, cache.block[ref])
    BY DEF CachedBlocksKept, OnDisk
  <1>1. cache.inode_idx[p] \in Ids
    BY DEF KInv, IInv, Sound, Cache, in_cache
  <1>2. cache.inode_ptrs[cache.inode_idx[p]] # Nil
    BY NilAssumption DEF KInv, IInv, Sound, Resolves, get_inode_by_path
  <1> QED BY <1>1, <1>2 DEF KInv, Faithful, Kept, get_inode_by_path

\* The invariant holds before the first mount.
LEMMA InitKInv == Init => KInv
  <1> SUFFICES ASSUME Init PROVE Faithful(cache)
    BY InitIInv DEF KInv
  <1>1. /\ cache.inode_idx = [p \in Paths |-> Nil]
        /\ cache.inode_ptrs = [id \in Ids |-> Nil]
        /\ cache.dirty_block = [id \in Ids |-> NoBlocks]
    BY DEF Init, EmptyCache
  <1>2. OwnIds(cache) /\ OwnObjects(cache) /\ DirtyListed(cache)
        /\ \A id \in Ids : cache.inode_ptrs[id] = Nil
    BY <1>1, FaithfulEmpty
  <1> QED BY <1>2 DEF Faithful, Kept

\* As long as nothing is renamed, and no link's text is a path in use, what a
\* flush drops with the cache it has written, or is on disk already
\* (flush_to_disk clears inode_ptrs_ having written only dirty_block_).
THEOREM BlocksKept ==
  ASSUME NoAliases
  PROVE  Spec => []CachedBlocksKept
  BY InitKInv, NextKInv, KInvKeeps, PTL DEF Spec
-----------------------------------------------------------------------------
(* The durable block store.                                                *)

\* What the store holds when the cache is c and the disk has st: the dirty
\* block, if there is one.
Pending(c, st) ==
  [id \in Ids |-> [b \in Blocks |->
     IF c.dirty_block[id][b] # Nil THEN c.block[c.dirty_block[id][b].ref] ELSE st[id][b]]]

\* A cache with something to write knows that it has: has_changed_ is what
\* an unmount looks at.
Changed(c) == \A id \in Ids, b \in Blocks : c.dirty_block[id][b] # Nil => c.has_changed

Clean(c) == \A id \in Ids, b \in Blocks : c.dirty_block[id][b] = Nil

DInv == KInv /\ Changed(cache) /\ (~mounted => Clean(cache))

\* Contents of a store.
Contents == [Ids -> [Blocks -> Values \cup {Nil}]]
-----------------------------------------------------------------------------
(* The last version on disk.                                               *)

Held(trees, id, b) == {i \in DOMAIN trees : trees[i][id] # Nil /\ trees[i][id].blocks[b] # Nil}

Last(S) == CHOOSE i \in S : \A j \in S : j <= i

\* The newest version, by its place.
LEMMA LatestDef ==
  ASSUME NEW trees, NEW id, NEW b
  PROVE  Latest(trees, id, b) =
           IF Held(trees, id, b) = {} THEN Nil
           ELSE trees[Last(Held(trees, id, b))][id].blocks[b].data
  BY DEF Latest, Held, Last

\* The last of the trees that hold a block is one of them.
LEMMA LastHeld ==
  ASSUME NEW trees \in Seq(Tree), NEW id, NEW b, Held(trees, id, b) # {}
  PROVE  /\ Last(Held(trees, id, b)) \in Held(trees, id, b)
         /\ \A j \in Held(trees, id, b) : j <= Last(Held(trees, id, b))
  <1>1. Len(trees) \in Nat /\ Held(trees, id, b) \subseteq 1..Len(trees)
    BY DEF Held
  <1>2. \E i \in Held(trees, id, b) : \A j \in Held(trees, id, b) : j <= i
    BY <1>1, Greatest
  <1> QED BY <1>2 DEF Last

\* A new tree overrules the older ones where it has a block.
LEMMA LatestAppend ==
  ASSUME NEW trees \in Seq(Tree), NEW t \in Tree, NEW id \in Ids, NEW b \in Blocks
  PROVE  Latest(Append(trees, t), id, b) =
           IF t[id] # Nil /\ t[id].blocks[b] # Nil THEN t[id].blocks[b].data
           ELSE Latest(trees, id, b)
  <1> DEFINE n == Len(trees)
             new == Append(trees, t)
             h == Held(trees, id, b)
             h2 == Held(new, id, b)
  <1>1. /\ n \in Nat /\ new \in Seq(Tree) /\ DOMAIN trees = 1..n /\ DOMAIN new = 1..(n + 1)
        /\ new[n + 1] = t /\ \A i \in 1..n : new[i] = trees[i]
    OBVIOUS
  <1> HIDE DEF n, new
  <1>2. h \subseteq 1..n /\ h2 \subseteq 1..(n + 1)
    BY <1>1 DEF Held
  <1>3. CASE t[id] # Nil /\ t[id].blocks[b] # Nil
    <2>1. n + 1 \in h2
      BY <1>1, <1>3 DEF Held
    <2>2. Last(h2) \in h2 /\ n + 1 <= Last(h2)
      BY <1>1, <2>1, LastHeld
    <2>3. Last(h2) = n + 1
      BY <1>1, <1>2, <2>2
    <2> QED BY <1>1, <1>3, <2>1, <2>3, LatestDef DEF new
  <1>4. CASE ~(t[id] # Nil /\ t[id].blocks[b] # Nil)
    <2>1. h2 = h
      <3>1. n + 1 \notin h2
        BY <1>1, <1>4 DEF Held
      <3>2. \A i \in 1..n : i \in h2 <=> i \in h
        BY <1>1 DEF Held
      <3>3. \A i \in 1..(n + 1) : i = n + 1 \/ i \in 1..n
        BY <1>1
      <3> HIDE DEF h, h2
      <3> QED BY <1>2, <3>1, <3>2, <3>3
    <2>2. h # {} => Last(h) \in 1..n
      BY <1>2, LastHeld
    <2>3. h # {} => new[Last(h)] = trees[Last(h)]
      BY <1>1, <2>2
    <2>4. Latest(trees, id, b) = IF h = {} THEN Nil ELSE trees[Last(h)][id].blocks[b].data
      BY LatestDef
    <2>5. Latest(new, id, b) = IF h = {} THEN Nil ELSE new[Last(h)][id].blocks[b].data
      BY <2>1, LatestDef
    <2> QED BY <1>4, <2>3, <2>4, <2>5 DEF new
  <1> QED BY <1>3, <1>4

\* What is durable is contents.
LEMMA StableType ==
  ASSUME NEW trees \in Seq(Tree)
  PROVE  [id \in Ids |-> [b \in Blocks |-> Latest(trees, id, b)]] \in Contents
  <1>1. ASSUME NEW id \in Ids, NEW b \in Blocks
        PROVE  Latest(trees, id, b) \in Values \cup {Nil}
    <2> DEFINE h == Held(trees, id, b)
               i == Last(h)
    <2>1. CASE h = {}
      BY <2>1, LatestDef
    <2>2. CASE h # {}
      <3>1. i \in h
        BY <2>2, LastHeld
      <3> HIDE DEF i
      <3>2. i \in DOMAIN trees /\ trees[i][id] # Nil /\ trees[i][id].blocks[b] # Nil
        BY <3>1 DEF Held
      <3>3. trees[i] \in Tree
        BY <3>2
      <3>4. trees[i][id] \in DiskInode
        BY <3>2, <3>3 DEF Tree
      <3>5. trees[i][id].blocks[b] \in [data : Values, mtime : Nat]
        BY <3>2, <3>4 DEF DiskInode
      <3>6. Latest(trees, id, b) = trees[i][id].blocks[b].data
        BY <2>2, LatestDef DEF i
      <3> QED BY <3>5, <3>6
    <2> QED BY <2>1, <2>2
  <1> QED BY <1>1 DEF Contents
-----------------------------------------------------------------------------
(* What the methods do to the contents.                                    *)

\* What a reader sees is what is pending over what is durable.
LEMMA VolPending == vol = Pending(cache, stable)
  BY DEF vol, Pending

\* With nothing dirty, nothing is pending.
LEMMA PendingClean ==
  ASSUME NEW c, Clean(c), NEW st \in Contents
  PROVE  Pending(c, st) = st
  BY DEF Pending, Clean, Contents

\* Objects in use that stay as they are keep the contents.
LEMMA PendingSame ==
  ASSUME NEW c, Sound(c), NEW d, d.dirty_block = c.dirty_block,
         \A r \in InUse(c) : d.block[r] = c.block[r], NEW st
  PROVE  Pending(d, st) = Pending(c, st)
  <1>1. \A id \in Ids, b \in Blocks :
          c.dirty_block[id][b] # Nil =>
            d.block[c.dirty_block[id][b].ref] = c.block[c.dirty_block[id][b].ref]
    BY DirtyInUse
  <1> QED BY <1>1 DEF Pending

\* Objects in use are objects.
LEMMA InUseRefs == \A c : InUse(c) \subseteq Refs
  BY DEF InUse

\* Releasing objects nobody points to changes no pending block.
LEMMA PendingFreed ==
  ASSUME NEW c, Sound(c), NEW st
  PROVE  Pending(Freed(c), st) = Pending(c, st)
  <1>1. Freed(c).dirty_block = c.dirty_block /\ \A r \in InUse(c) : Freed(c).block[r] = c.block[r]
    BY FreedFields DEF Sound
  <1> QED BY <1>1, PendingSame

\* Nor does loading a file.
LEMMA PendingLoad ==
  ASSUME NEW c, Sound(c), DiskOK, NEW p \in Paths, HasRoom(c, crypto_hash(p)), NEW st
  PROVE  Pending(load_from_disk(c, p), st) = Pending(c, st)
  <1> DEFINE d == load_from_disk(c, p)
  <1>1. CASE get_latest_inode(p, TRUE) = Nil
    BY <1>1 DEF load_from_disk
  <1>2. CASE get_latest_inode(p, TRUE) # Nil
    <2>1. Loaded(c, d, p)
      BY <1>2, LoadFields
    <2> HIDE DEF d
    <2>2. d.dirty_block = c.dirty_block /\ \A r \in InUse(c) : d.block[r] = c.block[r]
      BY <2>1 DEF Loaded
    <2> QED BY <2>2, PendingSame DEF d
  <1> QED BY <1>1, <1>2

\* A write changes the block written and no other: no other dirty block has
\* the same object.
LEMMA PendingWritten ==
  ASSUME NEW c, Sound(c), Faithful(c), now \in Nat, NEW id \in Ids, c.inode_ptrs[id] \in Inode,
         NEW b \in Blocks, NEW v \in Values, NEW d, Written(c, d, id, b, v), NEW st
  PROVE  Pending(d, st) = [Pending(c, st) EXCEPT ![id][b] = v]
  <1>1. c \in Cache /\ Placed(c) /\ OwnObjects(c)
    BY DEF Sound, Faithful
  <1> DEFINE dirty(ref) == [ref |-> ref, mtime |-> now]
  <1>2. PICK ref \in Refs :
          /\ ref.blk = b
          /\ IF c.inode_ptrs[id].blocks[b] # Nil THEN ref = c.inode_ptrs[id].blocks[b]
             ELSE ref \notin InUse(c) /\ ref.id = id
          /\ d.block = [c.block EXCEPT ![ref] = v]
          /\ d.dirty_block = [c.dirty_block EXCEPT ![id] = [@ EXCEPT ![b] = dirty(ref)]]
    BY DEF Written
  <1>3. /\ c.block \in [Refs -> Values \cup {Nil}]
        /\ c.dirty_block \in [Ids -> [Blocks -> Dirty \cup {Nil}]]
        /\ c.inode_ptrs[id] # Nil
    BY <1>1, NilAssumption DEF Cache
  <1>4. ref.id = id
    BY <1>1, <1>2, <1>3 DEF OwnObjects
  <1>5. dirty(ref).ref = ref /\ dirty(ref) # Nil
    <2>1. dirty(ref) \in Dirty
      BY <1>2 DEF Dirty
    <2> QED BY <2>1, NilAssumption
  <1> HIDE DEF dirty
  <1>6. \A x \in Ids, y \in Blocks :
          d.dirty_block[x][y] = IF x = id /\ y = b THEN dirty(ref) ELSE c.dirty_block[x][y]
    BY <1>2, <1>3
  <1>7. d.block[ref] = v /\ \A r \in Refs : r # ref => d.block[r] = c.block[r]
    BY <1>2, <1>3
  <1>8. ASSUME NEW x \in Ids, NEW y \in Blocks, ~(x = id /\ y = b), c.dirty_block[x][y] # Nil
        PROVE  d.block[c.dirty_block[x][y].ref] = c.block[c.dirty_block[x][y].ref]
    <2>1. c.dirty_block[x][y].ref \in Refs
      BY <1>3, <1>8 DEF Dirty
    <2>2. c.dirty_block[x][y].ref.id = x /\ c.dirty_block[x][y].ref.blk = y
      BY <1>1, <1>8 DEF OwnObjects, Placed
    <2> QED BY <1>2, <1>4, <1>7, <1>8, <2>1, <2>2
  <1> DEFINE P == Pending(c, st)
             Q == Pending(d, st)
             R == [P EXCEPT ![id][b] = v]
  <1>9. \A x \in Ids, y \in Blocks : Q[x][y] = IF x = id /\ y = b THEN v ELSE P[x][y]
    BY <1>5, <1>6, <1>7, <1>8 DEF Pending
  <1>10. /\ P = [x \in Ids |-> P[x]] /\ \A x \in Ids : P[x] = [y \in Blocks |-> P[x][y]]
         /\ Q = [x \in Ids |-> Q[x]] /\ \A x \in Ids : Q[x] = [y \in Blocks |-> Q[x][y]]
    BY DEF Pending
  <1> HIDE DEF P, Q
  <1>11. \A x \in Ids, y \in Blocks : R[x][y] = IF x = id /\ y = b THEN v ELSE P[x][y]
    BY <1>10
  <1>12. R = [x \in Ids |-> R[x]] /\ \A x \in Ids : R[x] = [y \in Blocks |-> R[x][y]]
    BY <1>10
  <1> HIDE DEF R
  <1>13. \A x \in Ids : Q[x] = R[x]
    BY <1>9, <1>10, <1>11, <1>12
  <1> QED BY <1>10, <1>12, <1>13 DEF P, Q, R
-----------------------------------------------------------------------------
(* Flushing.                                                               *)

\* A flush makes every dirty block durable: the inode it belongs to is in
\* the cache, so that add_inode writes it.
LEMMA FlushStable ==
  ASSUME disk \in Seq(Tree), NEW c, Sound(c), Faithful(c), flush_to_disk(c)
  PROVE  stable' = Pending(c, stable)
  <1>1. c \in Cache /\ Filled(c) /\ DirtyListed(c)
    BY DEF Sound, Faithful
  <1>2. ASSUME NEW id \in Ids, NEW b \in Blocks, c.dirty_block[id][b] # Nil
        PROVE  id \in Cached(c)
    <2>1. PICK p \in Paths : c.inode_idx[p] = id
      BY <1>1, <1>2 DEF DirtyListed
    <2>2. in_cache(c, p)
      BY <2>1, CacheAssumption DEF in_cache
    <2> QED BY <2>1, <2>2 DEF Cached
  <1>3. CASE Cached(c) = {}
    <2>1. Clean(c) /\ disk' = disk
      BY <1>2, <1>3 DEF Clean, flush_to_disk
    <2>2. stable' = stable
      BY <2>1 DEF stable
    <2> QED BY <2>1, <2>2, StableType, PendingClean DEF stable
  <1>4. CASE Cached(c) # {}
    <2> DEFINE t == NewTree(c)
    <2>1. t \in Tree /\ disk' = Append(disk, t)
      BY <1>4, NewTreeType DEF flush_to_disk
    <2>2. ASSUME NEW id \in Ids, NEW b \in Blocks
          PROVE  Latest(disk', id, b) =
                   IF c.dirty_block[id][b] # Nil THEN c.block[c.dirty_block[id][b].ref]
                   ELSE Latest(disk, id, b)
      <3>1. CASE id \notin Cached(c)
        <4>1. t[id] = Nil
          BY <3>1 DEF NewTree
        <4> HIDE DEF t
        <4> QED BY <1>2, <2>1, <3>1, <4>1, LatestAppend
      <3>2. CASE id \in Cached(c)
        <4>1. t[id] = FlushedInode(c, id)
          BY <3>2 DEF NewTree
        <4>2. t[id] # Nil
          BY <3>2, <4>1, FlushedInodeType, NilAssumption
        <4>3. t[id].blocks[b] =
                IF c.dirty_block[id][b] = Nil THEN Nil
                ELSE [data |-> c.block[c.dirty_block[id][b].ref],
                      mtime |-> c.dirty_block[id][b].mtime]
          BY <4>1 DEF FlushedInode
        <4>4. t[id].blocks[b] \in [data : Values, mtime : Nat] \cup {Nil}
          BY <2>1, <4>2 DEF Tree, DiskInode
        <4> HIDE DEF t
        <4>5. CASE c.dirty_block[id][b] = Nil
          BY <2>1, <4>3, <4>5, LatestAppend
        <4>6. CASE c.dirty_block[id][b] # Nil
          <5>1. c.block[c.dirty_block[id][b].ref] \in Values /\ c.dirty_block[id][b].mtime \in Nat
            BY <1>1, <4>6 DEF Filled, Cache, Dirty
          <5>2. t[id].blocks[b] # Nil
            BY <4>3, <4>6, <5>1, NilAssumption
          <5>3. t[id].blocks[b].data = c.block[c.dirty_block[id][b].ref]
            BY <4>3, <4>6
          <5> QED BY <2>1, <4>2, <4>6, <5>2, <5>3, LatestAppend
        <4> QED BY <4>5, <4>6
      <3> QED BY <3>1, <3>2
    <2> QED BY <2>2 DEF stable, Pending
  <1> QED BY <1>3, <1>4

\* The volatile contents after a step.
LEMMA VolPendingNext == vol' = Pending(cache', stable')
  BY DEF vol, Pending

\* What is durable depends on the trees alone.
LEMMA StableSame == disk' = disk => stable' = stable
  BY DEF stable

\* A cache that was just made or just flushed is clean.
LEMMA EmptyClean ==
  /\ \A size : Clean(EmptyCache(size))
  /\ \A c : Clean(Flushed(c))
  <1>1. ASSUME NEW size PROVE Clean(EmptyCache(size))
    BY DEF Clean, EmptyCache, NoBlocks
  <1>2. ASSUME NEW c PROVE Clean(Flushed(c))
    BY DEF Clean, Flushed, EmptyCache, NoBlocks
  <1> QED BY <1>1, <1>2

\* A clean cache satisfies the condition on has_changed_.
LEMMA CleanChanged == \A c : Clean(c) => Changed(c)
  BY DEF Clean, Changed

\* The end of write and truncate: what was written is volatile as before, or
\* durable with everything else.
LEMMA EndOfCall ==
  ASSUME disk \in Seq(Tree), NEW c, Sound(c), Faithful(c), Changed(c), flush_to_shdw(c),
         disk' \in Seq(Tree)
  PROVE  /\ vol' = Pending(c, stable)
         /\ stable' \in {stable, Pending(c, stable)}
         /\ Changed(cache')
  <1>1. CASE c.size < MAX_SIZE \/ ~c.has_changed
    <2>1. cache' = Freed(c) /\ disk' = disk
      BY <1>1 DEF flush_to_shdw
    <2>2. stable' = stable /\ vol' = Pending(c, stable)
      BY <2>1, StableSame, VolPendingNext, PendingFreed
    <2>3. Changed(Freed(c))
      BY DEF Changed, Freed, Sound, Cache
    <2> QED BY <2>1, <2>2, <2>3
  <1>2. CASE ~(c.size < MAX_SIZE \/ ~c.has_changed)
    <2>1. cache' = Flushed(c) /\ flush_to_disk(c)
      BY <1>2 DEF flush_to_shdw
    <2>2. stable' = Pending(c, stable) /\ Clean(cache')
      BY <2>1, FlushStable, EmptyClean
    <2>3. stable' \in Contents
      BY StableType DEF stable
    <2>4. vol' = stable'
      BY <2>2, <2>3, VolPendingNext, PendingClean
    <2> QED BY <2>2, <2>4, CleanChanged
  <1> QED BY <1>1, <1>2
-----------------------------------------------------------------------------
(* Requests.                                                               *)

\* What a step has to show: it is a step of the store or leaves the store
\* alone, and the cache still knows when it has something to write.
StoreStep ==
  /\ [Store!Next]_<<mounted, vol, stable>>
  /\ Changed(cache')
  /\ ~mounted' => Clean(cache')

\* A request that leaves the dirty blocks and the disk alone is none of the
\* store's business.
LEMMA Quiet ==
  ASSUME Sound(cache), Changed(cache), mounted, UNCHANGED <<mounted, disk>>,
         NEW d, Sound(d), d.dirty_block = cache.dirty_block,
         \A r \in InUse(cache) : d.block[r] = cache.block[r],
         cache.has_changed => d.has_changed,
         cache' = d \/ cache' = Freed(d)
  PROVE  StoreStep
  <1>1. stable' = stable
    BY StableSame
  <1>2. Pending(d, stable) = Pending(cache, stable)
    BY PendingSame
  <1>3. Pending(cache', stable) = Pending(d, stable)
    BY PendingFreed
  <1>4. vol' = vol
    BY <1>1, <1>2, <1>3, VolPending, VolPendingNext
  <1>5. cache'.dirty_block = d.dirty_block /\ (d.has_changed => cache'.has_changed)
    BY DEF Freed, Sound, Cache
  <1>6. Changed(cache')
    BY <1>5 DEF Changed
  <1> QED BY <1>1, <1>4, <1>6 DEF StoreStep

\* Assigning an inode and shrinking inodes leave the dirty blocks alone.
LEMMA QuietKinds ==
  ASSUME Sound(cache), Changed(cache), mounted, UNCHANGED <<mounted, disk>>,
         NEW d, Sound(d), d.has_changed, d.dirty_block = cache.dirty_block, d.block = cache.block,
         cache' = Freed(d)
  PROVE  StoreStep
  BY Quiet

\* When the process ends the store has what is durable.
LEMMA DownStep ==
  ASSUME Down, mounted, disk' = disk, disk \in Seq(Tree)
  PROVE  StoreStep
  <1>1. stable' = stable /\ Clean(cache') /\ mounted' = FALSE
    BY StableSame, EmptyClean DEF Down
  <1>2. vol' = stable
    BY <1>1, StableType, PendingClean, VolPendingNext DEF stable
  <1>3. Store!Crash
    BY <1>1, <1>2 DEF Store!Crash
  <1> QED BY <1>1, <1>3, CleanChanged DEF StoreStep, Store!Next

\* A path's inode is in the cache, or is loaded.
LEMMA LoadStep ==
  ASSUME Sound(cache), DiskOK, Changed(cache), mounted, UNCHANGED <<mounted, disk>>,
         NEW p \in Paths, Loadable(p),
         cache' = IF in_cache(cache, p) THEN cache ELSE load_from_disk(cache, p)
  PROVE  StoreStep
  <1> DEFINE d == load_from_disk(cache, p)
  <1>1. CASE in_cache(cache, p) \/ get_latest_inode(p, TRUE) = Nil
    <2>1. cache' = cache
      BY <1>1 DEF load_from_disk
    <2> QED BY <2>1, Quiet
  <1>2. CASE ~in_cache(cache, p) /\ get_latest_inode(p, TRUE) # Nil
    <2>1. HasRoom(cache, crypto_hash(p)) /\ cache' = d
      BY <1>2 DEF Loadable
    <2>2. Sound(d) /\ Loaded(cache, d, p)
      BY <1>2, <2>1, SoundLoad, LoadFields
    <2>3. d.has_changed = cache.has_changed
      BY <1>2 DEF load_from_disk, Sound, Cache
    <2> HIDE DEF d
    <2> QED BY <2>1, <2>2, <2>3, Quiet DEF Loaded
  <1> QED BY <1>1, <1>2

\* A write is a write of the store, and may flush the rest with it.
LEMMA WriteStep ==
  ASSUME NoAliases, KInv, Changed(cache),
         NEW p \in Paths, NEW b \in Blocks, NEW v \in Values, zippyfs_write(p, b, v)
  PROVE  StoreStep
  <1> DEFINE d == Ready(cache, p)
             id == InodeId(cache, p)
             e == write(cache, p, b, v)
  <1>0. /\ TypeOK /\ Sound(cache) /\ Faithful(cache) /\ DiskOK /\ now \in Nat /\ disk \in Seq(Tree)
        /\ mounted /\ mounted' = mounted
    BY DEF KInv, IInv, TypeOK, Tree, DiskOK, zippyfs_write, Reachable
  <1>1. HasRoom(cache, id) /\ flush_to_shdw(e)
    BY DEF zippyfs_write, Loadable, InodeId
  <1>2. Sound(e) /\ Faithful(e)
    BY <1>0, <1>1, SoundWrite, FaithfulWrite
  <1>3. disk' \in Seq(Tree)
    BY <1>0, <1>1, <1>2, FlushToShdw
  <1>4. CASE e = cache
    <2>1. vol' = vol /\ stable' \in {stable, vol} /\ Changed(cache')
      BY <1>0, <1>1, <1>2, <1>3, <1>4, EndOfCall, VolPending
    <2>2. stable' = stable \/ Store!Flush
      BY <1>0, <2>1 DEF Store!Flush
    <2> QED BY <1>0, <2>1, <2>2 DEF StoreStep, Store!Next
  <1>5. CASE e # cache
    <2>1. /\ Sound(d) /\ in_cache(d, p) /\ id \in Ids /\ d.inode_ptrs[id] \in Inode
          /\ Written(d, e, id, b, v)
      BY <1>0, <1>1, <1>5, WriteCases
    <2>2. Faithful(d) /\ Pending(d, stable) = Pending(cache, stable)
      <3>1. CASE in_cache(cache, p)
        <4>1. Shrunk(cache, d)
          BY <1>0, <3>1, RemadeShrinks DEF Ready
        <4>2. Pending(d, stable) = Pending(cache, stable)
          BY <4>1 DEF Shrunk, Pending
        <4> QED BY <1>0, <4>1, <4>2, FaithfulShrunk
      <3>2. CASE ~in_cache(cache, p)
        BY <1>0, <1>1, <3>2, FaithfulLoad, PendingLoad DEF Ready, InodeId
      <3> QED BY <3>1, <3>2
    <2>3. e.has_changed
      <3>1. e = write_block(d, p, b, v)
        BY <2>1 DEF write, Ready
      <3>2. d \in Cache
        BY <2>1 DEF Sound
      <3> HIDE DEF d, e
      <3> QED BY <3>1, <3>2 DEF write_block, Cache
    <2> HIDE DEF d, e, id
    <2>4. Pending(e, stable) = [vol EXCEPT ![id][b] = v]
      BY <1>0, <2>1, <2>2, PendingWritten, VolPending
    <2>5. /\ vol' = [vol EXCEPT ![id][b] = v] /\ stable' \in {stable, vol'} /\ Changed(cache')
      BY <1>0, <1>1, <1>2, <1>3, <2>3, <2>4, EndOfCall DEF Changed
    <2>6. Store!Write(id, b, v)
      BY <1>0, <2>5 DEF Store!Write
    <2> QED BY <1>0, <2>1, <2>5, <2>6 DEF StoreStep, Store!Next
  <1> QED BY <1>4, <1>5

\* truncate writes no block, and may flush.
LEMMA TruncateStep ==
  ASSUME KInv, Changed(cache), NEW p \in Paths, NEW n \in Lengths, zippyfs_truncate(p, n)
  PROVE  StoreStep
  <1> DEFINE e == truncate(cache, p, n)
  <1>0. /\ TypeOK /\ Sound(cache) /\ Faithful(cache) /\ now \in Nat /\ disk \in Seq(Tree)
        /\ mounted /\ mounted' = mounted /\ flush_to_shdw(e) /\ n \in Nat
    BY CacheAssumption DEF KInv, IInv, TypeOK, Tree, zippyfs_truncate, Reachable
  <1>1. e = cache \/ Shrunk(cache, e)
    BY <1>0, TruncateShrinks
  <1>2. cache.has_changed => e.has_changed
    BY <1>0 DEF truncate, Sound, Cache
  <1> HIDE DEF e
  <1>3. Sound(e) /\ Faithful(e)
    BY <1>0, <1>1, SoundShrunk, FaithfulShrunk
  <1>4. disk' \in Seq(Tree)
    BY <1>0, <1>3, FlushToShdw
  <1>5. Pending(e, stable) = vol /\ Changed(e)
    BY <1>1, <1>2, VolPending DEF Shrunk, Pending, Changed
  <1>6. vol' = vol /\ stable' \in {stable, vol} /\ Changed(cache')
    BY <1>0, <1>3, <1>4, <1>5, EndOfCall
  <1>7. stable' = stable \/ Store!Flush
    BY <1>0, <1>6 DEF Store!Flush
  <1> QED BY <1>0, <1>6, <1>7 DEF StoreStep, Store!Next

\* Unmounting makes everything durable: has_changed_ tells of every write.
LEMMA DestroyStep ==
  ASSUME KInv, Changed(cache), zippyfs_destroy
  PROVE  StoreStep /\ stable' = vol
  <1>0. /\ TypeOK /\ Sound(cache) /\ Faithful(cache) /\ disk \in Seq(Tree) /\ mounted /\ Down
    BY DEF KInv, IInv, TypeOK, Tree, zippyfs_destroy
  <1>1. stable' = vol
    <2>1. CASE cache.has_changed
      BY <1>0, <2>1, FlushStable, VolPending DEF zippyfs_destroy
    <2>2. CASE ~cache.has_changed
      <3>1. Clean(cache) /\ disk' = disk
        BY <2>2 DEF Changed, Clean, zippyfs_destroy
      <3> QED BY <1>0, <3>1, StableSame, StableType, PendingClean, VolPending DEF stable
    <2> QED BY <2>1, <2>2
  <1>2. disk' \in Seq(Tree)
    BY <1>0, FlushType DEF zippyfs_destroy
  <1>3. Clean(cache') /\ mounted' = FALSE
    BY <1>0, EmptyClean DEF Down
  <1>4. vol' = stable'
    BY <1>2, <1>3, StableType, PendingClean, VolPendingNext DEF stable
  <1>5. Store!Stop
    BY <1>0, <1>1, <1>3, <1>4 DEF Store!Stop
  <1> QED BY <1>1, <1>3, <1>5, CleanChanged DEF StoreStep, Store!Next

\* A mount starts the store with what is durable.
LEMMA InitStep ==
  ASSUME KInv, ~mounted => Clean(cache), zippyfs_init
  PROVE  StoreStep
  <1>0. disk \in Seq(Tree) /\ ~mounted /\ mounted' = TRUE /\ disk' = disk
    BY DEF KInv, IInv, TypeOK, Tree, zippyfs_init
  <1>1. Clean(cache) /\ Clean(cache')
    BY <1>0, EmptyClean DEF zippyfs_init
  <1>2. stable' = stable /\ vol = stable /\ vol' = stable
    BY <1>0, <1>1, StableSame, StableType, PendingClean, VolPending, VolPendingNext DEF stable
  <1>3. Store!Start
    BY <1>0, <1>2 DEF Store!Start
  <1> QED BY <1>0, <1>1, <1>3, CleanChanged DEF StoreStep, Store!Next

\* Every request, fault, crash and mount is a step of the store or leaves it
\* alone.
LEMMA NextStoreStep ==
  ASSUME NoAliases, DInv, [Next]_vars
  PROVE  StoreStep
  <1>0. /\ KInv /\ TypeOK /\ Sound(cache) /\ Faithful(cache) /\ DiskOK /\ disk \in Seq(Tree)
        /\ now \in Nat /\ Changed(cache) /\ (~mounted => Clean(cache))
    BY DEF DInv, KInv, IInv, TypeOK, Tree, DiskOK
  <1> USE <1>0
  <1>1. ASSUME NEW p \in Paths, NEW mode \in Modes, mounted, UNCHANGED <<mounted, disk>>,
               cache' = Freed(make_file(cache, p, mode))
        PROVE  StoreStep
    <2> DEFINE d == make_file(cache, p, mode)
    <2>1. Assigned(cache, d, p, crypto_hash(p)) /\ Sound(d)
      BY PathId, MakeFileAssigns, SoundAssigned
    <2>2. d.has_changed
      BY DEF make_file, Sound, Cache
    <2> HIDE DEF d
    <2> QED BY <1>1, <2>1, <2>2, QuietKinds DEF Assigned, d
  <1>2. ASSUME NEW p \in FilePaths, zippyfs_mknod(p) PROVE StoreStep
    BY <1>1, <1>2 DEF zippyfs_mknod, Reachable, Modes, Paths
  <1>3. ASSUME NEW p \in DirPaths, zippyfs_mkdir(p) PROVE StoreStep
    BY <1>1, <1>3 DEF zippyfs_mkdir, Reachable, Modes, Paths
  <1>4. ASSUME NEW p \in Paths, zippyfs_open(p) PROVE StoreStep
    BY <1>4, LoadStep DEF zippyfs_open, Reachable
  <1>5. ASSUME NEW p \in Paths, close(p) PROVE StoreStep
    BY <1>5, Quiet DEF close
  <1>6. ASSUME NEW p \in Paths, zippyfs_unlink(p) PROVE StoreStep
    <2> DEFINE d == remove(cache, p)
    <2>1. Shrunk(cache, d) /\ Sound(d)
      BY <1>6, RemoveShrinks, SoundShrunk DEF zippyfs_unlink
    <2>2. d.has_changed
      BY DEF remove, Sound, Cache
    <2> HIDE DEF d
    <2> QED BY <1>6, <2>1, <2>2, QuietKinds DEF Shrunk, zippyfs_unlink, Reachable, d
  <1>7. ASSUME NEW p \in Paths, zippyfs_rmdir(p) PROVE StoreStep
    <2> DEFINE d == rmdir(cache, p)
    <2>1. Shrunk(cache, d) /\ Sound(d)
      BY <1>7, RmdirShrinks, SoundShrunk DEF zippyfs_rmdir
    <2>2. d.has_changed
      BY DEF rmdir, Sound, Cache
    <2> HIDE DEF d
    <2> QED BY <1>7, <2>1, <2>2, QuietKinds DEF Shrunk, zippyfs_rmdir, Reachable, d
  <1>8. ASSUME NEW p \in Paths, NEW b \in Blocks, zippyfs_read(p, b) PROVE StoreStep
    <2> DEFINE c == IF in_cache(cache, p) THEN cache ELSE load_from_disk(cache, p)
    <2> HIDE DEF c
    <2>1. mounted /\ Loadable(p)
      BY <1>8 DEF zippyfs_read, Reachable
    <2>2. (Down /\ disk' = disk) \/ (cache' = c /\ UNCHANGED <<mounted, disk>>)
      BY <1>8, Zenon DEF zippyfs_read, c
    <2> QED BY <2>1, <2>2, DownStep, LoadStep DEF c
  <1>9. ASSUME NEW p \in Paths, NEW b \in Blocks, NEW v \in Values, zippyfs_write(p, b, v)
        PROVE  StoreStep
    BY <1>9, WriteStep
  <1>10. ASSUME NEW p \in Paths, NEW n \in Lengths, zippyfs_truncate(p, n) PROVE StoreStep
    BY <1>10, TruncateStep
  <1>11. ASSUME NEW l \in Links, zippyfs_symlink(l[1], l[2]) PROVE StoreStep
    <2> DEFINE d == symlink(cache, l[1], l[2])
    <2>1. l[1] \in Names /\ l[2] \in Paths
      BY CacheAssumption
    <2>2. Assigned(cache, d, l[2], crypto_hash(l[1])) /\ Sound(d)
      BY <2>1, HashId, SymlinkAssigns, SoundAssigned
    <2>3. d.has_changed
      BY DEF symlink, Sound, Cache
    <2> HIDE DEF d
    <2> QED BY <1>11, <2>2, <2>3, QuietKinds DEF Assigned, zippyfs_symlink, Reachable, d
  <1>12. Renames = {}
    BY DEF NoAliases
  <1>13. ASSUME NEW p \in Paths, lookup_fault(p) PROVE StoreStep
    BY <1>13, DownStep DEF lookup_fault
  <1>14. CASE zippyfs_readdir
    BY <1>14, Quiet DEF zippyfs_readdir
  <1>15. CASE zippyfs_destroy
    BY <1>15, DestroyStep
  <1>16. CASE kill
    BY <1>16, DownStep DEF kill
  <1>17. CASE zippyfs_init
    BY <1>17, InitStep
  <1>18. CASE UNCHANGED vars
    <2>1. mounted' = mounted /\ cache' = cache /\ disk' = disk
      BY <1>18 DEF vars
    <2>2. stable' = stable /\ vol' = vol
      BY <2>1, StableSame, VolPending, VolPendingNext
    <2> QED BY <2>1, <2>2 DEF StoreStep
  <1> QED BY <1>2, <1>3, <1>4, <1>5, <1>6, <1>7, <1>8, <1>9, <1>10, <1>11, <1>12, <1>13, <1>14,
             <1>15, <1>16, <1>17, <1>18 DEF Next

\* The invariant of the refinement is preserved.
LEMMA NextDInv ==
  ASSUME NoAliases
  PROVE  DInv /\ [Next]_vars => DInv'
  <1> SUFFICES ASSUME DInv, [Next]_vars PROVE DInv'
    OBVIOUS
  <1>1. KInv'
    BY NextKInv DEF DInv
  <1>2. Changed(cache') /\ (~mounted' => Clean(cache'))
    BY NextStoreStep DEF StoreStep
  <1> QED BY <1>1, <1>2 DEF DInv, Changed, Clean

\* Before the first mount the cache is clean and the store is empty.
LEMMA InitDInv == Init => DInv /\ Store!Init
  <1> SUFFICES ASSUME Init PROVE DInv /\ Store!Init
    OBVIOUS
  <1>1. KInv /\ Clean(cache) /\ disk = << >> /\ mounted = FALSE
    BY InitKInv, EmptyClean DEF Init
  <1>2. stable = [id \in Ids |-> [b \in Blocks |-> Nil]]
    <2>1. \A id \in Ids, b \in Blocks : Held(disk, id, b) = {}
      BY <1>1 DEF Held
    <2> QED BY <2>1, LatestDef DEF stable
  <1>3. vol = stable
    BY <1>1, <1>2, PendingClean, VolPending DEF Contents
  <1> QED BY <1>1, <1>2, <1>3, CleanChanged DEF DInv, Store!Init

\* The block cache and its trees implement the durable block store of module
\* BlockStore: a write changes one block, a flush or an unmount makes every
\* write durable, and a crash loses only what was not (write, flush_to_shdw,
\* zippyfs_destroy), for any number of files, blocks, flushes and crashes.
THEOREM ImplementsStore ==
  ASSUME NoAliases
  PROVE  Spec => Durable
  <1>1. DInv /\ [Next]_vars => [Store!Next]_<<mounted, vol, stable>>
    BY NextStoreStep DEF StoreStep
  <1> QED BY <1>1, InitDInv, NextDInv, PTL DEF Spec, Durable, Store!Spec

\* Unmounting loses no write, whether or not the file was deleted since:
\* has_changed_, which zippyfs_destroy looks at, is true whenever a block is
\* dirty, and every dirty block is of an inode that the flush walks.
THEOREM UnmountLosesNothing ==
  ASSUME NoAliases
  PROVE  Spec => UnmountKeepsWrites
  <1>1. DInv /\ [Next]_vars => [zippyfs_destroy => stable' = vol]_vars
    BY DestroyStep DEF DInv
  <1> QED BY <1>1, InitDInv, NextDInv, PTL DEF Spec, UnmountKeepsWrites
-----------------------------------------------------------------------------
(* Renames: the invariant.                                                 *)

\* No link's text is a path in use.
LinksApart == \A l \in Links : l[1] \notin Paths

\* No two links have one text.
OwnTexts == \A l, m \in Links : l[1] = m[1] => l = m

\* A path is filed under its own id, or under the id of the text it is a link
\* to.
Filing(p, id) ==
  \/ id = crypto_hash(p)
  \/ \E l \in Links : l[2] = p /\ id = crypto_hash(l[1])

Filed(c) == \A p \in Paths : in_cache(c, p) => Filing(p, c.inode_idx[p])

\* The objects of two inodes in one place.
Differ(c, x, y, b) ==
  c.inode_ptrs[x] # Nil /\ c.inode_ptrs[y] # Nil /\ c.inode_ptrs[x].blocks[b] # Nil =>
    c.inode_ptrs[x].blocks[b] # c.inode_ptrs[y].blocks[b]

\* No two inodes share a Block object.
Apart(c) == \A x, y \in Ids, b \in Blocks : x # y => Differ(c, x, y, b)

Tidy(c) == Filed(c) /\ Apart(c)

NInv == IInv /\ Tidy(cache)

\* Inode id holds object r in c.
Holds(c, id, r) ==
  c.inode_ptrs[id] # Nil /\ \E b \in Blocks : c.inode_ptrs[id].blocks[b] = r /\ r # Nil

\* d differs from c in the entries of the paths P, in the inodes K, and in
\* objects that no other inode holds.
Aside(c, d, P, K) ==
  /\ \A q \in Paths \ P : d.inode_idx[q] = c.inode_idx[q]
  /\ \A id \in Ids \ K : d.inode_ptrs[id] = c.inode_ptrs[id]
  /\ \A id \in Ids \ K, r \in Refs : Holds(c, id, r) => d.block[r] = c.block[r]

\* Two such changes are one.
LEMMA AsideBoth ==
  ASSUME NEW c, NEW d, NEW e, NEW P, NEW K, NEW Q, NEW L, Aside(c, d, P, K), Aside(d, e, Q, L)
  PROVE  Aside(c, e, P \cup Q, K \cup L)
  <1>1. \A id \in Ids \ (K \cup L), r \in Refs : Holds(c, id, r) => Holds(d, id, r)
    BY DEF Aside, Holds
  <1> QED BY <1>1 DEF Aside

\* What an inode holds is in use, and is an object.
LEMMA HeldInUse ==
  ASSUME NEW c, Sound(c), NEW id \in Ids, NEW b \in Blocks,
         c.inode_ptrs[id] # Nil, c.inode_ptrs[id].blocks[b] # Nil
  PROVE  /\ c.inode_ptrs[id].blocks[b] \in InUse(c) /\ c.inode_ptrs[id].blocks[b] \in Refs
         /\ c.inode_ptrs[id].blocks[b].blk = b
         /\ Holds(c, id, c.inode_ptrs[id].blocks[b])
  <1>1. c.inode_ptrs[id] \in Inode
    BY DEF Sound, Cache
  <1>2. c.inode_ptrs[id].blocks[b] \in Refs /\ c.inode_ptrs[id].blocks[b].blk = b
    BY <1>1 DEF Sound, Placed, Inode
  <1>3. c.inode_ptrs[id].blocks[b] \in InUse(c)
    BY <1>2 DEF InUse
  <1> QED BY <1>2, <1>3 DEF Holds

\* What an inode holds is in use.
LEMMA HoldsInUse ==
  ASSUME NEW c, Sound(c), NEW id \in Ids, NEW r, Holds(c, id, r)
  PROVE  r \in InUse(c)
  BY HeldInUse DEF Holds

\* A file whose path and inode are left aside looks the same.
LEMMA AsideView ==
  ASSUME NEW c, Sound(c), NEW d, NEW P, NEW K, Aside(c, d, P, K),
         NEW q \in Paths, q \notin P, in_cache(c, q), c.inode_idx[q] \notin K
  PROVE  in_cache(d, q) /\ View(d, q) = View(c, q)
  <1> DEFINE id == c.inode_idx[q]
             ino == c.inode_ptrs[id]
  <1>1. id \in Ids /\ ino # Nil
    BY NilAssumption DEF Sound, Resolves, in_cache, get_inode_by_path, Cache
  <1>2. d.inode_idx[q] = id /\ d.inode_ptrs[id] = ino
    BY <1>1 DEF Aside
  <1>3. ASSUME NEW b \in Blocks, ino.blocks[b] # Nil
        PROVE  d.block[ino.blocks[b]] = c.block[ino.blocks[b]]
    BY <1>1, <1>3, HeldInUse DEF Aside
  <1>4. get_inode_by_path(c, q) = ino /\ get_inode_by_path(d, q) = ino
    BY <1>2 DEF get_inode_by_path
  <1> HIDE DEF ino
  <1>5. View(d, q) = View(c, q)
    BY <1>3, <1>4 DEF View
  <1> QED BY <1>2, <1>5 DEF in_cache

\* Two paths have two inodes.
LEMMA OtherId ==
  ASSUME LinksApart, NEW c, Filed(c), NEW p \in Paths, NEW q \in Paths, p # q, in_cache(c, q)
  PROVE  /\ c.inode_idx[q] # crypto_hash(p)
         /\ OwnTexts => c.inode_idx[q] # InodeId(c, p)
         /\ OwnTexts => \A l \in Links : l[2] = p => c.inode_idx[q] # crypto_hash(l[1])
  <1> DEFINE id == c.inode_idx[q]
  <1>1. Filing(q, id) /\ p \in Names /\ q \in Names /\ crypto_hash(p) # crypto_hash(q)
    BY PathId, HashInjective DEF Filed
  <1>2. \A l \in Links : l[1] \in Names /\ l[1] # p /\ l[1] # q
    BY CacheAssumption DEF LinksApart
  <1>3. \A l \in Links : crypto_hash(l[1]) # crypto_hash(p) /\ crypto_hash(l[1]) # crypto_hash(q)
    BY <1>1, <1>2, HashInjective
  <1>4. id # crypto_hash(p)
    BY <1>1, <1>3 DEF Filing
  <1>5. ASSUME OwnTexts, NEW l \in Links, l[2] = p PROVE id # crypto_hash(l[1])
    <2>1. \A m \in Links : crypto_hash(l[1]) = crypto_hash(m[1]) => l = m
      BY <1>2, <1>5, HashInjective DEF OwnTexts
    <2> HIDE DEF id
    <2> QED BY <1>1, <1>3, <1>5, <2>1 DEF Filing
  <1>6. ASSUME OwnTexts PROVE id # InodeId(c, p)
    <2>1. CASE in_cache(c, p)
      <3>1. Filing(p, c.inode_idx[p])
        BY <2>1 DEF Filed
      <3> QED BY <1>4, <1>5, <1>6, <2>1, <3>1 DEF Filing, InodeId
    <2>2. CASE ~in_cache(c, p)
      BY <1>4, <2>2 DEF InodeId
    <2> QED BY <2>1, <2>2
  <1> QED BY <1>4, <1>5, <1>6

\* The objects of inode id in d are new, or are those it had in c.
OwnRefs(c, d, id) ==
  d.inode_ptrs[id] # Nil =>
    \A b \in Blocks : d.inode_ptrs[id].blocks[b] # Nil =>
      \/ d.inode_ptrs[id].blocks[b] \notin InUse(c)
      \/ c.inode_ptrs[id] # Nil /\ d.inode_ptrs[id].blocks[b] = c.inode_ptrs[id].blocks[b]

\* A change of one inode, filed where its path belongs.
OneInode(c, d, p, id) ==
  /\ Aside(c, d, {p}, {id})
  /\ d.inode_idx[p] = id /\ Filing(p, id)
  /\ OwnRefs(c, d, id)

\* Such a change keeps the cache tidy.
LEMMA TidyOne ==
  ASSUME NEW c, Sound(c), Tidy(c), NEW p \in Paths, NEW id \in Ids, NEW d, OneInode(c, d, p, id)
  PROVE  Tidy(d)
  <1>1. Filed(d)
    <2>1. \A q \in Paths \ {p} : d.inode_idx[q] = c.inode_idx[q]
      BY DEF OneInode, Aside
    <2> QED BY <2>1 DEF OneInode, Tidy, Filed, in_cache
  <1>2. \A x \in Ids : x # id => d.inode_ptrs[x] = c.inode_ptrs[x]
    BY DEF OneInode, Aside
  <1>3. ASSUME NEW x \in Ids, x # id, NEW b \in Blocks PROVE Differ(d, x, id, b) /\ Differ(d, id, x, b)
    <2>1. Differ(c, x, id, b) /\ Differ(c, id, x, b)
      BY <1>3 DEF Tidy, Apart
    <2>2. d.inode_ptrs[x] = c.inode_ptrs[x]
      BY <1>2, <1>3
    <2>3. c.inode_ptrs[x] # Nil /\ c.inode_ptrs[x].blocks[b] # Nil => c.inode_ptrs[x].blocks[b] \in InUse(c)
      BY HeldInUse
    <2>4. OwnRefs(c, d, id)
      BY DEF OneInode
    <2> QED BY <2>1, <2>2, <2>3, <2>4 DEF Differ, OwnRefs
  <1>4. ASSUME NEW x \in Ids, NEW y \in Ids, x # y, NEW b \in Blocks PROVE Differ(d, x, y, b)
    <2>1. CASE x = id \/ y = id
      BY <1>3, <1>4, <2>1
    <2>2. CASE x # id /\ y # id
      <3>1. Differ(c, x, y, b)
        BY <1>4 DEF Tidy, Apart
      <3>2. d.inode_ptrs[x] = c.inode_ptrs[x] /\ d.inode_ptrs[y] = c.inode_ptrs[y]
        BY <1>2, <2>2
      <3> QED BY <3>1, <3>2 DEF Differ
    <2> QED BY <2>1, <2>2
  <1> QED BY <1>1, <1>4 DEF Tidy, Apart

\* Inodes that keep or lose their objects stay tidy.
LEMMA TidyShrunk ==
  ASSUME NEW c, Tidy(c), NEW d, Shrunk(c, d)
  PROVE  Tidy(d)
  <1>1. Filed(d)
    BY DEF Tidy, Filed, Shrunk, in_cache
  <1>2. ASSUME NEW x \in Ids, NEW y \in Ids, x # y, NEW b \in Blocks PROVE Differ(d, x, y, b)
    <2>1. Differ(c, x, y, b)
      BY <1>2 DEF Tidy, Apart
    <2>2. \A z \in Ids : d.inode_ptrs[z] # Nil /\ d.inode_ptrs[z].blocks[b] # Nil =>
            c.inode_ptrs[z] # Nil /\ d.inode_ptrs[z].blocks[b] = c.inode_ptrs[z].blocks[b]
      BY DEF Shrunk, NoBlocks
    <2> QED BY <2>1, <2>2 DEF Differ
  <1> QED BY <1>1, <1>2 DEF Tidy, Apart

\* Freeing objects changes no inode, and none that an inode holds.
LEMMA TidyFreed ==
  ASSUME NEW c, Sound(c), Tidy(c)
  PROVE  Tidy(Freed(c)) /\ Aside(c, Freed(c), {}, {})
  <1> DEFINE d == Freed(c)
  <1>1. /\ d.inode_idx = c.inode_idx /\ d.inode_ptrs = c.inode_ptrs
        /\ \A r \in InUse(c) : d.block[r] = c.block[r]
    BY FreedFields DEF Sound
  <1> HIDE DEF d
  <1>2. Tidy(d)
    BY <1>1 DEF Tidy, Filed, Apart, Differ, in_cache
  <1>3. Aside(c, d, {}, {})
    BY <1>1, HoldsInUse DEF Aside
  <1> QED BY <1>2, <1>3 DEF d

\* make_file and symlink give their path a new inode.
LEMMA TidyAssigned ==
  ASSUME NEW c, Sound(c), Tidy(c), NEW p \in Paths, NEW id \in Ids, Filing(p, id), NEW d, Assigned(c, d, p, id)
  PROVE  OneInode(c, d, p, id) /\ Tidy(d)
  <1>1. PICK ino \in Inode : ino.blocks = NoBlocks /\ d.inode_ptrs = [c.inode_ptrs EXCEPT ![id] = ino]
    BY DEF Assigned
  <1>2. /\ d.inode_idx[p] = id /\ \A q \in Paths \ {p} : d.inode_idx[q] = c.inode_idx[q]
        /\ d.inode_ptrs[id] = ino /\ \A x \in Ids \ {id} : d.inode_ptrs[x] = c.inode_ptrs[x]
        /\ d.block = c.block
    BY <1>1 DEF Assigned, Sound, Cache
  <1>3. OneInode(c, d, p, id)
    BY <1>1, <1>2 DEF OneInode, Aside, OwnRefs, NoBlocks
  <1> QED BY <1>3, TidyOne

\* A loaded inode has new objects.
LEMMA TidyLoad ==
  ASSUME NEW c, Sound(c), Tidy(c), DiskOK, NEW p \in Paths, HasRoom(c, crypto_hash(p))
  PROVE  LET d == load_from_disk(c, p)
         IN  /\ Tidy(d) /\ Aside(c, d, {p}, {crypto_hash(p)})
             /\ \A r \in InUse(c) : d.block[r] = c.block[r]
  <1> DEFINE d == load_from_disk(c, p)
             id == crypto_hash(p)
  <1>1. CASE get_latest_inode(p, TRUE) = Nil
    <2>1. d = c
      BY <1>1 DEF load_from_disk
    <2> HIDE DEF d
    <2> QED BY <2>1 DEF Aside, d
  <1>2. CASE get_latest_inode(p, TRUE) # Nil
    <2> DEFINE di == get_latest_inode(p, TRUE)
    <2>1. Loaded(c, d, p) /\ id \in Ids /\ c \in Cache
      BY <1>2, LoadFields, PathId DEF Sound
    <2> HIDE DEF d, id, di
    <2>2. /\ d.inode_idx = [c.inode_idx EXCEPT ![p] = id]
          /\ \A r \in InUse(c) : d.block[r] = c.block[r]
      BY <2>1 DEF Loaded, id
    <2>3. PICK ino \in Inode : /\ d.inode_ptrs = [c.inode_ptrs EXCEPT ![id] = ino]
                              /\ \A b \in Blocks : ino.blocks[b] # Nil => ino.blocks[b] \notin InUse(c)
      BY <2>1 DEF Loaded, id
    <2>4. /\ d.inode_idx[p] = id /\ \A q \in Paths \ {p} : d.inode_idx[q] = c.inode_idx[q]
          /\ d.inode_ptrs[id] = ino /\ \A x \in Ids \ {id} : d.inode_ptrs[x] = c.inode_ptrs[x]
      BY <2>1, <2>2, <2>3 DEF Cache
    <2>5. Aside(c, d, {p}, {id})
      BY <2>2, <2>4, HoldsInUse DEF Aside
    <2>6. OwnRefs(c, d, id)
      BY <2>3, <2>4 DEF OwnRefs
    <2>7. OneInode(c, d, p, id)
      BY <2>4, <2>5, <2>6 DEF OneInode, Filing, id
    <2> QED BY <2>1, <2>2, <2>5, <2>7, TidyOne DEF d, id
  <1> QED BY <1>1, <1>2

\* A path that is not cached is loaded if it can be.
LEMMA TidyEnsured ==
  ASSUME NEW c, Sound(c), Tidy(c), DiskOK, NEW p \in Paths, HasRoom(c, InodeId(c, p)),
         NEW d, d = IF in_cache(c, p) THEN c ELSE load_from_disk(c, p)
  PROVE  /\ Sound(d) /\ Tidy(d) /\ Aside(c, d, {p}, {InodeId(c, p)})
         /\ \A r \in InUse(c) : d.block[r] = c.block[r]
  <1>1. CASE in_cache(c, p)
    BY <1>1 DEF Aside
  <1>2. CASE ~in_cache(c, p)
    <2>1. InodeId(c, p) = crypto_hash(p) /\ d = load_from_disk(c, p)
      BY <1>2 DEF InodeId
    <2> QED BY <2>1, SoundLoad, TidyLoad
  <1> QED BY <1>1, <1>2

\* truncate, rmdir and remake_inode replace one inode, truncate and
\* remake_inode by one with the same blocks.
LEMMA AsideChanged ==
  ASSUME NEW c, Sound(c), NEW p \in Paths, in_cache(c, p), NEW n \in Nat
  PROVE  LET id == c.inode_idx[p]
             t == truncate(c, p, n)
         IN  /\ Aside(c, rmdir(c, p), {p}, {id})
             /\ Aside(c, Remade(c, p), {p}, {id})
             /\ Aside(c, t, {p}, {id})
             /\ t.inode_idx = c.inode_idx /\ t.block = c.block
             /\ t.inode_ptrs[id].blocks = c.inode_ptrs[id].blocks
  <1> DEFINE id == c.inode_idx[p]
             ino == c.inode_ptrs[id]
             t == truncate(c, p, n)
  <1>1. c \in Cache
    BY DEF Sound
  <1>2. id \in Ids /\ ino \in Inode
    BY <1>1 DEF Sound, Resolves, in_cache, get_inode_by_path, Cache
  <1>3. ASSUME NEW d, NEW new, d.inode_idx = c.inode_idx, d.block = c.block,
               d.inode_ptrs = [c.inode_ptrs EXCEPT ![id] = new]
        PROVE  Aside(c, d, {p}, {id})
    <2> HIDE DEF id
    <2> QED BY <1>1, <1>2, <1>3 DEF Aside, Cache
  <1>4. /\ t.inode_ptrs = [c.inode_ptrs EXCEPT ![id] = set_size(ino, n)]
        /\ t.inode_idx = c.inode_idx /\ t.block = c.block
    BY <1>1, <1>2 DEF truncate, Cache
  <1>5. set_size(ino, n).blocks = ino.blocks
    BY <1>2 DEF set_size, Inode
  <1>6. Aside(c, rmdir(c, p), {p}, {id})
    <2>1. /\ rmdir(c, p).inode_ptrs = [c.inode_ptrs EXCEPT ![id] = delete_inode(ino)]
          /\ rmdir(c, p).inode_idx = c.inode_idx /\ rmdir(c, p).block = c.block
      BY <1>1, <1>2 DEF rmdir, Cache
    <2> HIDE DEF id, ino
    <2> QED BY <1>3, <2>1
  <1>7. Aside(c, Remade(c, p), {p}, {id})
    <2> DEFINE new == [ino EXCEPT !.deleted = FALSE]
    <2>1. /\ Remade(c, p).inode_ptrs = [c.inode_ptrs EXCEPT ![id] = new]
          /\ Remade(c, p).inode_idx = c.inode_idx /\ Remade(c, p).block = c.block
      BY <1>1, <1>2 DEF Remade, Cache
    <2> HIDE DEF id, ino, new
    <2> QED BY <1>3, <2>1
  <1>8. Aside(c, t, {p}, {id})
    <2> HIDE DEF id, ino, t
    <2> QED BY <1>3, <1>4
  <1>9. t.inode_ptrs[id].blocks = ino.blocks
    <2> HIDE DEF id, ino, t
    <2> QED BY <1>1, <1>2, <1>4, <1>5 DEF Cache
  <1> QED BY <1>4, <1>6, <1>7, <1>8, <1>9

\* What remove does to the inodes: p's own is deleted, and those that do not
\* list p stay.
LEMMA AsideRemove ==
  ASSUME NEW c, Sound(c), NEW p \in Paths, in_cache(c, p)
  PROVE  Aside(c, remove(c, p), {}, {c.inode_idx[p]} \cup
               {id \in Ids : c.inode_ptrs[id] # Nil /\ p \in c.inode_ptrs[id].refs})
  <1> DEFINE d == remove(c, p)
             k == c.inode_idx[p]
             unlinked(ino) == IF ino # Nil /\ p \in ino.refs THEN dec_link(ino, p) ELSE ino
             ptrs == [x \in Ids |-> unlinked(c.inode_ptrs[x])]
             gone == delete_inode(ptrs[k])
             K == {k} \cup {id \in Ids : c.inode_ptrs[id] # Nil /\ p \in c.inode_ptrs[id].refs}
  <1>1. c \in Cache
    BY DEF Sound
  <1>2. k \in Ids
    BY <1>1 DEF in_cache, Cache
  <1>3. /\ d.inode_ptrs = [ptrs EXCEPT ![k] = gone]
        /\ d.inode_idx = c.inode_idx /\ d.block = c.block
    BY <1>1, <1>2 DEF remove, Cache
  <1>4. DOMAIN ptrs = Ids /\ \A x \in Ids \ K : ptrs[x] = c.inode_ptrs[x]
    OBVIOUS
  <1>5. k \in K
    OBVIOUS
  <1> HIDE DEF ptrs, gone, d, k, K
  <1>6. \A x \in Ids \ K : d.inode_ptrs[x] = c.inode_ptrs[x]
    BY <1>2, <1>3, <1>4, <1>5
  <1>7. Aside(c, d, {}, K)
    BY <1>3, <1>6 DEF Aside
  <1> QED BY <1>7 DEF d, k, K

\* A written block is in an object of its inode, or a new one.
LEMMA TidyWritten ==
  ASSUME NEW c, Sound(c), Tidy(c), NEW p \in Paths, in_cache(c, p), NEW b \in Blocks, NEW v \in Values,
         NEW d, Written(c, d, c.inode_idx[p], b, v)
  PROVE  Tidy(d) /\ Aside(c, d, {p}, {c.inode_idx[p]})
  <1> DEFINE id == c.inode_idx[p]
             old == c.inode_ptrs[id]
  <1>1. c \in Cache
    BY DEF Sound
  <1>2. id \in Ids /\ old \in Inode /\ old # Nil /\ Filing(p, id)
    BY <1>1, NilAssumption DEF Sound, Resolves, in_cache, get_inode_by_path, Cache, Tidy, Filed
  <1>3. d.inode_idx = c.inode_idx
    BY DEF Written
  <1>4. PICK ref \in Refs, ino \in Inode :
          /\ ref.blk = b
          /\ IF old.blocks[b] # Nil THEN ref = old.blocks[b] ELSE ref \notin InUse(c) /\ ref.id = id
          /\ ino.blocks = [old.blocks EXCEPT ![b] = ref]
          /\ d.inode_ptrs = [c.inode_ptrs EXCEPT ![id] = ino]
          /\ d.block = [c.block EXCEPT ![ref] = v]
    BY DEF Written
  <1> HIDE DEF id, old
  <1>5. /\ d.inode_ptrs[id] = ino /\ \A x \in Ids \ {id} : d.inode_ptrs[x] = c.inode_ptrs[x]
        /\ \A r \in Refs : r # ref => d.block[r] = c.block[r]
    BY <1>1, <1>2, <1>4 DEF Cache
  <1>6. \A y \in Blocks : ino.blocks[y] = IF y = b THEN ref ELSE old.blocks[y]
    BY <1>2, <1>4 DEF Inode
  <1>7. ASSUME NEW x \in Ids \ {id}, NEW r \in Refs, Holds(c, x, r) PROVE r # ref
    <2>1. PICK y \in Blocks : c.inode_ptrs[x] # Nil /\ c.inode_ptrs[x].blocks[y] = r /\ r # Nil
      BY <1>7 DEF Holds
    <2>2. r \in InUse(c) /\ r.blk = y
      BY <2>1, HeldInUse
    <2>3. CASE old.blocks[b] = Nil
      BY <1>4, <2>2, <2>3
    <2>4. CASE old.blocks[b] # Nil /\ y = b
      <3>1. Differ(c, x, id, b)
        BY <1>2 DEF Tidy, Apart
      <3>2. c.inode_ptrs[x].blocks[b] # old.blocks[b]
        BY <1>2, <2>1, <2>4, <3>1 DEF Differ, old
      <3> QED BY <1>4, <2>1, <2>4, <3>2
    <2>5. CASE y # b
      BY <1>4, <2>2, <2>5
    <2> QED BY <2>3, <2>4, <2>5
  <1>8. Aside(c, d, {p}, {id})
    BY <1>3, <1>5, <1>7 DEF Aside
  <1>9. OwnRefs(c, d, id)
    <2>1. c.inode_ptrs[id] = old
      BY DEF old
    <2>2. ASSUME NEW y \in Blocks, ino.blocks[y] # Nil
          PROVE  ino.blocks[y] \notin InUse(c) \/ ino.blocks[y] = old.blocks[y]
      BY <1>4, <1>6, <2>2
    <2> QED BY <1>2, <1>5, <2>1, <2>2 DEF OwnRefs
  <1>10. d.inode_idx[p] = id
    BY <1>3 DEF id
  <1>11. OneInode(c, d, p, id)
    BY <1>2, <1>8, <1>9, <1>10 DEF OneInode
  <1> QED BY <1>2, <1>8, <1>11, TidyOne DEF id

\* write, whether the file was cached or not.
LEMMA TidyWrite ==
  ASSUME NEW c, Sound(c), Tidy(c), DiskOK, NEW p \in Paths, NEW b \in Blocks, NEW v \in Values,
         HasRoom(c, InodeId(c, p))
  PROVE  Tidy(write(c, p, b, v)) /\ Aside(c, write(c, p, b, v), {p}, {InodeId(c, p)})
  <1> DEFINE d == Ready(c, p)
             e == write(c, p, b, v)
             id == InodeId(c, p)
  <1>1. CASE e = c
    <2> HIDE DEF e
    <2> QED BY <1>1 DEF Aside, e
  <1>2. CASE e # c
    <2>1. /\ Sound(d) /\ in_cache(d, p) /\ id \in Ids /\ d.inode_idx[p] = id
          /\ Written(d, e, d.inode_idx[p], b, v)
      BY <1>2, WriteCases
    <2>2. Tidy(d) /\ Aside(c, d, {p}, {id})
      <3>1. CASE in_cache(c, p)
        <4>1. d = Remade(c, p) /\ id = c.inode_idx[p]
          BY <3>1 DEF Ready, InodeId
        <4>2. Tidy(Remade(c, p))
          BY <3>1, RemadeShrinks, TidyShrunk
        <4>3. Aside(c, Remade(c, p), {p}, {c.inode_idx[p]})
          BY <3>1, AsideChanged
        <4> QED BY <4>1, <4>2, <4>3
      <3>2. CASE ~in_cache(c, p)
        <4>1. d = load_from_disk(c, p) /\ id = crypto_hash(p)
          BY <3>2 DEF Ready, InodeId
        <4> HIDE DEF d, id
        <4> QED BY <4>1, TidyLoad DEF id
      <3> QED BY <3>1, <3>2
    <2> HIDE DEF d, e, id
    <2>3. Tidy(e) /\ Aside(d, e, {p}, {id})
      BY <2>1, <2>2, TidyWritten
    <2>4. Aside(c, e, {p} \cup {p}, {id} \cup {id})
      BY <2>2, <2>3, AsideBoth
    <2>5. {p} \cup {p} = {p} /\ {id} \cup {id} = {id}
      OBVIOUS
    <2> QED BY <2>3, <2>4, <2>5 DEF e, id
  <1> QED BY <1>1, <1>2

\* rename's path to is loaded, as e, or made, as d.
Provided(c, e, d, to, mode) ==
  /\ e = IF in_cache(c, to) THEN c ELSE load_from_disk(c, to)
  /\ d = IF in_cache(e, to) THEN e ELSE make_file(e, to, mode)

\* What that leaves of the path from.
ProvidedKeeps(c, d, from, to) ==
  /\ Sound(d) /\ Tidy(d) /\ Aside(c, d, {to}, {crypto_hash(to)})
  /\ d.inode_idx[from] = c.inode_idx[from]
  /\ get_inode_by_path(d, from) = get_inode_by_path(c, from)
  /\ c.inode_idx[from] # crypto_hash(to)
  /\ \A r \in InUse(c) : d.block[r] = c.block[r]

\* What rename starts from: the two paths loaded or made.  The inode of the
\* first is left as it was by what is done for the second.
LEMMA RenameReady ==
  ASSUME LinksApart, NEW c, Sound(c), Tidy(c), DiskOK, NEW from \in Paths, NEW to \in Paths, from # to,
         in_cache(c, from), ~in_cache(c, to) => HasRoom(c, crypto_hash(to)), NEW mode \in Modes,
         NEW e, NEW d, Provided(c, e, d, to, mode)
  PROVE  ProvidedKeeps(c, d, from, to)
  <1> DEFINE id == c.inode_idx[from]
             k == crypto_hash(to)
  <1>0. /\ e = IF in_cache(c, to) THEN c ELSE load_from_disk(c, to)
        /\ d = IF in_cache(e, to) THEN e ELSE make_file(e, to, mode)
    BY DEF Provided
  <1>1. c \in Cache /\ id \in Ids /\ id # k /\ k \in Ids
    BY OtherId, PathId DEF Sound, in_cache, Cache, Tidy
  <1>2. /\ Sound(e) /\ Tidy(e) /\ Aside(c, e, {to}, {k})
        /\ \A r \in InUse(c) : e.block[r] = c.block[r]
    <2>1. CASE in_cache(c, to)
      BY <1>0, <2>1 DEF Aside
    <2>2. CASE ~in_cache(c, to)
      BY <1>0, <2>2, SoundLoad, TidyLoad
    <2> QED BY <2>1, <2>2
  <1>3. Sound(d) /\ Tidy(d) /\ Aside(e, d, {to}, {k}) /\ d.block = e.block
    <2>1. CASE in_cache(e, to)
      BY <1>0, <1>2, <2>1 DEF Aside
    <2>2. CASE ~in_cache(e, to)
      <3>1. Assigned(e, d, to, k)
        BY <1>0, <1>2, <2>2, MakeFileAssigns DEF DiskOK
      <3>2. Filing(to, k)
        BY DEF Filing
      <3> HIDE DEF k
      <3>3. Sound(d) /\ Tidy(d) /\ OneInode(e, d, to, k)
        BY <1>1, <1>2, <3>1, <3>2, SoundAssigned, TidyAssigned
      <3> QED BY <3>1, <3>3 DEF Assigned, OneInode
    <2> QED BY <2>1, <2>2
  <1> HIDE DEF k
  <1>4. Aside(c, d, {to}, {k})
    <2>1. Aside(c, d, {to} \cup {to}, {k} \cup {k})
      BY <1>2, <1>3, AsideBoth
    <2>2. {to} \cup {to} = {to} /\ {k} \cup {k} = {k}
      OBVIOUS
    <2> QED BY <2>1, <2>2
  <1>5. d.inode_idx[from] = id /\ d.inode_ptrs[id] = c.inode_ptrs[id]
    BY <1>1, <1>4 DEF Aside
  <1> QED BY <1>1, <1>2, <1>3, <1>4, <1>5 DEF ProvidedKeeps, get_inode_by_path, k

\* What a rename of a cached file leaves: the new name has the contents, the
\* old one is deleted, and the rest is left aside.
Moved(c, d, from, to) ==
  LET was == get_inode_by_path(c, from)
      old == get_inode_by_path(d, from)
      new == get_inode_by_path(d, to)
  IN  /\ Tidy(d) /\ in_cache(d, to) /\ in_cache(d, from)
      /\ new.blocks = was.blocks /\ new.size = was.size /\ ~new.deleted /\ new.mtime = now
      /\ old.blocks = NoBlocks /\ old.deleted /\ old.mtime = now
      /\ Aside(c, d, {from, to}, {c.inode_idx[from], crypto_hash(to)})
      /\ \A r \in InUse(c) : d.block[r] = c.block[r]

\* rename of a cached file.
LEMMA RenameMoves ==
  ASSUME LinksApart, NEW c, Sound(c), Tidy(c), DiskOK, NEW r \in Renames, in_cache(c, r[1]),
         ~in_cache(c, r[2]) => HasRoom(c, crypto_hash(r[2]))
  PROVE  Moved(c, rename(c, r[1], r[2]), r[1], r[2])
  <1> DEFINE from == r[1]
             to == r[2]
             k == crypto_hash(to)
             c2 == IF in_cache(c, to) THEN c ELSE load_from_disk(c, to)
             mode == get_inode_by_path(c, from).mode
             c3 == IF in_cache(c2, to) THEN c2 ELSE make_file(c2, to, mode)
             that == get_inode_by_path(c3, from)
             gone == delete_inode(that)
             id == c3.inode_idx[from]
             c4 == [c3 EXCEPT !.inode_ptrs[id] = gone]
             ino == RenamedInode(that)
             c5 == [c4 EXCEPT !.inode_idx[to] = crypto_hash(to),
                              !.inode_ptrs[crypto_hash(to)] = ino,
                              !.has_changed = TRUE]
             was == get_inode_by_path(c, from)
  <1>1. from \in Paths /\ to \in Paths /\ from # to
    BY CacheAssumption
  <1>2. k \in Ids /\ k # Nil
    BY <1>1, PathId
  <1>3. rename(c, from, to) = c5
    BY DEF rename, get_inode_by_path
  <1> HIDE DEF c5
  <1>4. c \in Cache /\ was \in Inode /\ was # Nil /\ mode \in Modes
    BY <1>1, NilAssumption DEF Sound, Resolves, Inode
  <1> HIDE DEF mode, was
  <1>5. /\ Sound(c3) /\ Tidy(c3) /\ Aside(c, c3, {to}, {k})
        /\ id = c.inode_idx[from] /\ that = was /\ id # k
        /\ \A x \in InUse(c) : c3.block[x] = c.block[x]
    <2>1. /\ in_cache(c, from) /\ (~in_cache(c, to) => HasRoom(c, crypto_hash(to)))
          /\ Provided(c, c2, c3, to, mode)
      BY DEF Provided
    <2> HIDE DEF c2, c3, from, to
    <2>2. ProvidedKeeps(c, c3, from, to)
      BY <1>1, <1>4, <2>1, RenameReady
    <2> QED BY <2>2 DEF ProvidedKeeps, was
  <1> HIDE DEF c2, c3, that
  <1>6. c3 \in Cache /\ id \in Ids /\ c3.inode_ptrs[id] = was /\ in_cache(c3, from)
    BY <1>1, <1>5 DEF Sound, in_cache, Cache, that, get_inode_by_path
  <1>7. now \in Nat
    BY DEF DiskOK
  <1>8. gone.blocks = NoBlocks /\ gone.deleted /\ gone.mtime = now
    BY <1>4, <1>5, <1>7 DEF delete_inode, Inode
  <1>9. /\ ino.blocks = was.blocks /\ ino.size = was.size /\ ~ino.deleted /\ ino.mtime = now
        /\ ino \in Inode
    BY <1>4, <1>5, <1>7 DEF RenamedInode, Inode
  <1> HIDE DEF gone, ino, id
  <1>10. /\ c5.inode_idx = [c3.inode_idx EXCEPT ![to] = k]
         /\ c5.inode_ptrs = [[c3.inode_ptrs EXCEPT ![id] = gone] EXCEPT ![k] = ino]
         /\ c5.block = c3.block
    BY <1>2, <1>6 DEF Cache, c5
  <1>11. /\ c5.inode_idx[to] = k /\ \A q \in Paths \ {to} : c5.inode_idx[q] = c3.inode_idx[q]
         /\ \A x \in Ids : c5.inode_ptrs[x] = IF x = k THEN ino
                                             ELSE IF x = id THEN gone ELSE c3.inode_ptrs[x]
    BY <1>1, <1>2, <1>6, <1>10 DEF Cache
  <1> HIDE DEF k
  <1>12. Aside(c, c5, {from, to}, {id, k})
    <2>1. Aside(c3, c5, {from, to}, {id, k})
      BY <1>10, <1>11 DEF Aside
    <2>2. Aside(c, c5, {to} \cup {from, to}, {k} \cup {id, k})
      BY <1>5, <2>1, AsideBoth
    <2>3. {to} \cup {from, to} = {from, to} /\ {k} \cup {id, k} = {id, k}
      OBVIOUS
    <2> QED BY <2>2, <2>3
  <1>13. Filed(c5)
    BY <1>5, <1>11 DEF Tidy, Filed, Filing, in_cache, k
  <1>14. Apart(c5)
    <2> DEFINE src(x) == IF x = k THEN id ELSE x
    <2>1. ASSUME NEW x \in Ids, NEW b \in Blocks, c5.inode_ptrs[x] # Nil, c5.inode_ptrs[x].blocks[b] # Nil
          PROVE  /\ x # id /\ src(x) \in Ids /\ c3.inode_ptrs[src(x)] # Nil
                 /\ c5.inode_ptrs[x].blocks[b] = c3.inode_ptrs[src(x)].blocks[b]
      <3>1. x # id
        BY <1>5, <1>8, <1>11, <2>1 DEF NoBlocks
      <3> QED BY <1>4, <1>6, <1>9, <1>11, <2>1, <3>1
    <2>2. ASSUME NEW x \in Ids, NEW y \in Ids, x # y, NEW b \in Blocks PROVE Differ(c5, x, y, b)
      <3>1. SUFFICES ASSUME c5.inode_ptrs[x] # Nil, c5.inode_ptrs[y] # Nil, c5.inode_ptrs[x].blocks[b] # Nil,
                            c5.inode_ptrs[y].blocks[b] # Nil
                     PROVE  c5.inode_ptrs[x].blocks[b] # c5.inode_ptrs[y].blocks[b]
        BY DEF Differ
      <3>2. /\ x # id /\ src(x) \in Ids /\ c3.inode_ptrs[src(x)] # Nil
            /\ c5.inode_ptrs[x].blocks[b] = c3.inode_ptrs[src(x)].blocks[b]
        BY <2>1, <3>1
      <3>3. /\ y # id /\ src(y) \in Ids /\ c3.inode_ptrs[src(y)] # Nil
            /\ c5.inode_ptrs[y].blocks[b] = c3.inode_ptrs[src(y)].blocks[b]
        BY <2>1, <3>1
      <3>4. src(x) # src(y)
        BY <2>2, <3>2, <3>3
      <3> HIDE DEF src
      <3>5. Differ(c3, src(x), src(y), b)
        BY <1>5, <3>2, <3>3, <3>4 DEF Tidy, Apart
      <3> QED BY <3>1, <3>2, <3>3, <3>5 DEF Differ
    <2> QED BY <2>2 DEF Apart
  <1>15. /\ get_inode_by_path(c5, to) = ino /\ in_cache(c5, to)
         /\ get_inode_by_path(c5, from) = gone /\ in_cache(c5, from)
    BY <1>1, <1>2, <1>5, <1>6, <1>11 DEF get_inode_by_path, in_cache, id
  <1>16. get_inode_by_path(c, from) = was /\ k = crypto_hash(to) /\ id = c.inode_idx[from]
    BY <1>5 DEF was, k
  <1>17. \A x \in InUse(c) : c5.block[x] = c.block[x]
    BY <1>5, <1>10
  <1> HIDE DEF from, to
  <1>18. Moved(c, c5, from, to)
    BY <1>8, <1>9, <1>12, <1>13, <1>14, <1>15, <1>16, <1>17 DEF Moved, Tidy
  <1> QED BY <1>3, <1>18 DEF from, to

\* rename, from where the file to be renamed is cached.
RenameLoaded(c, from, to) ==
  LET c2 == IF in_cache(c, to) THEN c ELSE load_from_disk(c, to)
      mode == get_inode_by_path(c, from).mode
      c3 == IF in_cache(c2, to) THEN c2 ELSE make_file(c2, to, mode)
      that == get_inode_by_path(c3, from)
      c4 == [c3 EXCEPT !.inode_ptrs[c3.inode_idx[from]] = delete_inode(@)]
  IN  [c4 EXCEPT !.inode_idx[to] = crypto_hash(to),
                 !.inode_ptrs[crypto_hash(to)] = RenamedInode(that),
                 !.has_changed = TRUE]

\* rename loads the file first, and ends when it cannot.
LEMMA RenameLoads ==
  ASSUME NEW c, NEW from, NEW to
  PROVE  LET d == IF in_cache(c, from) THEN c ELSE load_from_disk(c, from)
         IN  rename(c, from, to) = IF in_cache(d, from) THEN RenameLoaded(d, from, to) ELSE c
  <1> DEFINE d == IF in_cache(c, from) THEN c ELSE load_from_disk(c, from)
  <1>1. rename(c, from, to) = IF ~in_cache(d, from) THEN c ELSE RenameLoaded(d, from, to)
    BY DEF rename, RenameLoaded
  <1> QED BY <1>1

\* rename, whether the file was cached or not.
LEMMA TidyRename ==
  ASSUME LinksApart, NEW c, Sound(c), Tidy(c), DiskOK, NEW r \in Renames,
         HasRoom(c, InodeId(c, r[1])), HasRoom(c, InodeId(c, r[2])),
         NEW d, d = IF in_cache(c, r[1]) THEN c ELSE load_from_disk(c, r[1])
  PROVE  LET e == rename(c, r[1], r[2])
         IN  /\ Sound(d)
             /\ in_cache(d, r[1]) => Moved(d, e, r[1], r[2])
             /\ ~in_cache(d, r[1]) => e = c
             /\ Tidy(e) /\ Aside(c, e, {r[1], r[2]}, {InodeId(c, r[1]), crypto_hash(r[2])})
  <1> DEFINE from == r[1]
             to == r[2]
             e == rename(c, from, to)
             k == crypto_hash(to)
             id == InodeId(c, from)
  <1>1. from \in Paths /\ to \in Paths /\ from # to
    BY CacheAssumption
  <1>2. Sound(d) /\ Tidy(d) /\ Aside(c, d, {from}, {id}) /\ (~in_cache(d, to) => HasRoom(d, k))
    BY <1>1, LoadOther, TidyEnsured
  <1>3. CASE in_cache(d, from)
    <2>1. e = rename(d, from, to)
      <3>1. e = IF in_cache(d, from) THEN RenameLoaded(d, from, to) ELSE c
        BY RenameLoads
      <3>2. rename(d, from, to) = RenameLoaded(d, from, to)
        BY <1>3, RenameLoads
      <3> QED BY <1>3, <3>1, <3>2
    <2>2. Moved(d, rename(d, r[1], r[2]), r[1], r[2])
      BY <1>2, <1>3, RenameMoves
    <2>3. Moved(d, e, from, to)
      BY <2>1, <2>2
    <2>4. d.inode_idx[from] = id
      <3>1. CASE in_cache(c, from)
        BY <3>1 DEF InodeId
      <3>2. CASE ~in_cache(c, from)
        <4>1. get_latest_inode(from, TRUE) # Nil
          BY <1>3, <3>2 DEF load_from_disk
        <4>2. d = load_from_disk(c, from) /\ id = crypto_hash(from) /\ HasRoom(c, crypto_hash(from))
          BY <3>2 DEF InodeId
        <4> HIDE DEF from, id
        <4>3. Loaded(c, d, from) /\ c \in Cache
          BY <1>1, <4>1, <4>2, LoadFields DEF Sound
        <4> QED BY <1>1, <4>2, <4>3 DEF Loaded, Cache
      <3> QED BY <3>1, <3>2
    <2> HIDE DEF e, from, to, k, id
    <2>5. Tidy(e) /\ Aside(d, e, {from, to}, {id, k})
      BY <2>3, <2>4 DEF Moved, k
    <2>6. Aside(c, e, {from} \cup {from, to}, {id} \cup {id, k})
      BY <1>2, <2>5, AsideBoth
    <2>7. {from} \cup {from, to} = {from, to} /\ {id} \cup {id, k} = {id, k}
      OBVIOUS
    <2>8. Aside(c, e, {from, to}, {id, k})
      BY <2>6, <2>7
    <2> QED BY <1>2, <1>3, <2>3, <2>5, <2>8 DEF e, from, to, id, k
  <1>4. CASE ~in_cache(d, from)
    <2>1. e = c
      BY <1>4 DEF rename
    <2> HIDE DEF e
    <2>2. Aside(c, e, {from, to}, {id, k})
      BY <2>1 DEF Aside
    <2> QED BY <1>2, <1>4, <2>1, <2>2 DEF e
  <1> QED BY <1>3, <1>4
-----------------------------------------------------------------------------
(* Renames: the requests.                                                  *)

\* Freeing objects nobody holds changes no file.
LEMMA ViewFreed ==
  ASSUME NEW c, Sound(c), NEW p \in Paths, in_cache(c, p)
  PROVE  /\ View(Freed(c), p) = View(c, p)
         /\ get_inode_by_path(Freed(c), p) = get_inode_by_path(c, p)
         /\ \A b \in Blocks : get_inode_by_path(c, p).blocks[b] # Nil =>
              get_inode_by_path(c, p).blocks[b] \in InUse(c)
  <1> DEFINE d == Freed(c)
             ino == get_inode_by_path(c, p)
  <1>1. /\ d.inode_idx = c.inode_idx /\ d.inode_ptrs = c.inode_ptrs
        /\ \A r \in InUse(c) : d.block[r] = c.block[r]
    BY FreedFields DEF Sound
  <1>2. \A b \in Blocks : ino.blocks[b] # Nil => ino.blocks[b] \in InUse(c)
    <2>1. c.inode_idx[p] \in Ids /\ ino = c.inode_ptrs[c.inode_idx[p]] /\ ino \in Inode /\ ino # Nil
      BY NilAssumption DEF Sound, Resolves, in_cache, get_inode_by_path, Cache
    <2> HIDE DEF ino
    <2>2. \A b \in Blocks : ino.blocks[b] # Nil => ino.blocks[b] \in Refs /\ ino.blocks[b].blk = b
      BY <2>1 DEF Sound, Placed, Inode
    <2> QED BY <2>1, <2>2 DEF InUse
  <1> HIDE DEF d
  <1>3. get_inode_by_path(d, p) = ino
    BY <1>1 DEF get_inode_by_path
  <1> HIDE DEF ino
  <1>4. View(d, p) = View(c, p)
    BY <1>1, <1>2, <1>3 DEF View, ino
  <1> QED BY <1>2, <1>3, <1>4 DEF d, ino

\* A cache without paths and inodes is tidy, and has no file.
LEMMA TidyEmpty ==
  /\ \A size : Tidy(EmptyCache(size)) /\ \A q \in Paths : ~in_cache(EmptyCache(size), q)
  /\ \A c : Tidy(Flushed(c)) /\ \A q \in Paths : ~in_cache(Flushed(c), q)
  BY DEF Tidy, Filed, Apart, Differ, in_cache, EmptyCache, Flushed

\* The end of a request: d is freed, or flushed.
Ends(d) == cache' = d \/ cache' = Freed(d) \/ (Tidy(cache') /\ \A q \in Paths : ~in_cache(cache', q))

\* The end of write and truncate.
LEMMA EndsFlush ==
  ASSUME NEW c, flush_to_shdw(c)
  PROVE  Ends(c)
  BY TidyEmpty DEF flush_to_shdw, Ends

\* The end of a process.
LEMMA EndsDown ==
  ASSUME NEW c, Down
  PROVE  Ends(c)
  BY TidyEmpty DEF Down, Ends

\* A request that ends with a tidy cache, and leaves a file aside.
LEMMA EndsTidy ==
  ASSUME NEW d, Sound(d), Tidy(d), Ends(d)
  PROVE  Tidy(cache')
  BY TidyFreed DEF Ends

\* What a file looks like after a request.
Same(q) == in_cache(cache', q) => View(cache', q) = View(cache, q)

\* A file left aside looks the same.
LEMMA EndsSame ==
  ASSUME NEW d, Sound(cache), Sound(d), Tidy(d), Ends(d), NEW q \in Paths, in_cache(cache, q),
         in_cache(d, q), View(d, q) = View(cache, q)
  PROVE  Same(q)
  BY ViewFreed DEF Ends, Same

\* Every request keeps the cache tidy, and changes no file but those it is
\* to change.
LEMMA NextTidy ==
  ASSUME LinksApart, IInv, Tidy(cache), Next
  PROVE  Tidy(cache') /\ (OwnTexts => \A q \in Paths : in_cache(cache, q) => Same(q) \/ Changes(q))
  <1>0. Sound(cache) /\ DiskOK /\ now \in Nat
    BY DEF IInv, TypeOK, Tree, DiskOK
  <1> USE <1>0
  <1> DEFINE Good == Tidy(cache') /\ (OwnTexts => \A q \in Paths : in_cache(cache, q) => Same(q) \/ Changes(q))
  <1>a. ASSUME NEW d, Sound(d), Tidy(d), Ends(d), NEW P, NEW K, Aside(cache, d, P, K),
               OwnTexts => \A q \in Paths : in_cache(cache, q) =>
                 Changes(q) \/ (q \notin P /\ cache.inode_idx[q] \notin K)
        PROVE  Good
    <2>1. Tidy(cache')
      BY <1>a, EndsTidy
    <2>2. ASSUME OwnTexts, NEW q \in Paths, in_cache(cache, q), ~Changes(q) PROVE Same(q)
      <3>1. q \notin P /\ cache.inode_idx[q] \notin K
        BY <1>a, <2>2
      <3>2. in_cache(d, q) /\ View(d, q) = View(cache, q)
        BY <1>a, <2>2, <3>1, AsideView
      <3> QED BY <1>a, <2>2, <3>2, EndsSame
    <2> QED BY <2>1, <2>2
  <1>b. ASSUME NEW p \in Paths, NEW q \in Paths, in_cache(cache, q), getattr(p) = Nil PROVE q # p
    BY <1>b, NilAssumption DEF getattr, Sound, Resolves, Inode
  <1>c. ASSUME UNCHANGED cache PROVE Good
    BY <1>c DEF Same
  <1>d. ASSUME Down PROVE Good
    BY <1>d, TidyEmpty DEF Down, Same
  <1>e. ASSUME NEW p \in Paths, NEW id \in Ids, NEW d, getattr(p) = Nil, Filing(p, id),
               Assigned(cache, d, p, id), cache' = Freed(d)
        PROVE  Good
    <2>1. Sound(d) /\ Tidy(d) /\ OneInode(cache, d, p, id)
      BY <1>e, SoundAssigned, TidyAssigned
    <2>2. Ends(d) /\ Aside(cache, d, {p}, {id})
      BY <1>e, <2>1 DEF Ends, OneInode
    <2>3. ASSUME OwnTexts, NEW q \in Paths, in_cache(cache, q) PROVE q \notin {p} /\ cache.inode_idx[q] \notin {id}
      <3>1. q # p
        BY <1>b, <1>e, <2>3
      <3>2. cache.inode_idx[q] # id
        BY <1>e, <2>3, <3>1, OtherId DEF Filing, Tidy
      <3> QED BY <3>1, <3>2
    <2> HIDE DEF Good
    <2> QED BY <1>a, <2>1, <2>2, <2>3
  <1>f. ASSUME NEW p \in Paths, NEW mode \in Modes, getattr(p) = Nil, cache' = Freed(make_file(cache, p, mode))
        PROVE  Good
    <2>1. Assigned(cache, make_file(cache, p, mode), p, crypto_hash(p)) /\ Filing(p, crypto_hash(p))
      BY MakeFileAssigns DEF Filing
    <2>2. crypto_hash(p) \in Ids
      BY PathId
    <2> HIDE DEF Good
    <2> QED BY <1>e, <1>f, <2>1, <2>2
  <1>g. ASSUME NEW p \in Paths, Loadable(p),
               Ends(IF in_cache(cache, p) THEN cache ELSE load_from_disk(cache, p))
        PROVE  Good
    <2> DEFINE d == IF in_cache(cache, p) THEN cache ELSE load_from_disk(cache, p)
    <2>1. CASE in_cache(cache, p)
      <3>1. Aside(cache, cache, {}, {}) /\ d = cache
        BY <2>1 DEF Aside
      <3> HIDE DEF Good
      <3> QED BY <1>a, <1>g, <3>1
    <2>2. CASE ~in_cache(cache, p)
      <3>1. HasRoom(cache, InodeId(cache, p)) /\ InodeId(cache, p) = crypto_hash(p)
        BY <1>g, <2>2 DEF Loadable, InodeId
      <3> HIDE DEF d
      <3>2. Sound(d) /\ Tidy(d) /\ Aside(cache, d, {p}, {crypto_hash(p)})
        BY <3>1, TidyEnsured DEF d
      <3>3. ASSUME NEW q \in Paths, in_cache(cache, q)
            PROVE  q \notin {p} /\ cache.inode_idx[q] \notin {crypto_hash(p)}
        BY <2>2, <3>3, OtherId DEF Tidy
      <3> HIDE DEF Good
      <3> QED BY <1>a, <1>g, <3>2, <3>3 DEF d
    <2> QED BY <2>1, <2>2
  <1> HIDE DEF Good
  <1>2. ASSUME NEW p \in FilePaths, zippyfs_mknod(p) PROVE Good
    BY <1>2, <1>f DEF zippyfs_mknod, Paths, Modes
  <1>3. ASSUME NEW p \in DirPaths, zippyfs_mkdir(p) PROVE Good
    BY <1>3, <1>f DEF zippyfs_mkdir, Paths, Modes
  <1>4. ASSUME NEW p \in Paths, zippyfs_open(p) PROVE Good
    BY <1>4, <1>g DEF zippyfs_open, Ends
  <1>5. ASSUME NEW p \in Paths, close(p) PROVE Good
    BY <1>5, <1>c DEF close
  <1>6. ASSUME NEW p \in Paths, zippyfs_unlink(p) PROVE Good
    <2> DEFINE d == remove(cache, p)
               K == {cache.inode_idx[p]} \cup
                      {id \in Ids : cache.inode_ptrs[id] # Nil /\ p \in cache.inode_ptrs[id].refs}
    <2>1. in_cache(cache, p) /\ Ends(d)
      BY <1>6 DEF zippyfs_unlink, Ends
    <2>2. Sound(d) /\ Tidy(d)
      BY <2>1, RemoveShrinks, SoundShrunk, TidyShrunk
    <2>3. Aside(cache, d, {}, K)
      BY <2>1, AsideRemove
    <2>4. ASSUME OwnTexts, NEW q \in Paths, in_cache(cache, q), ~Changes(q)
          PROVE  q \notin {} /\ cache.inode_idx[q] \notin K
      <3>1. p # q /\ p \notin get_inode_by_path(cache, q).refs
        BY <1>6, <2>4 DEF Changes
      <3>2. cache.inode_idx[q] # cache.inode_idx[p]
        BY <2>1, <2>4, <3>1, OtherId DEF Tidy, InodeId
      <3> QED BY <3>1, <3>2 DEF get_inode_by_path
    <2> HIDE DEF d, K
    <2> QED BY <1>a, <2>1, <2>2, <2>3, <2>4
  <1>7. ASSUME NEW p \in Paths, zippyfs_rmdir(p) PROVE Good
    <2> DEFINE d == rmdir(cache, p)
    <2>1. in_cache(cache, p) /\ Ends(d)
      BY <1>7 DEF zippyfs_rmdir, Ends
    <2>2. Sound(d) /\ Tidy(d)
      BY <2>1, RmdirShrinks, SoundShrunk, TidyShrunk
    <2>3. Aside(cache, d, {p}, {cache.inode_idx[p]})
      <3>1. 0 \in Nat
        OBVIOUS
      <3> QED BY <2>1, <3>1, AsideChanged
    <2>4. ASSUME OwnTexts, NEW q \in Paths, in_cache(cache, q), ~Changes(q)
          PROVE  q \notin {p} /\ cache.inode_idx[q] \notin {cache.inode_idx[p]}
      <3>1. p # q
        BY <1>7, <2>4 DEF Changes
      <3> QED BY <2>1, <2>4, <3>1, OtherId DEF Tidy, InodeId
    <2> HIDE DEF d
    <2> QED BY <1>a, <2>1, <2>2, <2>3, <2>4
  <1>8. ASSUME NEW p \in Paths, NEW b \in Blocks, zippyfs_read(p, b) PROVE Good
    <2> DEFINE c == IF in_cache(cache, p) THEN cache ELSE load_from_disk(cache, p)
    <2> HIDE DEF c
    <2>1. Loadable(p) /\ (Down \/ cache' = c)
      BY <1>8, Zenon DEF zippyfs_read, c
    <2> QED BY <1>d, <1>g, <2>1 DEF Ends, c
  <1>9. ASSUME NEW p \in Paths, NEW b \in Blocks, NEW v \in Values, zippyfs_write(p, b, v) PROVE Good
    <2> DEFINE d == write(cache, p, b, v)
    <2>1. HasRoom(cache, InodeId(cache, p)) /\ Ends(d)
      BY <1>9, EndsFlush DEF zippyfs_write, Loadable, InodeId
    <2>2. Sound(d) /\ Tidy(d) /\ Aside(cache, d, {p}, {InodeId(cache, p)})
      BY <2>1, SoundWrite, TidyWrite
    <2>3. ASSUME OwnTexts, NEW q \in Paths, in_cache(cache, q), ~Changes(q)
          PROVE  q \notin {p} /\ cache.inode_idx[q] \notin {InodeId(cache, p)}
      <3>1. p # q
        BY <1>9, <2>3 DEF Changes
      <3> QED BY <2>3, <3>1, OtherId DEF Tidy
    <2> HIDE DEF d
    <2> QED BY <1>a, <2>1, <2>2, <2>3
  <1>10. ASSUME NEW p \in Paths, NEW n \in Lengths, zippyfs_truncate(p, n) PROVE Good
    <2> DEFINE d == truncate(cache, p, n)
               id == cache.inode_idx[p]
    <2>1. n \in Nat /\ Ends(d)
      BY <1>10, CacheAssumption, EndsFlush DEF zippyfs_truncate
    <2>2. Sound(d) /\ Tidy(d)
      BY <2>1, TruncateShrinks, SoundShrunk, TidyShrunk
    <2>3. ASSUME NEW q \in Paths, in_cache(cache, q) PROVE in_cache(d, q) /\ View(d, q) = View(cache, q)
      <3>1. CASE ~in_cache(cache, p)
        BY <2>3, <3>1 DEF truncate
      <3>2. CASE in_cache(cache, p)
        <4>1. /\ Aside(cache, d, {p}, {id}) /\ d.inode_idx = cache.inode_idx /\ d.block = cache.block
              /\ d.inode_ptrs[id].blocks = cache.inode_ptrs[id].blocks
          BY <2>1, <3>2, AsideChanged
        <4>2. cache.inode_idx[q] \in Ids
          BY <2>3 DEF Sound, in_cache, Cache
        <4> HIDE DEF d, id
        <4>3. d.inode_ptrs[cache.inode_idx[q]].blocks = cache.inode_ptrs[cache.inode_idx[q]].blocks
          BY <4>1, <4>2 DEF Aside
        <4> QED BY <2>3, <4>1, <4>3 DEF View, get_inode_by_path, in_cache
      <3> QED BY <3>1, <3>2
    <2> HIDE DEF d
    <2>4. Tidy(cache') /\ \A q \in Paths : in_cache(cache, q) => Same(q)
      BY <2>1, <2>2, <2>3, EndsTidy, EndsSame
    <2> QED BY <2>4 DEF Good
  <1>11. ASSUME NEW l \in Links, zippyfs_symlink(l[1], l[2]) PROVE Good
    <2>1. l[1] \in Names /\ l[2] \in Paths /\ crypto_hash(l[1]) \in Ids /\ Filing(l[2], crypto_hash(l[1]))
      BY CacheAssumption, HashId DEF Filing
    <2>2. Assigned(cache, symlink(cache, l[1], l[2]), l[2], crypto_hash(l[1]))
      BY <2>1, SymlinkAssigns
    <2> QED BY <1>11, <1>e, <2>1, <2>2 DEF zippyfs_symlink
  <1>12. ASSUME NEW r \in Renames, zippyfs_rename(r[1], r[2]) PROVE Good
    <2> DEFINE d == rename(cache, r[1], r[2])
               K == {InodeId(cache, r[1]), crypto_hash(r[2])}
    <2>1. r[1] \in Paths /\ r[2] \in Paths /\ r[1] # r[2]
      BY CacheAssumption
    <2>2. /\ HasRoom(cache, InodeId(cache, r[1])) /\ HasRoom(cache, InodeId(cache, r[2]))
          /\ Ends(d)
      BY <1>12 DEF zippyfs_rename, Loadable, InodeId, Ends
    <2>3. Sound(d)
      BY <2>1, <2>2, SoundRename
    <2>4. Tidy(d) /\ Aside(cache, d, {r[1], r[2]}, K)
      BY <2>2, TidyRename
    <2>5. ASSUME OwnTexts, NEW q \in Paths, in_cache(cache, q), ~Changes(q)
          PROVE  q \notin {r[1], r[2]} /\ cache.inode_idx[q] \notin K
      <3>1. q # r[1] /\ q # r[2]
        BY <1>12, <2>5 DEF Changes
      <3> QED BY <2>1, <2>5, <3>1, OtherId DEF Tidy
    <2> HIDE DEF d, K
    <2> QED BY <1>a, <2>2, <2>3, <2>4, <2>5
  <1>13. ASSUME NEW p \in Paths, lookup_fault(p) PROVE Good
    BY <1>13, <1>d DEF lookup_fault
  <1>14. ASSUME zippyfs_init PROVE Good
    BY <1>14, TidyEmpty DEF zippyfs_init, Good, Same
  <1>15. ASSUME zippyfs_readdir PROVE Good
    BY <1>15, <1>c DEF zippyfs_readdir
  <1>16. ASSUME zippyfs_destroy PROVE Good
    BY <1>16, <1>d DEF zippyfs_destroy
  <1>17. ASSUME kill PROVE Good
    BY <1>17, <1>d DEF kill
  <1>18. Good
    BY <1>2, <1>3, <1>4, <1>5, <1>6, <1>7, <1>8, <1>9, <1>10, <1>11, <1>12, <1>13, <1>14, <1>15,
       <1>16, <1>17 DEF Next
  <1> QED BY <1>18 DEF Good

\* The invariant holds before the first mount, and so always.
LEMMA NInvHolds ==
  ASSUME LinksApart
  PROVE  Spec => []NInv
  <1>1. Init => NInv
    BY InitIInv, TidyEmpty DEF NInv, Init
  <1>2. NInv /\ [Next]_vars => NInv'
    <2> SUFFICES ASSUME NInv, [Next]_vars PROVE NInv'
      OBVIOUS
    <2>1. IInv' /\ IInv /\ Tidy(cache)
      BY NextIInv DEF NInv
    <2>2. CASE Next
      BY <2>1, <2>2, NextTidy DEF NInv, Tidy, Filed, Filing, Apart, Differ
    <2>3. CASE UNCHANGED vars
      BY <2>1, <2>3 DEF NInv, vars, Tidy, Filed, Filing, Apart, Differ, in_cache
    <2> QED BY <2>2, <2>3
  <1> QED BY <1>1, <1>2, PTL DEF Spec

\* As long as no link's text is a path, a rename moves the contents and the
\* length of a file, cached or loaded for it, to the new name, loaded or made
\* for it, and leaves a deleted inode without blocks under the old one
\* (BlockCache::rename).
THEOREM RenamesMoveContents ==
  ASSUME LinksApart
  PROVE  Spec => RenameMovesContents
  <1> DEFINE First(from) == IF in_cache(cache, from) THEN cache ELSE load_from_disk(cache, from)
  <1>1. ASSUME NInv, NEW r \in Renames, zippyfs_rename(r[1], r[2]), in_cache(First(r[1]), r[1])
        PROVE  LET c == First(r[1])
                   old == get_inode_by_path(cache', r[1])
                   new == get_inode_by_path(cache', r[2])
               IN  /\ View(cache', r[2]) = View(c, r[1]) /\ View(cache', r[1]) = NoBlocks
                   /\ new.size = get_inode_by_path(c, r[1]).size
                   /\ ~new.deleted /\ old.deleted
                   /\ new.mtime = now /\ old.mtime = now
    <2> DEFINE d == rename(cache, r[1], r[2])
               c == First(r[1])
    <2>1. r[1] \in Paths /\ r[2] \in Paths /\ r[1] # r[2]
      BY CacheAssumption
    <2>2. Sound(cache) /\ Tidy(cache) /\ DiskOK
      BY <1>1 DEF NInv, IInv, TypeOK, Tree, DiskOK
    <2>3. /\ HasRoom(cache, InodeId(cache, r[1])) /\ HasRoom(cache, InodeId(cache, r[2]))
          /\ cache' = Freed(d)
      BY <1>1 DEF zippyfs_rename, Loadable, InodeId
    <2>4. Sound(d)
      BY <2>1, <2>2, <2>3, SoundRename
    <2>5. Sound(c) /\ Moved(c, d, r[1], r[2])
      BY <1>1, <2>2, <2>3, TidyRename
    <2>6. in_cache(c, r[1])
      BY <1>1
    <2> HIDE DEF d, c
    <2> DEFINE was == get_inode_by_path(c, r[1])
               old == get_inode_by_path(d, r[1])
               new == get_inode_by_path(d, r[2])
    <2>7. /\ in_cache(d, r[2]) /\ in_cache(d, r[1])
          /\ new.blocks = was.blocks /\ new.size = was.size /\ ~new.deleted /\ new.mtime = now
          /\ old.blocks = NoBlocks /\ old.deleted /\ old.mtime = now
          /\ \A x \in InUse(c) : d.block[x] = c.block[x]
      BY <2>5 DEF Moved
    <2>8. /\ View(cache', r[2]) = View(d, r[2]) /\ get_inode_by_path(cache', r[2]) = new
          /\ View(cache', r[1]) = View(d, r[1]) /\ get_inode_by_path(cache', r[1]) = old
      BY <2>1, <2>3, <2>4, <2>7, ViewFreed
    <2>9. \A b \in Blocks : was.blocks[b] # Nil => was.blocks[b] \in InUse(c)
      BY <2>1, <2>5, <2>6, ViewFreed
    <2> HIDE DEF old, new, was
    <2>10. View(d, r[2]) = View(c, r[1])
      BY <2>7, <2>9 DEF View, was, new
    <2>11. View(d, r[1]) = NoBlocks
      BY <2>7 DEF View, old, NoBlocks
    <2> QED BY <2>7, <2>8, <2>10, <2>11 DEF was, c
  <1>2. NInv =>
          [\A r \in Renames :
             LET from == r[1] to == r[2]
                 c == First(from)
                 old == get_inode_by_path(cache', from)
                 new == get_inode_by_path(cache', to)
             IN  zippyfs_rename(from, to) /\ in_cache(c, from) =>
                   /\ View(cache', to) = View(c, from) /\ View(cache', from) = NoBlocks
                   /\ new.size = get_inode_by_path(c, from).size
                   /\ ~new.deleted /\ old.deleted
                   /\ new.mtime = now /\ old.mtime = now]_vars
    BY <1>1
  <1> QED BY <1>2, NInvHolds, PTL DEF RenameMovesContents

\* As long as the texts of links are neither paths nor shared, what a reader
\* of a cached file sees changes only in the requests on that file, in
\* renames of it or onto it, and in unlinks of names it lists: the inodes of
\* two paths never share a Block object, although rename hands the objects of
\* one inode to another (BlockCache::rename, write, load_from_disk).
THEOREM OthersKept ==
  ASSUME LinksApart, OwnTexts
  PROVE  Spec => OthersKeepBlocks
  <1>1. ASSUME NInv, [Next]_vars, NEW q \in Paths, in_cache(cache, q), in_cache(cache', q),
               View(cache', q) # View(cache, q)
        PROVE  Changes(q)
    <2>1. CASE Next
      BY <1>1, <2>1, NextTidy DEF NInv, Same
    <2>2. CASE UNCHANGED vars
      BY <1>1, <2>2 DEF vars
    <2> QED BY <1>1, <2>1, <2>2
  <1>2. NInv /\ [Next]_vars =>
          [\A q \in Paths :
             in_cache(cache, q) /\ in_cache(cache', q) /\ View(cache', q) # View(cache, q) => Changes(q)]_vars
    BY <1>1
  <1> QED BY <1>2, NInvHolds, PTL DEF OthersKeepBlocks, Spec
=============================================================================
