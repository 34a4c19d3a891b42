-------------------------- MODULE BlockCacheProofs --------------------------
(***************************************************************************)
(* The type invariant of the block cache, for all instances.  TypeOK is    *)
(* not inductive: that inode_idx_ leads to inodes, that a Block object is  *)
(* used for the place it was made for, and that a dirty block has contents *)
(* is needed to know what a request, a load or a flush makes of it.        *)
(* The methods are handled by kind: they assign a new inode to a path,     *)
(* shrink inodes, load one from disk, or write one block.                  *)
(***************************************************************************)
EXTENDS BlockCache, WellFoundedInduction, TLAPS

\* Every non-empty set of naturals has a least element.
LEMMA Least ==
  ASSUME NEW T, T \subseteq Nat, T # {}
  PROVE  \E x \in T : \A y \in T : x <= y
  <1> DEFINE R == OpToRel(<, Nat)
  <1>1. IsWellFoundedOn(R, Nat)
    BY NatLessThanWellFounded
  <1>2. \A x, y \in Nat : <<y, x>> \in R <=> y < x
    BY DEF OpToRel
  <1> HIDE DEF R
  <1>3. PICK x \in T : \A y \in T : ~(<<y, x>> \in R)
    BY <1>1, WFMin
  <1>4. x \in Nat /\ \A y \in T : y \in Nat
    BY <1>3
  <1>5. \A y \in T : ~(y < x)
    BY <1>2, <1>3, <1>4
  <1> QED BY <1>3, <1>4, <1>5

\* Every non-empty set of places of a sequence has a last one.
LEMMA Greatest ==
  ASSUME NEW n \in Nat, NEW S, S \subseteq 1..n, S # {}
  PROVE  \E i \in S : \A j \in S : j <= i
  <1> DEFINE T == {n - i : i \in S}
  <1>1. T \subseteq Nat /\ T # {}
    <2>1. \A i \in S : n - i \in Nat
      OBVIOUS
    <2>2. PICK i \in S : TRUE
      OBVIOUS
    <2>3. n - i \in T
      OBVIOUS
    <2> QED BY <2>1, <2>3
  <1>2. PICK x \in T : \A y \in T : x <= y
    BY <1>1, Least
  <1>3. PICK i \in S : x = n - i
    BY <1>2
  <1>4. ASSUME NEW j \in S PROVE j <= i
    <2>1. n - i <= n - j
      BY <1>2, <1>3
    <2>2. i \in Int /\ j \in Int
      OBVIOUS
    <2> QED BY <2>1, <2>2
  <1> QED BY <1>4
-----------------------------------------------------------------------------
(* The invariant.                                                          *)

\* What inode_idx_ points to exists, and a Block object is in use for the
\* place it was made for; what a flush will write has contents.
Resolves(c) == \A p \in Paths : in_cache(c, p) => get_inode_by_path(c, p) \in Inode

Placed(c) ==
  \A id \in Ids, b \in Blocks :
    /\ c.inode_ptrs[id] # Nil /\ c.inode_ptrs[id].blocks[b] # Nil
         => c.inode_ptrs[id].blocks[b].blk = b
    /\ c.dirty_block[id][b] # Nil => c.dirty_block[id][b].ref.blk = b

Filled(c) ==
  \A id \in Ids, b \in Blocks :
    c.dirty_block[id][b] # Nil => c.block[c.dirty_block[id][b].ref] \in Values

Sound(c) == c \in Cache /\ Resolves(c) /\ Placed(c) /\ Filled(c)

IInv == TypeOK /\ Sound(cache)
-----------------------------------------------------------------------------
(* The loader.  Its loops keep the best version seen so far; that there is *)
(* a best one follows by taking a least counterexample, since the provers  *)
(* do no induction over a loop.                                            *)

\* Version i wins over version j: by its time m, then by its rank r.
Beats(m, r, i, j) == m[j] < m[i] \/ (m[j] = m[i] /\ r[j] <= r[i])

\* The loader's loops end with a winner.
LEMMA Winner ==
  ASSUME NEW n \in Nat, NEW S, S \subseteq 1..n, S # {},
         NEW m, \A i \in S : m[i] \in Nat,
         NEW r, \A i \in S : r[i] \in Int
  PROVE  \E i \in S : \A j \in S : Beats(m, r, i, j)
  <1> DEFINE Bad(U) == U # {} /\ ~ \E i \in U : \A j \in U : Beats(m, r, i, j)
             T == {k \in Nat : \E U \in SUBSET S : U \subseteq 1..k /\ Bad(U)}
  <1> SUFFICES ASSUME Bad(S) PROVE FALSE
    OBVIOUS
  <1>1. n \in T
    OBVIOUS
  <1>2. PICK k \in T : \A y \in T : k <= y
    BY <1>1, Least
  <1>3. PICK U \in SUBSET S : U \subseteq 1..k /\ Bad(U)
    BY <1>2
  <1>4. k # 0
    <2>1. PICK x \in U : TRUE
      BY <1>3
    <2> QED BY <1>3, <2>1
  <1>5. k - 1 \notin T /\ k - 1 \in Nat
    <2>1. k \in Nat /\ k - 1 \in Nat
      BY <1>4
    <2> HIDE DEF T
    <2> QED BY <1>2, <2>1
  <1>6. ~Bad(U \ {k})
    <2>1. U \ {k} \subseteq 1..(k - 1)
      BY <1>3, <1>5
    <2> QED BY <1>5, <2>1
  <1>7. k \in U
    <2>1. k \notin U => U \ {k} = U
      OBVIOUS
    <2> HIDE DEF Bad
    <2> QED BY <1>3, <1>6, <2>1
  <1>8. m[k] \in Nat /\ r[k] \in Int
    BY <1>7
  <1>9. CASE U \ {k} = {}
    <2>1. \A j \in U : j = k
      BY <1>9
    <2>2. Beats(m, r, k, k)
      BY <1>8 DEF Beats
    <2> QED BY <1>3, <1>7, <2>1, <2>2
  <1>10. CASE U \ {k} # {}
    <2>1. PICK i \in U \ {k} : \A j \in U \ {k} : Beats(m, r, i, j)
      BY <1>6, <1>10
    <2>2. \A j \in U : m[j] \in Nat /\ r[j] \in Int
      OBVIOUS
    <2>3. CASE Beats(m, r, i, k)
      BY <1>3, <2>1, <2>3
    <2>4. CASE ~Beats(m, r, i, k)
      <3>1. m[i] < m[k] \/ (m[i] = m[k] /\ r[i] < r[k])
        BY <1>8, <2>1, <2>2, <2>4 DEF Beats
      <3>2. ASSUME NEW j \in U PROVE Beats(m, r, k, j)
        <4>1. j = k \/ m[j] < m[i] \/ (m[j] = m[i] /\ r[j] <= r[i])
          BY <2>1 DEF Beats
        <4> QED BY <1>8, <2>1, <2>2, <3>1, <4>1 DEF Beats
      <3> QED BY <1>3, <1>7, <3>2
    <2> QED BY <2>3, <2>4
  <1> QED BY <1>9, <1>10

\* v is the contents of block b in one of the versions looked at.
Collected(trees, order, id, reached, b, v) ==
  \E i \in reached :
    Entry(trees, order, id, i).blocks[b] # Nil /\ v = Entry(trees, order, id, i).blocks[b].data

\* di is one of the versions looked at, with the contents collected.
Assembled(trees, order, id, get_data, di) ==
  LET reached == Reached(trees, order, id, get_data)
      data(b) == IF get_data THEN LatestBlock(trees, order, id, reached, b) ELSE Nil
  IN  \E i \in reached :
        di = [Entry(trees, order, id, i) EXCEPT !.blocks = [b \in Blocks |-> data(b)]]

\* All versions, and all versions of block b, carry a time.
Dated(trees, order, id, n) ==
  \A i \in 1..n : Entry(trees, order, id, i) # Nil => Entry(trees, order, id, i).mtime \in Nat

BlockDated(trees, order, id, reached, b) ==
  \A i \in reached : Entry(trees, order, id, i).blocks[b] # Nil
                       => Entry(trees, order, id, i).blocks[b].mtime \in Nat

\* The contents collected for a block are those of one of the versions the
\* loop looked at (find_latest_inode).
LEMMA LatestBlockFound ==
  ASSUME NEW trees, NEW order, NEW n \in Nat, NEW id, NEW reached, NEW b,
         reached \subseteq 1..n,
         BlockDated(trees, order, id, reached, b)
  PROVE  LET v == LatestBlock(trees, order, id, reached, b)
         IN  v = Nil \/ Collected(trees, order, id, reached, b, v)
  <1> DEFINE blk(i) == Entry(trees, order, id, i).blocks[b]
             held == {i \in reached : blk(i) # Nil}
             wins(i) == \A j \in held :
                          blk(j).mtime < blk(i).mtime \/ (blk(j).mtime = blk(i).mtime /\ j <= i)
             m == [i \in held |-> blk(i).mtime]
             r == [i \in held |-> i]
  <1>1. CASE held = {}
    BY <1>1 DEF LatestBlock
  <1>2. CASE held # {}
    <2>1. \E i \in held : \A j \in held : Beats(m, r, i, j)
      <3>1. held \subseteq 1..n
        OBVIOUS
      <3>2. \A i \in held : m[i] \in Nat /\ r[i] \in Int
        BY <3>1 DEF BlockDated
      <3> HIDE DEF held, m, r
      <3> QED BY <1>2, <3>1, <3>2, Winner
    <2>2. \E i \in held : wins(i)
      <3> HIDE DEF held, blk
      <3> QED BY <2>1 DEF Beats
    <2> DEFINE w == CHOOSE i \in held : wins(i)
    <2>3. w \in held
      <3> HIDE DEF held, wins
      <3> QED BY <2>2
    <2>4. LatestBlock(trees, order, id, reached, b) = blk(w).data
      BY <1>2 DEF LatestBlock
    <2> HIDE DEF w
    <2> QED BY <2>3, <2>4 DEF Collected
  <1> QED BY <1>1, <1>2

\* What find_latest_inode answers is one of the versions the loop looked at,
\* with other contents.
LEMMA LatestInodeFound ==
  ASSUME NEW trees, NEW order, NEW n \in Nat, NEW id, NEW get_data,
         DOMAIN order = 1..n,
         Dated(trees, order, id, n)
  PROVE  LET di == find_latest_inode(trees, order, id, get_data)
         IN  di = Nil \/ Assembled(trees, order, id, get_data, di)
  <1> DEFINE reached == Reached(trees, order, id, get_data)
             di(i) == Entry(trees, order, id, i)
             wins(i) == \A j \in reached :
                          di(j).mtime < di(i).mtime \/ (di(j).mtime = di(i).mtime /\ i <= j)
             data(b) == IF get_data THEN LatestBlock(trees, order, id, reached, b) ELSE Nil
             m == [i \in reached |-> di(i).mtime]
             r == [i \in reached |-> -i]
  <1>1. CASE reached = {}
    BY <1>1 DEF find_latest_inode
  <1>2. CASE reached # {}
    <2>0. reached \subseteq 1..n /\ \A i \in reached : di(i) # Nil
      BY DEF Reached
    <2>1. \E i \in reached : \A j \in reached : Beats(m, r, i, j)
      <3>2. \A i \in reached : m[i] \in Nat /\ r[i] \in Int
        BY <2>0 DEF Dated
      <3> HIDE DEF reached, m, r
      <3> QED BY <1>2, <2>0, <3>2, Winner
    <2>2. \E i \in reached : wins(i)
      <3> HIDE DEF reached, di
      <3> QED BY <2>0, <2>1 DEF Beats
    <2> DEFINE w == CHOOSE i \in reached : wins(i)
    <2>3. w \in reached
      <3> HIDE DEF reached, wins
      <3> QED BY <2>2
    <2>4. find_latest_inode(trees, order, id, get_data)
            = [di(w) EXCEPT !.blocks = [b \in Blocks |-> data(b)]]
      BY <1>2 DEF find_latest_inode
    <2> HIDE DEF w
    <2> QED BY <2>3, <2>4 DEF Assembled
  <1> QED BY <1>1, <1>2
-----------------------------------------------------------------------------
(* Helpers.                                                                *)

\* A hash is an id.
LEMMA HashId == \A n \in Names : crypto_hash(n) \in Ids
  BY DEF Ids

\* Two names with one hash are one name (crypto_hash, taken as injective).
LEMMA HashInjective == \A x, y \in Names : crypto_hash(x) = crypto_hash(y) => x = y
  BY DEF crypto_hash

\* A path is a name, and the hash of a path is not Nil.
LEMMA PathId == \A p \in Paths : p \in Names /\ crypto_hash(p) \in Ids /\ crypto_hash(p) # Nil
  BY CacheAssumption, HashId

\* A new inode is well-formed and has no blocks.
LEMMA NewInodeType ==
  ASSUME NEW n \in Names, NEW mode \in Modes, now \in Nat
  PROVE  NewInode(n, mode) \in Inode /\ NewInode(n, mode).blocks = NoBlocks
  BY CacheAssumption DEF NewInode, Inode, NoBlocks

\* delete_inode leaves a well-formed inode without blocks.
LEMMA DeleteInodeType ==
  ASSUME NEW ino \in Inode, now \in Nat
  PROVE  delete_inode(ino) \in Inode /\ delete_inode(ino).blocks = NoBlocks
  <1>1. NoBlocks \in [Blocks -> Refs \cup {Nil}]
    BY DEF NoBlocks
  <1>2. 0 \in 0..(NlinkMod - 1)
    BY CacheAssumption
  <1> QED BY <1>1, <1>2 DEF delete_inode, Inode

\* dec_link keeps the blocks or drops them all.
LEMMA DecLinkType ==
  ASSUME NEW ino \in Inode, NEW n \in Names
  PROVE  /\ dec_link(ino, n) \in Inode
         /\ dec_link(ino, n).blocks \in {NoBlocks, ino.blocks}
  <1>1. (ino.nlink - 1) % NlinkMod \in 0..(NlinkMod - 1)
    BY CacheAssumption DEF Inode
  <1> QED BY <1>1 DEF dec_link, Inode, NoBlocks

\* A new object is one that nobody holds, made for its place.
LEMMA NewRefType ==
  ASSUME NEW c, NEW id, NEW b, NewRefs(c, id, b) # {}
  PROVE  /\ NewRef(c, id, b) \in Refs \ InUse(c)
         /\ NewRef(c, id, b).id = id
         /\ NewRef(c, id, b).blk = b
  BY DEF NewRef, NewRefs

\* Freeing the objects nobody points to changes none that somebody does.
LEMMA FreedFields ==
  ASSUME NEW c, c \in Cache
  PROVE  LET d == Freed(c)
         IN  /\ d \in Cache
             /\ d.inode_idx = c.inode_idx
             /\ d.inode_ptrs = c.inode_ptrs
             /\ d.dirty_block = c.dirty_block
             /\ \A r \in InUse(c) : d.block[r] = c.block[r]
  <1> DEFINE used == InUse(c)
             d == Freed(c)
  <1>1. /\ d \in Cache
        /\ d.inode_idx = c.inode_idx
        /\ d.inode_ptrs = c.inode_ptrs
        /\ d.dirty_block = c.dirty_block
        /\ d.block = [r \in Refs |-> IF r \in used THEN c.block[r] ELSE Nil]
    <2> HIDE DEF used
    <2> QED BY DEF Freed, Cache, used
  <1>2. used \subseteq Refs
    BY DEF InUse
  <1> HIDE DEF used, d
  <1> QED BY <1>1, <1>2 DEF used, d

\* Freeing keeps the cache sound: no dirty block loses its contents.
LEMMA SoundFreed ==
  ASSUME NEW c, Sound(c)
  PROVE  Sound(Freed(c))
  <1> DEFINE used == InUse(c)
             d == Freed(c)
  <1>1. c \in Cache /\ Resolves(c) /\ Placed(c) /\ Filled(c)
    BY DEF Sound
  <1>2. /\ d \in Cache
        /\ d.inode_idx = c.inode_idx
        /\ d.inode_ptrs = c.inode_ptrs
        /\ d.dirty_block = c.dirty_block
        /\ \A r \in used : d.block[r] = c.block[r]
    BY <1>1, FreedFields
  <1> HIDE DEF d
  <1>3. Resolves(d) /\ Placed(d)
    BY <1>1, <1>2 DEF Resolves, Placed, in_cache, get_inode_by_path
  <1>4. ASSUME NEW id \in Ids, NEW b \in Blocks, c.dirty_block[id][b] # Nil
        PROVE  c.dirty_block[id][b].ref \in used /\ c.dirty_block[id][b].ref \in Refs
    BY <1>1, <1>4 DEF InUse, Placed, Cache, Dirty
  <1>5. Filled(d)
    <2> HIDE DEF used
    <2> QED BY <1>1, <1>2, <1>4 DEF Filled
  <1> QED BY <1>2, <1>3, <1>5 DEF Sound, d

\* A path is pointed to an inode whose objects are in place.
LEMMA SoundAssign ==
  ASSUME NEW c, Sound(c), NEW d \in Cache, NEW p \in Paths, NEW id \in Ids, NEW ino \in Inode,
         \A b \in Blocks : ino.blocks[b] # Nil => ino.blocks[b].blk = b,
         d.inode_idx = [c.inode_idx EXCEPT ![p] = id],
         d.inode_ptrs = [c.inode_ptrs EXCEPT ![id] = ino],
         d.dirty_block = c.dirty_block,
         d.block = c.block
  PROVE  Sound(d)
  <1>1. c \in Cache /\ Resolves(c) /\ Placed(c) /\ Filled(c)
    BY DEF Sound
  <1>2. Resolves(d)
    BY <1>1 DEF Resolves, in_cache, get_inode_by_path, Cache
  <1>3. Placed(d)
    BY <1>1 DEF Placed, Cache
  <1>4. Filled(d)
    BY <1>1 DEF Filled
  <1> QED BY <1>2, <1>3, <1>4 DEF Sound

\* d is c with p pointed to a new inode id that has no objects yet.
Assigned(c, d, p, id) ==
  /\ d \in Cache
  /\ d.inode_idx = [c.inode_idx EXCEPT ![p] = id]
  /\ d.dirty_block = c.dirty_block
  /\ d.block = c.block
  /\ \E ino \in Inode : /\ ino.blocks = NoBlocks
                        /\ d.inode_ptrs = [c.inode_ptrs EXCEPT ![id] = ino]

\* A path given a new inode leaves the cache sound.
LEMMA SoundAssigned ==
  ASSUME NEW c, Sound(c), NEW p \in Paths, NEW id \in Ids, NEW d, Assigned(c, d, p, id)
  PROVE  Sound(d)
  <1>1. PICK ino \in Inode : /\ ino.blocks = NoBlocks
                            /\ d.inode_ptrs = [c.inode_ptrs EXCEPT ![id] = ino]
    BY DEF Assigned
  <1>2. \A b \in Blocks : ino.blocks[b] = Nil
    BY <1>1 DEF NoBlocks
  <1> QED BY <1>1, <1>2, SoundAssign DEF Assigned

\* make_file gives the path a new inode under its own hash.
LEMMA MakeFileAssigns ==
  ASSUME NEW c, Sound(c), NEW p \in Paths, NEW mode \in Modes, now \in Nat
  PROVE  Assigned(c, make_file(c, p, mode), p, crypto_hash(p))
  <1> DEFINE d == make_file(c, p, mode)
  <1>1. c \in Cache
    BY DEF Sound
  <1>2. p \in Names /\ crypto_hash(p) \in Ids
    BY PathId
  <1>3. NewInode(p, mode) \in Inode /\ NewInode(p, mode).blocks = NoBlocks
    BY <1>2, NewInodeType
  <1>4. (c.size + 1) % SizeMod \in 0..(SizeMod - 1)
    BY <1>1, CacheAssumption DEF Cache
  <1>5. /\ d \in Cache
        /\ d.inode_idx = [c.inode_idx EXCEPT ![p] = crypto_hash(p)]
        /\ d.inode_ptrs = [c.inode_ptrs EXCEPT ![crypto_hash(p)] = NewInode(p, mode)]
        /\ d.dirty_block = c.dirty_block
        /\ d.block = c.block
    BY <1>1, <1>2, <1>3, <1>4 DEF make_file, Cache
  <1> HIDE DEF d
  <1> QED BY <1>3, <1>5 DEF Assigned, d

\* symlink gives the path a new inode under the hash of its text.
LEMMA SymlinkAssigns ==
  ASSUME NEW c, Sound(c), NEW from \in Names, NEW to \in Paths, now \in Nat
  PROVE  Assigned(c, symlink(c, from, to), to, crypto_hash(from))
  <1> DEFINE d == symlink(c, from, to)
             ino == NewInode(from, "lnk")
  <1>1. c \in Cache
    BY DEF Sound
  <1>2. crypto_hash(from) \in Ids
    BY HashId
  <1>3. ino \in Inode /\ ino.blocks = NoBlocks
    BY NewInodeType DEF Modes
  <1> HIDE DEF ino
  <1>5. /\ d \in Cache
        /\ d.inode_idx = [c.inode_idx EXCEPT ![to] = crypto_hash(from)]
        /\ d.inode_ptrs = [c.inode_ptrs EXCEPT ![crypto_hash(from)] = ino]
        /\ d.dirty_block = c.dirty_block
        /\ d.block = c.block
    BY <1>1, <1>2, <1>3 DEF symlink, Cache, ino
  <1> HIDE DEF d
  <1> QED BY <1>3, <1>5 DEF Assigned, d

\* d is c with inodes changed, but for their objects, of which some may be
\* gone.
Shrunk(c, d) ==
  /\ d \in Cache
  /\ d.inode_idx = c.inode_idx
  /\ d.dirty_block = c.dirty_block
  /\ d.block = c.block
  /\ \A id \in Ids :
       /\ c.inode_ptrs[id] \in Inode => d.inode_ptrs[id] \in Inode
       /\ d.inode_ptrs[id] # Nil =>
            \/ d.inode_ptrs[id].blocks = NoBlocks
            \/ c.inode_ptrs[id] # Nil /\ d.inode_ptrs[id].blocks = c.inode_ptrs[id].blocks

\* Inodes that keep or lose their blocks leave the cache sound.
LEMMA SoundShrunk ==
  ASSUME NEW c, Sound(c), NEW d, Shrunk(c, d)
  PROVE  Sound(d)
  <1>1. c \in Cache /\ Resolves(c) /\ Placed(c) /\ Filled(c)
    BY DEF Sound
  <1>2. Resolves(d)
    BY <1>1 DEF Shrunk, Resolves, in_cache, get_inode_by_path, Cache
  <1>3. Placed(d)
    BY <1>1 DEF Shrunk, Placed, NoBlocks
  <1>4. Filled(d)
    BY <1>1 DEF Shrunk, Filled
  <1> QED BY <1>2, <1>3, <1>4 DEF Sound, Shrunk

\* Replacing one inode by one with the same blocks, or none, is shrinking.
LEMMA ReplaceShrinks ==
  ASSUME NEW c, Sound(c), NEW d \in Cache, NEW id \in Ids, NEW ino \in Inode,
         ino.blocks = NoBlocks \/ (c.inode_ptrs[id] # Nil /\ ino.blocks = c.inode_ptrs[id].blocks),
         d.inode_idx = c.inode_idx,
         d.inode_ptrs = [c.inode_ptrs EXCEPT ![id] = ino],
         d.dirty_block = c.dirty_block,
         d.block = c.block
  PROVE  Shrunk(c, d)
  BY DEF Sound, Cache, Shrunk

\* truncate changes the length only, and keeps the blocks.
LEMMA TruncateShrinks ==
  ASSUME NEW c, Sound(c), NEW p \in Paths, NEW n \in Nat, now \in Nat
  PROVE  truncate(c, p, n) = c \/ Shrunk(c, truncate(c, p, n))
  <1> DEFINE d == truncate(c, p, n)
             id == c.inode_idx[p]
             ino == set_size(c.inode_ptrs[id], n)
  <1>1. c \in Cache /\ Resolves(c)
    BY DEF Sound
  <1>2. CASE ~in_cache(c, p)
    BY <1>2 DEF truncate
  <1>3. CASE in_cache(c, p)
    <2>1. id \in Ids /\ c.inode_ptrs[id] \in Inode
      BY <1>1, <1>3 DEF Resolves, in_cache, get_inode_by_path, Cache
    <2>2. ino \in Inode /\ ino.blocks = c.inode_ptrs[id].blocks
      BY <2>1 DEF set_size, Inode
    <2>3. c.inode_ptrs[id] # Nil
      BY <2>1, NilAssumption
    <2> HIDE DEF ino
    <2>4. /\ d \in Cache
          /\ d.inode_idx = c.inode_idx
          /\ d.inode_ptrs = [c.inode_ptrs EXCEPT ![id] = ino]
          /\ d.dirty_block = c.dirty_block
          /\ d.block = c.block
      BY <1>1, <1>3, <2>1, <2>2 DEF truncate, Cache, ino
    <2> HIDE DEF d, id
    <2> QED BY <2>1, <2>2, <2>3, <2>4, ReplaceShrinks DEF d
  <1> QED BY <1>2, <1>3
\* rmdir drops the blocks of the inode it deletes.
LEMMA RmdirShrinks ==
  ASSUME NEW c, Sound(c), NEW p \in Paths, in_cache(c, p), now \in Nat
  PROVE  Shrunk(c, rmdir(c, p))
  <1> DEFINE d == rmdir(c, p)
             id == c.inode_idx[p]
             ino == delete_inode(c.inode_ptrs[id])
  <1>1. c \in Cache /\ Resolves(c)
    BY DEF Sound
  <1>2. id \in Ids /\ c.inode_ptrs[id] \in Inode
    BY <1>1 DEF Resolves, in_cache, get_inode_by_path, Cache
  <1>3. ino \in Inode /\ ino.blocks = NoBlocks
    BY <1>2, DeleteInodeType
  <1> HIDE DEF ino
  <1>4. /\ d \in Cache
        /\ d.inode_idx = c.inode_idx
        /\ d.inode_ptrs = [c.inode_ptrs EXCEPT ![id] = ino]
        /\ d.dirty_block = c.dirty_block
        /\ d.block = c.block
    BY <1>1, <1>2, <1>3 DEF rmdir, Cache, ino
  <1> HIDE DEF d, id
  <1> QED BY <1>2, <1>3, <1>4, ReplaceShrinks DEF d

\* remove drops blocks of the inode it deletes and of those listing its path.
LEMMA RemoveShrinks ==
  ASSUME NEW c, Sound(c), NEW p \in Paths, in_cache(c, p), now \in Nat
  PROVE  Shrunk(c, remove(c, p))
  <1> DEFINE d == remove(c, p)
             id == c.inode_idx[p]
             unlinked(ino) == IF ino # Nil /\ p \in ino.refs THEN dec_link(ino, p) ELSE ino
             ptrs == [x \in Ids |-> unlinked(c.inode_ptrs[x])]
             gone == delete_inode(ptrs[id])
  <1>1. c \in Cache /\ Resolves(c)
    BY DEF Sound
  <1>2. p \in Names /\ id \in Ids /\ c.inode_ptrs[id] \in Inode
    BY <1>1, PathId DEF Resolves, in_cache, get_inode_by_path, Cache
  <1>3. ASSUME NEW x \in Ids
        PROVE  /\ c.inode_ptrs[x] = Nil => ptrs[x] = Nil
               /\ c.inode_ptrs[x] # Nil =>
                    /\ ptrs[x] \in Inode
                    /\ ptrs[x].blocks \in {NoBlocks, c.inode_ptrs[x].blocks}
    <2>1. CASE c.inode_ptrs[x] = Nil
      BY <2>1
    <2>2. CASE c.inode_ptrs[x] # Nil
      <3>1. c.inode_ptrs[x] \in Inode
        BY <1>1, <2>2 DEF Cache
      <3> QED BY <1>2, <2>2, <3>1, DecLinkType
    <2> QED BY <2>1, <2>2
  <1>4. ptrs \in [Ids -> Inode \cup {Nil}]
    <2> HIDE DEF unlinked
    <2>1. \A x \in Ids : ptrs[x] \in Inode \cup {Nil}
      <3> HIDE DEF ptrs
      <3> QED BY <1>3
    <2> QED BY <2>1
  <1>5. gone \in Inode /\ gone.blocks = NoBlocks
    <2>1. ptrs[id] \in Inode
      <3> HIDE DEF ptrs, id
      <3> QED BY <1>2, <1>3, NilAssumption
    <2> HIDE DEF ptrs
    <2> QED BY <2>1, DeleteInodeType
  <1>6. (c.size - 1) % SizeMod \in 0..(SizeMod - 1)
    BY <1>1, CacheAssumption DEF Cache
  <1> DEFINE new == [ptrs EXCEPT ![id] = gone]
  <1>12. d = [c EXCEPT !.inode_ptrs = new, !.size = (@ - 1) % SizeMod, !.has_changed = TRUE]
    BY DEF remove
  <1> HIDE DEF new, d
  <1>7. /\ d.inode_idx = c.inode_idx
        /\ d.inode_ptrs = [ptrs EXCEPT ![id] = gone]
        /\ d.dirty_block = c.dirty_block
        /\ d.block = c.block
        /\ d.size = (c.size - 1) % SizeMod
        /\ d.has_changed = TRUE
        /\ d = [inode_idx |-> d.inode_idx, inode_ptrs |-> d.inode_ptrs,
                dirty_block |-> d.dirty_block, block |-> d.block,
                size |-> d.size, has_changed |-> d.has_changed]
    <2> HIDE DEF ptrs, gone, id
    <2> QED BY <1>1, <1>12 DEF Cache, new
  <1> HIDE DEF ptrs, gone, id
  <1>8. d \in Cache
    <2>1. d.inode_ptrs \in [Ids -> Inode \cup {Nil}]
      BY <1>2, <1>4, <1>5, <1>7
    <2> QED BY <1>1, <1>6, <1>7, <2>1 DEF Cache
  <1>9. \A x \in Ids : c.inode_ptrs[x] \in Inode => d.inode_ptrs[x] \in Inode
    BY <1>2, <1>3, <1>4, <1>5, <1>7, NilAssumption
  <1>10. ASSUME NEW x \in Ids, d.inode_ptrs[x] # Nil
         PROVE  \/ d.inode_ptrs[x].blocks = NoBlocks
                \/ c.inode_ptrs[x] # Nil /\ d.inode_ptrs[x].blocks = c.inode_ptrs[x].blocks
    BY <1>2, <1>3, <1>4, <1>5, <1>7, <1>10
  <1> QED BY <1>7, <1>8, <1>9, <1>10 DEF Shrunk, d
-----------------------------------------------------------------------------
(* Loading.                                                                *)

Tree == [Ids -> DiskInode \cup {Nil}]

\* What find_latest_inode answers: contents instead of versions.
Answer == [mode : Modes, nlink : 0..(NlinkMod - 1), mtime : Nat, size : Nat,
           deleted : BOOLEAN, blocks : [Blocks -> Values \cup {Nil}]]

OnDisk(id, b, v) ==
  \E i \in DOMAIN disk :
    disk[i][id] # Nil /\ disk[i][id].blocks[b] # Nil /\ disk[i][id].blocks[b].data = v

\* The loader answers with a typed inode whose contents are all on disk.
LEMMA LatestType ==
  ASSUME disk \in Seq(Tree), visit \in Seq(1..Len(disk)), NEW p \in Paths,
         NEW get_data \in BOOLEAN, get_latest_inode(p, get_data) # Nil
  PROVE  /\ get_latest_inode(p, get_data) \in Answer
         /\ \A b \in Blocks :
              get_latest_inode(p, get_data).blocks[b] # Nil =>
                OnDisk(crypto_hash(p), b, get_latest_inode(p, get_data).blocks[b])
  <1> DEFINE id == crypto_hash(p)
             n == Len(visit)
             reached == Reached(disk, visit, id, get_data)
             data(b) == IF get_data THEN LatestBlock(disk, visit, id, reached, b) ELSE Nil
             di == find_latest_inode(disk, visit, id, get_data)
  <1>1. id \in Ids
    BY PathId
  <1>2. n \in Nat /\ DOMAIN visit = 1..n
    OBVIOUS
  <1>3. \A i \in 1..n : visit[i] \in DOMAIN disk
    BY <1>2
  <1>4. \A i \in 1..n : Entry(disk, visit, id, i) \in DiskInode \cup {Nil}
    <2>1. \A i \in DOMAIN disk : disk[i] \in Tree
      OBVIOUS
    <2> QED BY <1>1, <1>3, <2>1 DEF Entry, Tree
  <1> HIDE DEF id, n
  <1>5. Dated(disk, visit, id, n)
    BY <1>4 DEF DiskInode, Dated
  <1>6. reached \subseteq 1..n /\ \A i \in reached : Entry(disk, visit, id, i) # Nil
    BY <1>2 DEF Reached
  <1>7. di # Nil
    BY DEF get_latest_inode, id
  <1> HIDE DEF reached
  <1>8. PICK i \in reached :
           di = [Entry(disk, visit, id, i) EXCEPT !.blocks = [b \in Blocks |-> data(b)]]
    <2>1. Assembled(disk, visit, id, get_data, di)
      <3> HIDE DEF di
      <3> QED BY <1>2, <1>5, <1>7, LatestInodeFound DEF di
    <2> HIDE DEF di
    <2> QED BY <2>1, Zenon DEF Assembled, reached
  <1>9. ASSUME NEW b \in Blocks, data(b) # Nil
        PROVE  data(b) \in Values /\ OnDisk(id, b, data(b))
    <2>0. \A j \in reached : Entry(disk, visit, id, j) \in DiskInode
      BY <1>4, <1>6
    <2>1. \A j \in reached : Entry(disk, visit, id, j).blocks[b] # Nil
             => Entry(disk, visit, id, j).blocks[b] \in [data : Values, mtime : Nat]
      BY <2>0 DEF DiskInode
    <2>2. PICK j \in reached :
             /\ Entry(disk, visit, id, j).blocks[b] # Nil
             /\ data(b) = Entry(disk, visit, id, j).blocks[b].data
      <3>1. BlockDated(disk, visit, id, reached, b)
        BY <2>1 DEF BlockDated
      <3>2. data(b) = LatestBlock(disk, visit, id, reached, b)
        BY <1>9
      <3>3. Collected(disk, visit, id, reached, b, data(b))
        BY <1>2, <1>6, <1>9, <3>1, <3>2, LatestBlockFound
      <3> HIDE DEF data
      <3> QED BY <3>3 DEF Collected
    <2>3. data(b) \in Values
      BY <2>1, <2>2
    <2>4. visit[j] \in DOMAIN disk /\ Entry(disk, visit, id, j) # Nil
      BY <1>3, <1>6
    <2> HIDE DEF data
    <2>5. OnDisk(id, b, data(b))
      BY <2>2, <2>4 DEF OnDisk, Entry
    <2> QED BY <2>3, <2>5
  <1> HIDE DEF data
  <1>10. Entry(disk, visit, id, i) \in DiskInode
    BY <1>4, <1>6
  <1> DEFINE e == Entry(disk, visit, id, i)
             bl == [b \in Blocks |-> data(b)]
  <1>11. bl \in [Blocks -> Values \cup {Nil}]
    BY <1>9
  <1> HIDE DEF e, bl
  <1>12. [e EXCEPT !.blocks = bl] \in Answer /\ [e EXCEPT !.blocks = bl].blocks = bl
    BY <1>10, <1>11 DEF DiskInode, Answer, e
  <1>13. di \in Answer /\ di.blocks = bl
    BY <1>8, <1>12 DEF e, bl
  <1> HIDE DEF di
  <1>14. \A b \in Blocks : di.blocks[b] # Nil => OnDisk(id, b, di.blocks[b])
    BY <1>9, <1>13 DEF bl
  <1> QED BY <1>13, <1>14 DEF get_latest_inode, di, id
DiskOK == disk \in Seq(Tree) /\ visit \in Seq(1..Len(disk)) /\ now \in Nat

\* d is c with the answer for p in new objects, and no object that was in
\* use disturbed.
Loaded(c, d, p) ==
  LET di == get_latest_inode(p, TRUE)
      id == crypto_hash(p)
  IN  /\ d \in Cache
      /\ d.inode_idx = [c.inode_idx EXCEPT ![p] = id]
      /\ d.dirty_block = c.dirty_block
      /\ \A r \in InUse(c) : d.block[r] = c.block[r]
      /\ \E ino \in Inode :
           /\ d.inode_ptrs = [c.inode_ptrs EXCEPT ![id] = ino]
           /\ \A b \in Blocks :
                /\ di.blocks[b] = Nil => ino.blocks[b] = Nil
                /\ di.blocks[b] # Nil =>
                     /\ ino.blocks[b] \in Refs \ InUse(c)
                     /\ ino.blocks[b].id = id
                     /\ ino.blocks[b].blk = b
                     /\ d.block[ino.blocks[b]] = di.blocks[b]

\* load_from_disk loads what the loader found.
LEMMA LoadFields ==
  ASSUME NEW c, Sound(c), DiskOK, NEW p \in Paths, HasRoom(c, crypto_hash(p)),
         get_latest_inode(p, TRUE) # Nil
  PROVE  Loaded(c, load_from_disk(c, p), p)
  <1> DEFINE di == get_latest_inode(p, TRUE)
             d == load_from_disk(c, p)
             id == crypto_hash(p)
             ref == [b \in Blocks |-> NewRef(c, id, b)]
             ino == LoadedInode(p, di, ref)
             bl == [r \in Refs |-> IF r.id = id /\ di.blocks[r.blk] # Nil /\ r = ref[r.blk]
                                     THEN di.blocks[r.blk] ELSE c.block[r]]
  <1>1. c \in Cache /\ id \in Ids /\ p \in Names
    BY PathId DEF Sound
  <1>2. di \in Answer
    BY LatestType DEF DiskOK
  <1> HIDE DEF di
  <1>3. /\ ref \in [Blocks -> Refs]
        /\ \A b \in Blocks : ref[b] \in Refs \ InUse(c) /\ ref[b].id = id /\ ref[b].blk = b
    <2> HIDE DEF id
    <2>1. \A b \in Blocks : NewRefs(c, id, b) # {}
      BY DEF HasRoom, id
    <2> QED BY <2>1, NewRefType
  <1> HIDE DEF ref
  <1>4. ino \in Inode
    <2>1. [b \in Blocks |-> IF di.blocks[b] = Nil THEN Nil ELSE ref[b]] \in [Blocks -> Refs \cup {Nil}]
      BY <1>3
    <2>2. /\ di.mode \in Modes
          /\ (IF di.deleted THEN 0 ELSE di.nlink) \in 0..(NlinkMod - 1)
          /\ (IF di.deleted \/ HasData(di) THEN now ELSE di.mtime) \in Nat
          /\ di.size \in Nat
          /\ di.deleted \in BOOLEAN
          /\ (IF di.deleted THEN {} ELSE {p}) \in SUBSET Names
      <3>1. 0 \in 0..(NlinkMod - 1)
        BY CacheAssumption
      <3>2. di.mode \in Modes /\ di.nlink \in 0..(NlinkMod - 1) /\ di.mtime \in Nat
        BY <1>2 DEF Answer
      <3>3. di.size \in Nat /\ di.deleted \in BOOLEAN
        BY <1>2 DEF Answer
      <3>4. {p} \in SUBSET Names /\ {} \in SUBSET Names
        BY <1>1
      <3> QED BY <3>1, <3>2, <3>3, <3>4 DEF DiskOK
    <2> QED BY <2>1, <2>2 DEF LoadedInode, Inode
  <1>5. \A b \in Blocks : ino.blocks[b] = IF di.blocks[b] = Nil THEN Nil ELSE ref[b]
    BY DEF LoadedInode
  <1> HIDE DEF ino
  <1>6. bl \in [Refs -> Values \cup {Nil}]
    <2>1. \A r \in Refs : r.blk \in Blocks
      BY DEF Refs
    <2> QED BY <1>1, <1>2, <2>1 DEF Cache, Answer
  <1>7. \A r \in InUse(c) : bl[r] = c.block[r]
    <2>1. \A r \in InUse(c) : r \in Refs /\ r.blk \in Blocks
      BY DEF InUse, Refs
    <2> QED BY <1>3, <2>1
  <1>8. \A b \in Blocks : di.blocks[b] # Nil => bl[ref[b]] = di.blocks[b]
    BY <1>3
  <1>9. d = [c EXCEPT !.inode_idx[p] = id, !.inode_ptrs[id] = ino, !.block = bl]
    BY DEF load_from_disk, ino, ref, di
  <1> HIDE DEF bl, d
  <1>10. /\ d \in Cache
         /\ d.inode_idx = [c.inode_idx EXCEPT ![p] = id]
         /\ d.inode_ptrs = [c.inode_ptrs EXCEPT ![id] = ino]
         /\ d.dirty_block = c.dirty_block
         /\ d.block = bl
    <2> HIDE DEF id
    <2>1. /\ d.inode_idx = [c.inode_idx EXCEPT ![p] = id]
          /\ d.inode_ptrs = [c.inode_ptrs EXCEPT ![id] = ino]
          /\ d.dirty_block = c.dirty_block
          /\ d.block = bl
          /\ d.size = c.size
          /\ d.has_changed = c.has_changed
          /\ d = [inode_idx |-> d.inode_idx, inode_ptrs |-> d.inode_ptrs,
                  dirty_block |-> d.dirty_block, block |-> d.block,
                  size |-> d.size, has_changed |-> d.has_changed]
      BY <1>1, <1>9 DEF Cache
    <2> QED BY <1>1, <1>4, <1>6, <2>1 DEF Cache
  <1>11. \A b \in Blocks :
           /\ di.blocks[b] = Nil => ino.blocks[b] = Nil
           /\ di.blocks[b] # Nil =>
                /\ ino.blocks[b] \in Refs \ InUse(c)
                /\ ino.blocks[b].id = id
                /\ ino.blocks[b].blk = b
                /\ d.block[ino.blocks[b]] = di.blocks[b]
    BY <1>3, <1>5, <1>8, <1>10
  <1> HIDE DEF id
  <1> QED BY <1>4, <1>7, <1>10, <1>11 DEF Loaded, id, d, di

\* The object of a dirty block is in use.
LEMMA DirtyInUse ==
  ASSUME NEW c, Sound(c), NEW id \in Ids, NEW b \in Blocks, c.dirty_block[id][b] # Nil
  PROVE  c.dirty_block[id][b].ref \in InUse(c)
  BY DEF Sound, InUse, Placed, Cache, Dirty

\* Loading a path leaves the cache sound: it fills objects nobody held.
LEMMA SoundLoad ==
  ASSUME NEW c, Sound(c), DiskOK, NEW p \in Paths, HasRoom(c, crypto_hash(p))
  PROVE  Sound(load_from_disk(c, p))
  <1> DEFINE di == get_latest_inode(p, TRUE)
             d == load_from_disk(c, p)
             id == crypto_hash(p)
  <1>1. CASE di = Nil
    BY <1>1 DEF load_from_disk
  <1>2. CASE di # Nil
    <2>1. c \in Cache /\ Resolves(c) /\ Placed(c) /\ Filled(c)
      BY DEF Sound
    <2>2. id \in Ids
      BY PathId
    <2> HIDE DEF di, d, id
    <2>8. Loaded(c, d, p)
      BY <1>2, LoadFields DEF di, d
    <2>3. /\ d \in Cache
          /\ d.inode_idx = [c.inode_idx EXCEPT ![p] = id]
          /\ d.dirty_block = c.dirty_block
          /\ \A r \in InUse(c) : d.block[r] = c.block[r]
      BY <2>8 DEF Loaded, id
    <2>4. PICK ino \in Inode :
            /\ d.inode_ptrs = [c.inode_ptrs EXCEPT ![id] = ino]
            /\ \A b \in Blocks : ino.blocks[b] # Nil => ino.blocks[b].blk = b
      BY <2>8 DEF Loaded, id
    <2>5. Resolves(d)
      BY <2>1, <2>2, <2>3, <2>4 DEF Resolves, in_cache, get_inode_by_path, Cache
    <2>6. Placed(d)
      BY <2>1, <2>2, <2>3, <2>4 DEF Placed, Cache
    <2>7. Filled(d)
      BY <2>1, <2>3, DirtyInUse DEF Filled
    <2> QED BY <2>3, <2>5, <2>6, <2>7 DEF Sound, d
  <1> QED BY <1>1, <1>2

\* An object that is free stays free when another inode is loaded, or the
\* same one without that block.
LEMMA RoomAfterLoad ==
  ASSUME NEW c, Sound(c), DiskOK, NEW p \in Paths, HasRoom(c, crypto_hash(p)),
         NEW id \in Ids, NEW b \in Blocks, NewRefs(c, id, b) # {},
         get_latest_inode(p, TRUE) # Nil,
         id # crypto_hash(p) \/ get_latest_inode(p, TRUE).blocks[b] = Nil
  PROVE  NewRefs(load_from_disk(c, p), id, b) # {}
  <1> DEFINE di == get_latest_inode(p, TRUE)
             d == load_from_disk(c, p)
             k == crypto_hash(p)
  <1>1. PICK r \in Refs \ InUse(c) : r.id = id /\ r.blk = b
    BY DEF NewRefs
  <1>2. c \in Cache /\ k \in Ids
    BY PathId DEF Sound
  <1> HIDE DEF di, d, k
  <1>7. Loaded(c, d, p)
    BY LoadFields DEF d
  <1>3. d.dirty_block = c.dirty_block
    BY <1>7 DEF Loaded, di, k
  <1>4. PICK ino \in Inode :
          /\ d.inode_ptrs = [c.inode_ptrs EXCEPT ![k] = ino]
          /\ \A x \in Blocks :
               /\ di.blocks[x] = Nil => ino.blocks[x] = Nil
               /\ di.blocks[x] # Nil =>
                    /\ ino.blocks[x] \in Refs \ InUse(c)
                    /\ ino.blocks[x].id = k
                    /\ ino.blocks[x].blk = x
                    /\ d.block[ino.blocks[x]] = di.blocks[x]
    BY <1>7, Zenon DEF Loaded, di, k
  <1>5. ino.blocks[b] # r
    BY <1>1, <1>4, NilAssumption DEF di, k
  <1>6. r \notin InUse(d)
    <2>1. \A x \in Ids : d.inode_ptrs[x] = IF x = k THEN ino ELSE c.inode_ptrs[x]
      BY <1>2, <1>4 DEF Cache
    <2>2. ASSUME NEW x \in Ids,
                 \/ d.dirty_block[x][b] # Nil /\ d.dirty_block[x][b].ref = r
                 \/ d.inode_ptrs[x] # Nil /\ d.inode_ptrs[x].blocks[b] = r
          PROVE  FALSE
      <3>1. x # k \/ ~(d.inode_ptrs[x] # Nil /\ d.inode_ptrs[x].blocks[b] = r)
        BY <1>5, <2>1
      <3>2. \/ c.dirty_block[x][b] # Nil /\ c.dirty_block[x][b].ref = r
            \/ c.inode_ptrs[x] # Nil /\ c.inode_ptrs[x].blocks[b] = r
        BY <1>3, <2>1, <2>2, <3>1
      <3>3. r \in Refs /\ r \notin InUse(c) /\ r.blk = b
        BY <1>1
      <3> QED BY <3>2, <3>3, Zenon DEF InUse
    <2>3. r.blk = b
      BY <1>1
    <2> QED BY <2>2, <2>3, Zenon DEF InUse
  <1> QED BY <1>1, <1>6 DEF NewRefs, d

\* d is c with block b of inode id written, into the object it had or into a
\* new one.
Written(c, d, id, b, v) ==
  LET old == c.inode_ptrs[id]
  IN  /\ d \in Cache
      /\ d.inode_idx = c.inode_idx
      /\ \E ref \in Refs, ino \in Inode :
           /\ ref.blk = b
           /\ IF old.blocks[b] # Nil THEN ref = old.blocks[b] ELSE ref \notin InUse(c) /\ ref.id = id
           /\ ino.blocks = [old.blocks EXCEPT ![b] = ref]
           /\ d.inode_ptrs = [c.inode_ptrs EXCEPT ![id] = ino]
           /\ d.block = [c.block EXCEPT ![ref] = v]
           /\ d.dirty_block = [c.dirty_block EXCEPT
                                 ![id] = [@ EXCEPT ![b] = [ref |-> ref, mtime |-> now]]]

\* write_block writes the block it is called for.
LEMMA WriteFields ==
  ASSUME NEW c, Sound(c), now \in Nat, NEW p \in Paths, in_cache(c, p),
         NEW b \in Blocks, NEW v \in Values,
         \/ c.inode_ptrs[c.inode_idx[p]].blocks[b] # Nil
         \/ NewRefs(c, c.inode_idx[p], b) # {}
  PROVE  Written(c, write_block(c, p, b, v), c.inode_idx[p], b, v)
  <1> DEFINE d == write_block(c, p, b, v)
             id == c.inode_idx[p]
             old == c.inode_ptrs[id]
             ref == IF old.blocks[b] # Nil THEN old.blocks[b] ELSE NewRef(c, id, b)
             ino == [old EXCEPT !.size = IF @ < b + 1 THEN b + 1 ELSE @,
                                !.mtime = now, !.blocks[b] = ref]
             dirty == [ref |-> ref, mtime |-> now]
  <1>1. c \in Cache /\ Resolves(c) /\ Placed(c)
    BY DEF Sound
  <1>2. id \in Ids /\ old \in Inode /\ old # Nil
    BY <1>1, NilAssumption DEF Resolves, in_cache, get_inode_by_path, Cache
  <1>3. /\ ref \in Refs
        /\ ref.blk = b
        /\ IF old.blocks[b] # Nil THEN ref = old.blocks[b] ELSE ref \notin InUse(c) /\ ref.id = id
    <2>1. CASE old.blocks[b] # Nil
      BY <1>1, <1>2, <2>1 DEF Placed, Inode
    <2>2. CASE old.blocks[b] = Nil
      BY <2>2, NewRefType
    <2> QED BY <2>1, <2>2
  <1> HIDE DEF old, ref, id
  <1>4. b + 1 \in Nat
    BY CacheAssumption
  <1>5. ino \in Inode /\ ino.blocks = [old.blocks EXCEPT ![b] = ref]
    BY <1>2, <1>3, <1>4 DEF Inode
  <1>6. dirty \in Dirty
    BY <1>3 DEF Dirty
  <1>7. d = [c EXCEPT !.inode_ptrs[id] = ino, !.block[ref] = v,
                      !.dirty_block[id][b] = dirty, !.has_changed = TRUE]
    BY DEF write_block, old, ref, id
  <1> HIDE DEF ino, dirty, d
  <1>8. /\ d.inode_idx = c.inode_idx
        /\ d.inode_ptrs = [c.inode_ptrs EXCEPT ![id] = ino]
        /\ d.block = [c.block EXCEPT ![ref] = v]
        /\ d.dirty_block = [c.dirty_block EXCEPT ![id] = [@ EXCEPT ![b] = dirty]]
    BY <1>1, <1>7 DEF Cache
  <1>10. /\ d.size = c.size
         /\ d.has_changed = TRUE
         /\ d = [inode_idx |-> d.inode_idx, inode_ptrs |-> d.inode_ptrs,
                 dirty_block |-> d.dirty_block, block |-> d.block,
                 size |-> d.size, has_changed |-> d.has_changed]
    BY <1>1, <1>7 DEF Cache
  <1>11. /\ c.inode_idx \in [Paths -> Ids \cup {Nil}]
         /\ c.inode_ptrs \in [Ids -> Inode \cup {Nil}]
         /\ c.block \in [Refs -> Values \cup {Nil}]
         /\ c.dirty_block \in [Ids -> [Blocks -> Dirty \cup {Nil}]]
         /\ c.size \in 0..(SizeMod - 1)
    BY <1>1 DEF Cache
  <1>9. d \in Cache
    <2>1. d.inode_ptrs \in [Ids -> Inode \cup {Nil}]
      BY <1>5, <1>8, <1>11
    <2>2. d.block \in [Refs -> Values \cup {Nil}]
      BY <1>8, <1>11
    <2>3. d.dirty_block \in [Ids -> [Blocks -> Dirty \cup {Nil}]]
      <3> DEFINE row == [c.dirty_block[id] EXCEPT ![b] = dirty]
      <3>1. row \in [Blocks -> Dirty \cup {Nil}]
        BY <1>2, <1>6, <1>11
      <3>2. d.dirty_block = [c.dirty_block EXCEPT ![id] = row]
        BY <1>8
      <3> HIDE DEF row
      <3> QED BY <1>11, <3>1, <3>2
    <2> QED BY <1>8, <1>10, <1>11, <2>1, <2>2, <2>3 DEF Cache
  <1> QED BY <1>3, <1>5, <1>8, <1>9 DEF Written, old, dirty, d, id

\* A written block leaves the cache sound.
LEMMA SoundWritten ==
  ASSUME NEW c, Sound(c), now \in Nat, NEW id \in Ids, NEW b \in Blocks, NEW v \in Values,
         c.inode_ptrs[id] \in Inode, NEW d, Written(c, d, id, b, v)
  PROVE  Sound(d)
  <1>1. c \in Cache /\ Resolves(c) /\ Placed(c) /\ Filled(c)
    BY DEF Sound
  <1>2. d \in Cache /\ d.inode_idx = c.inode_idx
    BY DEF Written
  <1> DEFINE dirty(ref) == [ref |-> ref, mtime |-> now]
  <1>3. PICK ref \in Refs, ino \in Inode :
          /\ ref.blk = b
          /\ ino.blocks = [c.inode_ptrs[id].blocks EXCEPT ![b] = ref]
          /\ d.inode_ptrs = [c.inode_ptrs EXCEPT ![id] = ino]
          /\ d.block = [c.block EXCEPT ![ref] = v]
          /\ d.dirty_block = [c.dirty_block EXCEPT ![id] = [@ EXCEPT ![b] = dirty(ref)]]
    BY DEF Written
  <1>4. Resolves(d)
    BY <1>1, <1>2, <1>3 DEF Resolves, in_cache, get_inode_by_path, Cache
  <1>5. /\ c.inode_ptrs \in [Ids -> Inode \cup {Nil}]
        /\ c.block \in [Refs -> Values \cup {Nil}]
        /\ c.dirty_block \in [Ids -> [Blocks -> Dirty \cup {Nil}]]
        /\ c.inode_ptrs[id] # Nil
        /\ c.inode_ptrs[id].blocks \in [Blocks -> Refs \cup {Nil}]
    BY <1>1, NilAssumption DEF Cache, Inode
  <1>6. \A x \in Ids, y \in Blocks :
          d.dirty_block[x][y] = IF x = id /\ y = b THEN dirty(ref) ELSE c.dirty_block[x][y]
    <2> HIDE DEF dirty
    <2> QED BY <1>3, <1>5
  <1>7. Placed(d)
    <2>1. \A x \in Ids, y \in Blocks :
            d.inode_ptrs[x] # Nil /\ d.inode_ptrs[x].blocks[y] # Nil
              => d.inode_ptrs[x].blocks[y].blk = y
      <3>1. d.inode_ptrs[id] = ino /\ \A x \in Ids \ {id} : d.inode_ptrs[x] = c.inode_ptrs[x]
        BY <1>3, <1>5
      <3>2. \A y \in Blocks : ino.blocks[y] = IF y = b THEN ref ELSE c.inode_ptrs[id].blocks[y]
        BY <1>3, <1>5
      <3>3. \A y \in Blocks : ino.blocks[y] # Nil => ino.blocks[y].blk = y
        BY <1>1, <1>3, <1>5, <3>2 DEF Placed
      <3> QED BY <1>1, <3>1, <3>3 DEF Placed
    <2>2. \A x \in Ids, y \in Blocks :
            d.dirty_block[x][y] # Nil => d.dirty_block[x][y].ref.blk = y
      BY <1>1, <1>3, <1>6 DEF Placed
    <2> QED BY <2>1, <2>2 DEF Placed
  <1>8. Filled(d)
    <2>1. ASSUME NEW x \in Ids, NEW y \in Blocks, d.dirty_block[x][y] # Nil
          PROVE  d.block[d.dirty_block[x][y].ref] \in Values
      <3>1. CASE x = id /\ y = b
        BY <1>3, <1>5, <1>6, <3>1
      <3>2. CASE ~(x = id /\ y = b)
        <4>1. d.dirty_block[x][y] = c.dirty_block[x][y] /\ c.dirty_block[x][y] \in Dirty
          BY <1>5, <1>6, <2>1, <3>2
        <4>2. c.dirty_block[x][y].ref \in Refs
          BY <4>1 DEF Dirty
        <4>3. c.block[c.dirty_block[x][y].ref] \in Values
          BY <1>1, <2>1, <4>1 DEF Filled
        <4> QED BY <1>3, <1>5, <4>1, <4>2, <4>3
      <3> QED BY <3>1, <3>2
    <2> QED BY <2>1 DEF Filled
  <1> QED BY <1>2, <1>4, <1>7, <1>8 DEF Sound

\* The inode a write goes to: the one in the cache, deleted or not, or the
\* one on disk.
Ready(c, p) == IF in_cache(c, p) THEN Remade(c, p) ELSE load_from_disk(c, p)

InodeId(c, p) == IF in_cache(c, p) THEN c.inode_idx[p] ELSE crypto_hash(p)

\* remake_inode changes the deletion mark only.
LEMMA RemadeShrinks ==
  ASSUME NEW c, Sound(c), NEW p \in Paths, in_cache(c, p)
  PROVE  Shrunk(c, Remade(c, p))
  <1> DEFINE d == Remade(c, p)
             id == c.inode_idx[p]
             ino == [c.inode_ptrs[id] EXCEPT !.deleted = FALSE]
  <1>1. c \in Cache /\ Resolves(c)
    BY DEF Sound
  <1>2. id \in Ids /\ c.inode_ptrs[id] \in Inode /\ c.inode_ptrs[id] # Nil
    BY <1>1, NilAssumption DEF Resolves, in_cache, get_inode_by_path, Cache
  <1>3. ino \in Inode /\ ino.blocks = c.inode_ptrs[id].blocks
    BY <1>2 DEF Inode
  <1> HIDE DEF ino
  <1>4. /\ d \in Cache
        /\ d.inode_idx = c.inode_idx
        /\ d.inode_ptrs = [c.inode_ptrs EXCEPT ![id] = ino]
        /\ d.dirty_block = c.dirty_block
        /\ d.block = c.block
    BY <1>1, <1>2, <1>3 DEF Remade, Cache, ino
  <1> HIDE DEF d, id
  <1> QED BY <1>2, <1>3, <1>4, ReplaceShrinks DEF d

\* A file that is ready to be written has an object, or room for one.
LEMMA ReadyRoom ==
  ASSUME NEW c, Sound(c), DiskOK, NEW p \in Paths, NEW b \in Blocks,
         HasRoom(c, InodeId(c, p)), in_cache(Ready(c, p), p)
  PROVE  LET d == Ready(c, p)
         IN  /\ Sound(d)
             /\ d.inode_idx[p] = InodeId(c, p)
             /\ \/ d.inode_ptrs[d.inode_idx[p]].blocks[b] # Nil
                \/ NewRefs(d, d.inode_idx[p], b) # {}
  <1> DEFINE d == Ready(c, p)
             id == InodeId(c, p)
  <1>1. c \in Cache /\ NewRefs(c, id, b) # {}
    BY DEF Sound, HasRoom
  <1>2. CASE in_cache(c, p)
    <2>1. id = c.inode_idx[p] /\ id \in Ids /\ d = Remade(c, p)
      BY <1>1, <1>2 DEF InodeId, in_cache, Cache, Ready
    <2> HIDE DEF d, id
    <2>2. Shrunk(c, d)
      BY <1>2, <2>1, RemadeShrinks
    <2>3. Sound(d) /\ d.inode_idx = c.inode_idx
      BY <2>2, SoundShrunk DEF Shrunk
    <2>5. InUse(d) \subseteq InUse(c)
      BY <2>2, NilAssumption DEF InUse, Shrunk, NoBlocks, Refs
    <2>6. NewRefs(d, id, b) # {}
      BY <1>1, <2>5 DEF NewRefs
    <2> QED BY <2>1, <2>3, <2>6 DEF d, id
  <1>3. CASE ~in_cache(c, p)
    <2>1. id = crypto_hash(p) /\ id \in Ids /\ d = load_from_disk(c, p)
      BY <1>3, PathId DEF InodeId, Ready
    <2>2. get_latest_inode(p, TRUE) # Nil
      BY <1>3, <2>1 DEF load_from_disk
    <2> HIDE DEF d, id
    <2>3. Loaded(c, d, p) /\ Sound(d)
      BY <2>1, <2>2, LoadFields, SoundLoad DEF id
    <2>4. d.inode_idx[p] = id
      BY <1>1, <2>1, <2>3 DEF Loaded, Cache
    <2>5. CASE get_latest_inode(p, TRUE).blocks[b] = Nil
      BY <1>1, <2>1, <2>2, <2>3, <2>4, <2>5, RoomAfterLoad DEF d, id
    <2>6. CASE get_latest_inode(p, TRUE).blocks[b] # Nil
      <3>1. d.inode_ptrs[id].blocks[b] \in Refs
        BY <1>1, <2>1, <2>3, <2>6 DEF Loaded, Cache
      <3> QED BY <2>3, <2>4, <3>1, NilAssumption DEF d, id
    <2> QED BY <2>5, <2>6
  <1> QED BY <1>2, <1>3

\* A write to a file that is ready is a write to its inode; otherwise nothing
\* happens.
LEMMA WriteCases ==
  ASSUME NEW c, Sound(c), DiskOK, NEW p \in Paths, NEW b \in Blocks, NEW v \in Values,
         HasRoom(c, InodeId(c, p))
  PROVE  \/ write(c, p, b, v) = c
         \/ /\ Sound(Ready(c, p))
            /\ in_cache(Ready(c, p), p)
            /\ InodeId(c, p) \in Ids
            /\ Ready(c, p).inode_idx[p] = InodeId(c, p)
            /\ Ready(c, p).inode_ptrs[InodeId(c, p)] \in Inode
            /\ Written(Ready(c, p), write(c, p, b, v), InodeId(c, p), b, v)
  <1> DEFINE d == Ready(c, p)
             id == InodeId(c, p)
  <1>1. write(c, p, b, v) = IF in_cache(d, p) THEN write_block(d, p, b, v) ELSE c
    BY DEF write, Ready
  <1>2. CASE ~in_cache(d, p)
    BY <1>1, <1>2
  <1>3. CASE in_cache(d, p)
    <2> HIDE DEF d, id
    <2>1. /\ Sound(d)
          /\ d.inode_idx[p] = id
          /\ d.inode_ptrs[d.inode_idx[p]].blocks[b] # Nil \/ NewRefs(d, d.inode_idx[p], b) # {}
      BY <1>3, ReadyRoom DEF d, id
    <2>2. Written(d, write_block(d, p, b, v), d.inode_idx[p], b, v)
      BY <1>3, <2>1, WriteFields DEF DiskOK
    <2>3. id \in Ids /\ d.inode_ptrs[id] \in Inode
      BY <1>3, <2>1 DEF Sound, Resolves, in_cache, get_inode_by_path, Cache
    <2> QED BY <1>1, <1>3, <2>1, <2>2, <2>3 DEF d, id
  <1> QED BY <1>2, <1>3

\* write leaves the cache sound.
LEMMA SoundWrite ==
  ASSUME NEW c, Sound(c), DiskOK, NEW p \in Paths, NEW b \in Blocks, NEW v \in Values,
         HasRoom(c, InodeId(c, p))
  PROVE  Sound(write(c, p, b, v))
  BY WriteCases, SoundWritten DEF DiskOK
-----------------------------------------------------------------------------
(* Renaming.                                                               *)

\* A path that is not cached is loaded if it can be; the other paths stay as
\* they are, and keep their room.
LEMMA LoadOther ==
  ASSUME NEW c, Sound(c), DiskOK, NEW p \in Paths, HasRoom(c, InodeId(c, p)),
         NEW q \in Paths, p # q, HasRoom(c, InodeId(c, q)),
         NEW d, d = IF in_cache(c, p) THEN c ELSE load_from_disk(c, p)
  PROVE  /\ Sound(d)
         /\ d.inode_idx[q] = c.inode_idx[q]
         /\ ~in_cache(d, q) => HasRoom(d, crypto_hash(q))
  <1>1. CASE d = c
    BY <1>1 DEF in_cache, InodeId
  <1>2. CASE d # c
    <2>1. d = load_from_disk(c, p) /\ InodeId(c, p) = crypto_hash(p)
      BY <1>2 DEF InodeId
    <2>2. get_latest_inode(p, TRUE) # Nil
      BY <1>2, <2>1 DEF load_from_disk
    <2>3. Sound(d) /\ Loaded(c, d, p)
      BY <2>1, <2>2, SoundLoad, LoadFields
    <2>4. c \in Cache
      BY DEF Sound
    <2>5. d.inode_idx[q] = c.inode_idx[q]
      BY <2>3, <2>4 DEF Loaded, Cache
    <2>6. ASSUME ~in_cache(d, q), NEW b \in Blocks
          PROVE  NewRefs(d, crypto_hash(q), b) # {}
      <3>1. InodeId(c, q) = crypto_hash(q)
        BY <2>5, <2>6 DEF InodeId, in_cache
      <3>2. NewRefs(c, crypto_hash(q), b) # {}
        BY <3>1 DEF HasRoom
      <3>3. crypto_hash(q) \in Ids /\ crypto_hash(q) # crypto_hash(p)
        BY PathId, HashInjective
      <3> QED BY <2>1, <2>2, <3>2, <3>3, RoomAfterLoad
    <2> QED BY <2>3, <2>5, <2>6 DEF HasRoom
  <1> QED BY <1>1, <1>2

\* rename leaves the cache sound, although inodes come to share objects.
LEMMA SoundRename ==
  ASSUME NEW c, Sound(c), DiskOK, NEW from \in Paths, NEW to \in Paths, from # to,
         HasRoom(c, InodeId(c, from)), HasRoom(c, InodeId(c, to))
  PROVE  Sound(rename(c, from, to))
  <1> DEFINE c1 == IF in_cache(c, from) THEN c ELSE load_from_disk(c, from)
             c2 == IF in_cache(c1, to) THEN c1 ELSE load_from_disk(c1, to)
             mode == get_inode_by_path(c1, from).mode
             c3 == IF in_cache(c2, to) THEN c2 ELSE make_file(c2, to, mode)
             that == get_inode_by_path(c3, from)
             gone == delete_inode(that)
             id == c3.inode_idx[from]
             c4 == [c3 EXCEPT !.inode_ptrs[id] = gone]
             ino == RenamedInode(that)
             c5 == [c4 EXCEPT !.inode_idx[to] = crypto_hash(to),
                              !.inode_ptrs[crypto_hash(to)] = ino,
                              !.has_changed = TRUE]
  <1>1. rename(c, from, to) = IF ~in_cache(c1, from) THEN c ELSE c5
    BY DEF rename, get_inode_by_path
  <1> HIDE DEF c5
  <1>2. CASE ~in_cache(c1, from)
    BY <1>1, <1>2
  <1>3. CASE in_cache(c1, from)
    <2>1. Sound(c1) /\ (~in_cache(c1, to) => HasRoom(c1, crypto_hash(to)))
      <3> HIDE DEF c1
      <3> QED BY LoadOther DEF c1
    <2> HIDE DEF c1
    <2>2. Sound(c2) /\ in_cache(c2, from)
      <3>1. CASE in_cache(c1, to) \/ get_latest_inode(to, TRUE) = Nil
        BY <1>3, <2>1, <3>1 DEF load_from_disk
      <3>2. CASE ~in_cache(c1, to) /\ get_latest_inode(to, TRUE) # Nil
        <4>1. Sound(c2) /\ Loaded(c1, c2, to)
          BY <2>1, <3>2, SoundLoad, LoadFields
        <4>2. c1 \in Cache
          BY <2>1 DEF Sound
        <4> HIDE DEF c2
        <4>3. c2.inode_idx[from] = c1.inode_idx[from]
          BY <4>1, <4>2 DEF Loaded, Cache
        <4> QED BY <1>3, <4>1, <4>3 DEF in_cache
      <3> QED BY <3>1, <3>2
    <2>3. mode \in Modes
      BY <1>3, <2>1 DEF Sound, Resolves, Inode
    <2> HIDE DEF c2, mode
    <2>4. Sound(c3) /\ in_cache(c3, from)
      <3>1. CASE in_cache(c2, to)
        BY <2>2, <3>1
      <3>2. CASE ~in_cache(c2, to)
        <4>1. Sound(c3)
          BY <2>2, <2>3, <3>2, PathId, MakeFileAssigns, SoundAssigned DEF DiskOK
        <4>2. c3.inode_idx[from] = c2.inode_idx[from]
          BY <2>2, <3>2 DEF make_file, Sound, Cache
        <4> QED BY <2>2, <4>1, <4>2 DEF in_cache
      <3> QED BY <3>1, <3>2
    <2> HIDE DEF c3
    <2>5. c3 \in Cache /\ Placed(c3) /\ now \in Nat /\ crypto_hash(to) \in Ids
      BY <2>4, PathId DEF Sound, DiskOK
    <2>6. id \in Ids /\ that = c3.inode_ptrs[id] /\ that \in Inode /\ that # Nil
      BY <2>4, <2>5, NilAssumption DEF Sound, Resolves, in_cache, get_inode_by_path, Cache
    <2> HIDE DEF id, that
    <2>7. gone \in Inode /\ gone.blocks = NoBlocks
      BY <2>5, <2>6, DeleteInodeType
    <2>8. /\ ino \in Inode
          /\ \A b \in Blocks : ino.blocks[b] # Nil => ino.blocks[b].blk = b
      <3>1. ino \in Inode /\ ino.blocks = that.blocks
        BY <2>5, <2>6 DEF RenamedInode, Inode
      <3> HIDE DEF ino
      <3> QED BY <2>5, <2>6, <3>1 DEF Placed
    <2> HIDE DEF gone, ino
    <2>9. /\ c4 \in Cache
          /\ c4.inode_idx = c3.inode_idx
          /\ c4.inode_ptrs = [c3.inode_ptrs EXCEPT ![id] = gone]
          /\ c4.dirty_block = c3.dirty_block
          /\ c4.block = c3.block
      BY <2>5, <2>7 DEF Cache
    <2> HIDE DEF c4
    <2>10. Sound(c4)
      BY <2>4, <2>6, <2>7, <2>9, ReplaceShrinks, SoundShrunk
    <2>11. /\ c5 \in Cache
           /\ c5.inode_idx = [c4.inode_idx EXCEPT ![to] = crypto_hash(to)]
           /\ c5.inode_ptrs = [c4.inode_ptrs EXCEPT ![crypto_hash(to)] = ino]
           /\ c5.dirty_block = c4.dirty_block
           /\ c5.block = c4.block
      BY <2>5, <2>8, <2>9 DEF Cache, c5
    <2>12. Sound(c5)
      BY <2>5, <2>8, <2>10, <2>11, SoundAssign
    <2> QED BY <1>1, <1>3, <2>12
  <1> QED BY <1>2, <1>3
-----------------------------------------------------------------------------
(* Flushing, and the requests.                                             *)

\* A cache that was just made, or just flushed, is sound.
LEMMA SoundEmpty ==
  ASSUME NEW size \in 0..(SizeMod - 1)
  PROVE  /\ Sound(EmptyCache(size))
         /\ \A c \in Cache : size = 0 => Sound(Flushed(c))
  <1> DEFINE E(flag) == [inode_idx |-> [p \in Paths |-> Nil],
                         inode_ptrs |-> [id \in Ids |-> Nil],
                         dirty_block |-> [id \in Ids |-> NoBlocks],
                         block |-> [r \in Refs |-> Nil],
                         size |-> size,
                         has_changed |-> flag]
  <1>1. ASSUME NEW flag \in BOOLEAN PROVE Sound(E(flag))
    <2>1. E(flag) \in Cache
      BY DEF Cache, NoBlocks
    <2>2. Resolves(E(flag)) /\ Placed(E(flag)) /\ Filled(E(flag))
      BY DEF Resolves, Placed, Filled, in_cache, NoBlocks
    <2> QED BY <2>1, <2>2 DEF Sound
  <1>2. EmptyCache(size) = E(FALSE)
    BY DEF EmptyCache
  <1>3. ASSUME NEW c \in Cache, size = 0 PROVE Flushed(c) = E(c.has_changed) /\ c.has_changed \in BOOLEAN
    BY <1>3 DEF Flushed, EmptyCache, Cache
  <1> HIDE DEF E
  <1> QED BY <1>1, <1>2, <1>3

\* add_inode writes well-formed inodes.
LEMMA FlushedInodeType ==
  ASSUME NEW c, Sound(c), NEW id \in Cached(c)
  PROVE  id \in Ids /\ FlushedInode(c, id) \in DiskInode
  <1>1. c \in Cache /\ Resolves(c) /\ Filled(c)
    BY DEF Sound
  <1>2. id \in Ids /\ c.inode_ptrs[id] \in Inode
    BY <1>1 DEF Cached, Resolves, in_cache, get_inode_by_path, Cache
  <1> DEFINE dirty == c.dirty_block[id]
             data(b) == [data |-> c.block[dirty[b].ref], mtime |-> dirty[b].mtime]
             bl == [b \in Blocks |-> IF dirty[b] = Nil THEN Nil ELSE data(b)]
  <1>3. ASSUME NEW b \in Blocks, dirty[b] # Nil
        PROVE  data(b) \in [data : Values, mtime : Nat]
    <2>1. c.block[dirty[b].ref] \in Values
      BY <1>1, <1>2, <1>3 DEF Filled
    <2>2. dirty[b].mtime \in Nat
      BY <1>1, <1>2, <1>3 DEF Cache, Dirty
    <2> QED BY <2>1, <2>2
  <1> HIDE DEF data
  <1>4. bl \in [Blocks -> [data : Values, mtime : Nat] \cup {Nil}]
    BY <1>3
  <1>5. FlushedInode(c, id) =
          [mode |-> c.inode_ptrs[id].mode, nlink |-> c.inode_ptrs[id].nlink,
           mtime |-> c.inode_ptrs[id].mtime, size |-> c.inode_ptrs[id].size,
           deleted |-> c.inode_ptrs[id].deleted, blocks |-> bl]
    BY DEF FlushedInode, data
  <1> HIDE DEF bl
  <1> QED BY <1>2, <1>4, <1>5 DEF Inode, DiskInode

\* A tree of well-formed inodes is well-formed.
LEMMA NewTreeType ==
  ASSUME NEW c, Sound(c)
  PROVE  NewTree(c) \in Tree
  BY FlushedInodeType DEF NewTree, Tree

\* A sequence over a set is one over every larger set.
LEMMA SeqMonotone ==
  ASSUME NEW S, NEW T, S \subseteq T, NEW s \in Seq(S)
  PROVE  s \in Seq(T)
  <1>1. Len(s) \in Nat /\ s \in [1..Len(s) -> T]
    OBVIOUS
  <1> QED BY <1>1

\* What a flush does to the disk.
LEMMA FlushType ==
  ASSUME TypeOK, NEW c, Sound(c), flush_to_disk(c)
  PROVE  disk' \in Seq(Tree) /\ now' \in Nat /\ visit \in Seq(1..Len(disk'))
  <1>1. disk \in Seq(Tree) /\ visit \in Seq(1..Len(disk)) /\ now \in Nat
    BY DEF TypeOK, Tree
  <1>2. CASE Cached(c) = {}
    BY <1>1, <1>2 DEF flush_to_disk
  <1>3. CASE Cached(c) # {}
    <2>1. NewTree(c) \in Tree
      BY NewTreeType
    <2>2. disk' = Append(disk, NewTree(c)) /\ \E d \in ClockSteps : now' = now + d
      BY <1>3 DEF flush_to_disk
    <2>3. disk' \in Seq(Tree) /\ Len(disk') = Len(disk) + 1
      BY <1>1, <2>1, <2>2
    <2>4. now' \in Nat
      BY <1>1, <2>2, CacheAssumption
    <2>5. visit \in Seq(1..Len(disk'))
      <3>1. 1..Len(disk) \subseteq 1..Len(disk')
        BY <1>1, <2>3
      <3> QED BY <1>1, <3>1, SeqMonotone
    <2> QED BY <2>3, <2>4, <2>5
  <1> QED BY <1>2, <1>3

\* The end of write and truncate.
LEMMA FlushToShdw ==
  ASSUME TypeOK, NEW c, Sound(c), flush_to_shdw(c)
  PROVE  Sound(cache') /\ disk' \in Seq(Tree) /\ now' \in Nat /\ visit \in Seq(1..Len(disk'))
  <1>1. CASE c.size < MAX_SIZE \/ ~c.has_changed
    <2>1. cache' = Freed(c) /\ disk' = disk /\ now' = now
      BY <1>1 DEF flush_to_shdw
    <2> QED BY <2>1, SoundFreed DEF TypeOK, Tree
  <1>2. CASE ~(c.size < MAX_SIZE \/ ~c.has_changed)
    <2>1. cache' = Flushed(c) /\ flush_to_disk(c)
      BY <1>2 DEF flush_to_shdw
    <2>2. 0 \in 0..(SizeMod - 1)
      BY CacheAssumption
    <2>3. Sound(cache')
      BY <2>1, <2>2, SoundEmpty DEF Sound
    <2> QED BY <2>1, <2>3, FlushType
  <1> QED BY <1>1, <1>2

\* A step that keeps each part of the state well-formed keeps the invariant.
LEMMA Parts ==
  ASSUME mounted' \in BOOLEAN, Sound(cache'), disk' \in Seq(Tree),
         visit' \in Seq(1..Len(disk')), mapped' \in BOOLEAN, handles' \subseteq Paths, now' \in Nat
  PROVE  IInv'
  <1>1. TypeOK'
    BY DEF TypeOK, Tree, Sound
  <1> QED BY <1>1 DEF IInv, Sound, Resolves, Placed, Filled

\* The process ends.
LEMMA DownIInv ==
  ASSUME TypeOK, Down, disk' \in Seq(Tree), now' \in Nat
  PROVE  IInv'
  <1>1. 0 \in 0..(SizeMod - 1)
    BY CacheAssumption
  <1>2. Sound(cache')
    BY <1>1, SoundEmpty DEF Down
  <1>3. visit' \in Seq(1..Len(disk'))
    BY DEF Down
  <1> QED BY <1>2, <1>3, Parts DEF Down

\* A new mount starts from an empty disk.
LEMMA InitIInv == Init => IInv
  <1> SUFFICES ASSUME Init PROVE IInv
    OBVIOUS
  <1>1. 0 \in 0..(SizeMod - 1)
    BY CacheAssumption
  <1>2. Sound(cache)
    BY <1>1, SoundEmpty DEF Init
  <1>3. TypeOK
    <2>1. cache \in Cache
      BY <1>2 DEF Sound
    <2>2. disk \in Seq([Ids -> DiskInode \cup {Nil}]) /\ visit \in Seq(1..Len(disk))
      BY DEF Init
    <2> QED BY <2>1, <2>2 DEF Init, TypeOK
  <1> QED BY <1>2, <1>3 DEF IInv

\* Orders are sequences.
LEMMA OrderType ==
  ASSUME NEW n \in Nat, NEW v \in Orders(n)
  PROVE  v \in Seq(1..n)
  <1>1. v \in [1..n -> 1..n]
    BY DEF Orders, Bijection, Injection
  <1> QED BY <1>1

\* Every request, fault, crash and mount preserves the invariant.
LEMMA NextIInv == IInv /\ [Next]_vars => IInv'
  <1> SUFFICES ASSUME IInv, [Next]_vars PROVE IInv'
    OBVIOUS
  <1>0. /\ TypeOK /\ Sound(cache) /\ DiskOK
        /\ disk \in Seq(Tree) /\ visit \in Seq(1..Len(disk)) /\ now \in Nat
        /\ handles \subseteq Paths /\ mounted \in BOOLEAN /\ mapped \in BOOLEAN
    BY DEF IInv, TypeOK, Tree, DiskOK
  <1> USE <1>0
  <1>1. ASSUME NEW p \in FilePaths, zippyfs_mknod(p) PROVE IInv'
    <2>1. Sound(cache')
      BY <1>1, PathId, MakeFileAssigns, SoundAssigned, SoundFreed DEF zippyfs_mknod, Modes, Paths
    <2> QED BY <1>1, <2>1, Parts DEF zippyfs_mknod
  <1>2. ASSUME NEW p \in DirPaths, zippyfs_mkdir(p) PROVE IInv'
    <2>1. Sound(cache')
      BY <1>2, PathId, MakeFileAssigns, SoundAssigned, SoundFreed DEF zippyfs_mkdir, Modes, Paths
    <2> QED BY <1>2, <2>1, Parts DEF zippyfs_mkdir
  <1>3. ASSUME NEW p \in Paths, zippyfs_open(p) PROVE IInv'
    <2>1. Sound(cache')
      <3>1. CASE in_cache(cache, p)
        BY <1>3, <3>1 DEF zippyfs_open
      <3>2. CASE ~in_cache(cache, p)
        <4>1. HasRoom(cache, crypto_hash(p)) /\ cache' = load_from_disk(cache, p)
          BY <1>3, <3>2 DEF zippyfs_open, Loadable
        <4> QED BY <4>1, SoundLoad
      <3> QED BY <3>1, <3>2
    <2> QED BY <1>3, <2>1, Parts DEF zippyfs_open
  <1>4. ASSUME NEW p \in Paths, close(p) PROVE IInv'
    BY <1>4, Parts DEF close
  <1>5. ASSUME NEW p \in Paths, zippyfs_unlink(p) PROVE IInv'
    <2>1. Sound(cache')
      BY <1>5, RemoveShrinks, SoundShrunk, SoundFreed DEF zippyfs_unlink
    <2> QED BY <1>5, <2>1, Parts DEF zippyfs_unlink
  <1>6. ASSUME NEW p \in Paths, zippyfs_rmdir(p) PROVE IInv'
    <2>1. Sound(cache')
      BY <1>6, RmdirShrinks, SoundShrunk, SoundFreed DEF zippyfs_rmdir
    <2> QED BY <1>6, <2>1, Parts DEF zippyfs_rmdir
  <1>7. ASSUME NEW p \in Paths, NEW b \in Blocks, zippyfs_read(p, b) PROVE IInv'
    <2> DEFINE c == IF in_cache(cache, p) THEN cache ELSE load_from_disk(cache, p)
    <2>1. CASE Down /\ UNCHANGED <<disk, now>>
      BY <2>1, DownIInv
    <2>2. CASE cache' = c /\ UNCHANGED <<mounted, disk, visit, mapped, handles, now>>
      <3>1. Sound(cache')
        <4>1. CASE in_cache(cache, p)
          BY <2>2, <4>1
        <4>2. CASE ~in_cache(cache, p)
          <5>1. HasRoom(cache, crypto_hash(p)) /\ cache' = load_from_disk(cache, p)
            BY <1>7, <2>2, <4>2 DEF zippyfs_read, Loadable
          <5> QED BY <5>1, SoundLoad
        <4> QED BY <4>1, <4>2
      <3> QED BY <2>2, <3>1, Parts
    <2> HIDE DEF c
    <2>3. \/ Down /\ UNCHANGED <<disk, now>>
          \/ cache' = c /\ UNCHANGED <<mounted, disk, visit, mapped, handles, now>>
      BY <1>7, Zenon DEF zippyfs_read, c
    <2> QED BY <2>1, <2>2, <2>3
  <1>8. ASSUME NEW p \in Paths, NEW b \in Blocks, NEW v \in Values, zippyfs_write(p, b, v)
        PROVE  IInv'
    <2>1. HasRoom(cache, InodeId(cache, p))
      BY <1>8 DEF zippyfs_write, Loadable, InodeId
    <2>2. Sound(write(cache, p, b, v))
      BY <2>1, SoundWrite
    <2>3. Sound(cache') /\ disk' \in Seq(Tree) /\ now' \in Nat /\ visit \in Seq(1..Len(disk'))
      BY <1>8, <2>2, FlushToShdw DEF zippyfs_write
    <2> QED BY <1>8, <2>3, Parts DEF zippyfs_write
  <1>9. ASSUME NEW p \in Paths, NEW n \in Lengths, zippyfs_truncate(p, n) PROVE IInv'
    <2>1. n \in Nat
      BY CacheAssumption
    <2>2. Sound(truncate(cache, p, n))
      BY <2>1, TruncateShrinks, SoundShrunk
    <2>3. Sound(cache') /\ disk' \in Seq(Tree) /\ now' \in Nat /\ visit \in Seq(1..Len(disk'))
      BY <1>9, <2>2, FlushToShdw DEF zippyfs_truncate
    <2> QED BY <1>9, <2>3, Parts DEF zippyfs_truncate
  <1>10. ASSUME NEW l \in Links, zippyfs_symlink(l[1], l[2]) PROVE IInv'
    <2>1. l[1] \in Names /\ l[2] \in Paths
      BY CacheAssumption
    <2>2. Sound(cache')
      BY <1>10, <2>1, HashId, SymlinkAssigns, SoundAssigned, SoundFreed DEF zippyfs_symlink
    <2> QED BY <1>10, <2>2, Parts DEF zippyfs_symlink
  <1>11. ASSUME NEW r \in Renames, zippyfs_rename(r[1], r[2]) PROVE IInv'
    <2>1. r[1] \in Paths /\ r[2] \in Paths /\ r[1] # r[2]
      BY CacheAssumption
    <2>2. HasRoom(cache, InodeId(cache, r[1])) /\ HasRoom(cache, InodeId(cache, r[2]))
      BY <1>11 DEF zippyfs_rename, Loadable, InodeId
    <2>3. Sound(cache')
      BY <1>11, <2>1, <2>2, SoundRename, SoundFreed DEF zippyfs_rename
    <2>4. handles' \subseteq Paths
      BY <1>11, <2>1 DEF zippyfs_rename
    <2> QED BY <1>11, <2>3, <2>4, Parts DEF zippyfs_rename
  <1>12. ASSUME NEW p \in Paths, lookup_fault(p) PROVE IInv'
    BY <1>12, DownIInv DEF lookup_fault
  <1>13. CASE zippyfs_readdir
    <2>1. visit' \in Seq(1..Len(disk))
      BY <1>13, OrderType DEF zippyfs_readdir
    <2> QED BY <1>13, <2>1, Parts DEF zippyfs_readdir
  <1>14. CASE zippyfs_destroy
    <2>1. disk' \in Seq(Tree) /\ now' \in Nat
      BY <1>14, FlushType DEF zippyfs_destroy
    <2> QED BY <1>14, <2>1, DownIInv DEF zippyfs_destroy
  <1>15. CASE kill
    BY <1>15, DownIInv DEF kill
  <1>16. CASE zippyfs_init
    <2>1. visit' \in Seq(1..Len(disk))
      BY <1>16, OrderType DEF zippyfs_init
    <2>2. Sound(cache')
      BY <1>16, SoundEmpty, CacheAssumption DEF zippyfs_init
    <2> QED BY <1>16, <2>1, <2>2, Parts DEF zippyfs_init
  <1>17. CASE UNCHANGED vars
    BY <1>17, Parts DEF vars
  <1> QED BY <1>1, <1>2, <1>3, <1>4, <1>5, <1>6, <1>7, <1>8, <1>9, <1>10, <1>11, <1>12,
             <1>13, <1>14, <1>15, <1>16, <1>17 DEF Next

\* The state of the cache, the trees and the loader stays well-formed.
THEOREM TypeCorrect == Spec => []TypeOK
  <1>1. IInv => TypeOK
    BY DEF IInv
  <1> QED BY <1>1, InitIInv, NextIInv, PTL DEF Spec
=============================================================================
