--------------------------- MODULE TreeFileProofs ---------------------------
(***************************************************************************)
(* The TREE file, for all caches and all orders of a flush: wherever it is *)
(* cut off, the loader finds the inodes that were added, each with its own *)
(* path and blocks, and no other (CutTreeReadable), and lists their names  *)
(* (CutTreeListable); and when links are no longer than their paths, what  *)
(* was counted is enough for what is stored (RegionsHold).                 *)
(***************************************************************************)
EXTENDS TreeFile, FiniteSetTheorems, TLAPS

-----------------------------------------------------------------------------
(* Sums.                                                                   *)

Pairs(S, f) == UNION {{x} \X (1..f[x]) : x \in S}

\* The sum over a part of a function's domain.
LEMMA TotalPairs ==
  ASSUME NEW S, NEW f
  PROVE  Total([x \in S |-> f[x]]) = Cardinality(Pairs(S, f))
  BY DEF Total, Pairs

\* A value is as many pairs.
LEMMA Row ==
  ASSUME NEW x, NEW n \in Nat
  PROVE  IsFiniteSet({x} \X (1..n)) /\ Cardinality({x} \X (1..n)) = n
  <1> DEFINE A == {x}
             B == 1..n
  <1>1. IsFiniteSet(A) /\ Cardinality(A) = 1
    BY FS_Singleton
  <1>2. IsFiniteSet(B) /\ Cardinality(B) = n
    BY FS_Interval
  <1> HIDE DEF A, B
  <1>3. IsFiniteSet(A \X B) /\ Cardinality(A \X B) = Cardinality(A) * Cardinality(B)
    BY <1>1, <1>2, FS_Product
  <1>4. Cardinality(A \X B) = n
    BY <1>1, <1>2, <1>3
  <1> QED BY <1>3, <1>4 DEF A, B

\* A sum of finitely many naturals is one.
LEMMA PairsFinite ==
  ASSUME NEW S, IsFiniteSet(S), NEW f, \A x \in S : f[x] \in Nat
  PROVE  IsFiniteSet(Pairs(S, f)) /\ Cardinality(Pairs(S, f)) \in Nat
  <1> DEFINE T == {{x} \X (1..f[x]) : x \in S}
             row == [x \in S |-> {x} \X (1..f[x])]
  <1>1. row \in Surjection(S, T)
    BY DEF Surjection
  <1>2. IsFiniteSet(T)
    BY <1>1, FS_Surjection
  <1>3. ASSUME NEW t \in T PROVE IsFiniteSet(t)
    <2>1. PICK x \in S : t = {x} \X (1..f[x])
      BY <1>3
    <2> QED BY <2>1, Row
  <1> HIDE DEF T
  <1>4. IsFiniteSet(UNION T)
    BY <1>2, <1>3, FS_UNION
  <1> QED BY <1>4, FS_CardinalityType DEF Pairs, T

\* One more summand.
LEMMA TotalAdd ==
  ASSUME NEW S, IsFiniteSet(S), NEW y, y \notin S, NEW f, \A x \in S \cup {y} : f[x] \in Nat
  PROVE  /\ Total([x \in S |-> f[x]]) \in Nat
         /\ Total([x \in S \cup {y} |-> f[x]]) = Total([x \in S |-> f[x]]) + f[y]
  <1> DEFINE row == {y} \X (1..f[y])
  <1>1. IsFiniteSet(Pairs(S, f)) /\ Cardinality(Pairs(S, f)) \in Nat
    BY PairsFinite
  <1>2. IsFiniteSet(row) /\ Cardinality(row) = f[y]
    BY Row
  <1>3. Pairs(S \cup {y}, f) = Pairs(S, f) \cup row
    BY DEF Pairs
  <1>4. Pairs(S, f) \cap row = {}
    BY DEF Pairs
  <1> HIDE DEF row
  <1>5. Cardinality(Pairs(S, f) \cup row) =
          Cardinality(Pairs(S, f)) + Cardinality(row) - Cardinality(Pairs(S, f) \cap row)
    BY <1>1, <1>2, FS_Union
  <1>6. f[y] \in Nat /\ Cardinality(Pairs(S, f) \cap row) = 0
    BY <1>4, FS_EmptySet
  <1>7. Cardinality(Pairs(S \cup {y}, f)) = Cardinality(Pairs(S, f)) + f[y]
    <2> DEFINE k == Cardinality(Pairs(S, f))
               l == Cardinality(Pairs(S, f) \cap row)
    <2>1. Cardinality(Pairs(S \cup {y}, f)) = k + f[y] - l
      BY <1>2, <1>3, <1>5
    <2>2. k \in Nat /\ l = 0
      BY <1>1, <1>6
    <2> HIDE DEF k, l
    <2>3. k + f[y] - l = k + f[y]
      BY <1>6, <2>2
    <2> QED BY <2>1, <2>3 DEF k
  <1> QED BY <1>1, <1>7, TotalPairs

\* Fewer and smaller summands.
LEMMA TotalLess ==
  ASSUME NEW T, IsFiniteSet(T), NEW S, S \subseteq T, NEW f, NEW g,
         \A x \in T : g[x] \in Nat, \A x \in S : f[x] \in Nat /\ f[x] <= g[x]
  PROVE  /\ Total([x \in S |-> f[x]]) \in Nat
         /\ Total([x \in S |-> f[x]]) <= Total([x \in T |-> g[x]])
  <1>1. IsFiniteSet(Pairs(T, g)) /\ Cardinality(Pairs(T, g)) \in Nat
    BY PairsFinite
  <1>2. Pairs(S, f) \subseteq Pairs(T, g)
    <2> SUFFICES ASSUME NEW x \in S, NEW z \in {x} \X (1..f[x]) PROVE z \in {x} \X (1..g[x])
      BY DEF Pairs
    <2>1. f[x] \in Nat /\ g[x] \in Nat /\ f[x] <= g[x]
      OBVIOUS
    <2> QED BY <2>1
  <1>3. IsFiniteSet(Pairs(S, f)) /\ Cardinality(Pairs(S, f)) <= Cardinality(Pairs(T, g))
    BY <1>1, <1>2, FS_Subset
  <1> QED BY <1>1, <1>3, FS_CardinalityType, TotalPairs
-----------------------------------------------------------------------------
(* The invariant.                                                          *)

Early == {"open", "truncate", "num_inodes", "root", "leaf", "regions"}
Late == {"path", "inode", "blocks", "insert", "torn", "done"}

\* The entry of id is being written, and not behind the cursors yet.
Busy == pc \in {"inode", "blocks"}

Record == [path : Nat, path_size : Nat, block_data : Int, block_data_size : Nat]

BlockData == [block_id : Nat, size : Nat, data_offset : Nat]

Memory ==
  [size : {"absent", "empty", "mapped"},
   header : [num_inodes : Nat, inode_list : BOOLEAN, root : BOOLEAN],
   tree : [is_leaf : BOOLEAN, slots : SUBSET Nat],
   inodes : Seq(Record),
   bytes : Seq((Names \X Nat \X Nat) \cup {Nil}),
   bds : Seq(BlockData \cup {Nil}),
   hashes : Seq(Names \cup {Nil}),
   paths : Seq((Names \X Nat) \cup {Nil})]

\* What does not change, and what the variables hold.
Shape ==
  /\ inode_idx \in [Paths -> Names \cup {Nil}]
  /\ dirty_block \in [Names -> Seq(Nat)]
  /\ pc \in Early \cup Late \cup {"overrun"}
  /\ todo \subseteq Cached
  /\ id \in Names \cup {Nil}
  /\ mem \in Memory
  /\ cur \in [inode : Nat, block : Nat, bd : Nat, initial_bd : Nat, path : Nat]

\* Before the regions are there nothing is written.
Clean ==
  /\ todo = Cached /\ id = Nil
  /\ mem.tree.slots = {}
  /\ cur = [inode |-> 0, block |-> 0, bd |-> 0, initial_bd |-> 0, path |-> 0]
  /\ pc \in {"root", "leaf", "regions"} => mem.header.num_inodes = num_ents

\* The regions have the lengths that were counted, and the cursors are in
\* them.
Sized ==
  /\ mem.header.num_inodes = num_ents
  /\ Len(mem.inodes) = num_ents /\ Len(mem.hashes) = num_ents
  /\ Len(mem.paths) = path_size /\ Len(mem.bytes) = block_size /\ Len(mem.bds) = num_blocks
  /\ cur.path <= Len(mem.paths) /\ cur.block <= Len(mem.bytes) /\ cur.bd <= Len(mem.bds)
  /\ cur.initial_bd <= cur.bd

\* Every entry met has its slot.
Counted ==
  /\ cur.inode + Cardinality(todo) + (IF Busy THEN 1 ELSE 0) = num_ents
  /\ {mem.hashes[s] : s \in 1..cur.inode} \cup (IF Busy THEN {id} ELSE {}) =
       {inode_idx[p] : p \in Cached \ todo}

\* The first count blocks of n are behind place at, behind none of the
\* cursors.
BlocksAt(m, n, at, count, end_bd, end_block) ==
  /\ at + count <= end_bd
  /\ \A k \in 1..count :
       LET b == m.bds[at + k]
       IN  /\ b \in BlockData
           /\ b.block_id = k /\ b.size = dirty_block[n][k]
           /\ b.data_offset + b.size <= end_block
           /\ \A i \in 1..b.size : m.bytes[b.data_offset + i] = <<n, k, i>>

PathAt(m, n, at, end_path) ==
  /\ at + Length[n] <= end_path
  /\ \A i \in 1..Length[n] : m.paths[at + i] = <<n, i>>

\* Slot s has the whole inode.
Whole(m, s, c) ==
  LET n == m.hashes[s]
      r == m.inodes[s]
  IN  /\ n \in Names
      /\ r.path_size = Length[n] /\ PathAt(m, n, r.path, c.path)
      /\ r.block_data_size = Len(dirty_block[n])
      /\ IF dirty_block[n] = << >> THEN r.block_data = -1
         ELSE /\ r.block_data \in Nat
              /\ BlocksAt(m, n, r.block_data, Len(dirty_block[n]), c.initial_bd, c.block)

\* What is written, for the entries met before and for the one being
\* written; the records behind are empty.
Stored ==
  /\ \A s \in 1..cur.inode : Whole(mem, s, cur)
  /\ Busy => /\ id \in Names /\ mem.hashes[cur.inode + 1] = id
             /\ PathAt(mem, id, cur.path, Len(mem.paths))
  /\ pc = "blocks" =>
       /\ mem.inodes[cur.inode + 1].path = cur.path
       /\ mem.inodes[cur.inode + 1].path_size = Length[id]
       /\ written <= Len(dirty_block[id])
       /\ BlocksAt(mem, id, cur.initial_bd, written, cur.bd, cur.block)
  /\ pc # "blocks" => cur.bd = cur.initial_bd
  /\ \A s \in (cur.inode + 1)..num_ents :
       pc # "blocks" \/ s # cur.inode + 1 => mem.inodes[s].path = 0 /\ mem.inodes[s].path_size = 0

\* The tree has the slots behind the cursor, but for the one to be inserted.
Indexed ==
  /\ mem.tree.slots = 1..(IF pc \in {"insert", "torn"} THEN cur.inode - 1 ELSE cur.inode)
  /\ pc \in {"insert", "torn"} => cur.inode > 0 /\ mem.hashes[cur.inode] = id
  /\ pc = "done" => todo = {}
  /\ id # Nil /\ pc \in {"path", "done"} => \E s \in 1..cur.inode : mem.hashes[s] = id

TInv ==
  /\ Shape
  /\ pc \in Early => Clean
  /\ pc \in Late => Sized /\ Counted /\ Stored /\ Indexed
-----------------------------------------------------------------------------
(* Helpers.                                                                *)

\* What is counted is a number.
LEMMA Counts ==
  ASSUME Shape
  PROVE  /\ IsFiniteSet(Cached) /\ IsFiniteSet(Names) /\ IsFiniteSet(DirtyBlocks)
         /\ num_ents \in Nat /\ path_size \in Nat /\ block_size \in Nat /\ num_blocks \in Nat
  <1>1. IsFiniteSet(Names) /\ IsFiniteSet(Cached) /\ Cached \subseteq Names
    <2>1. IsFiniteSet(Names) /\ Cached \subseteq Names
      BY TreeFileAssumption DEF Cached, Names
    <2> QED BY <2>1, FS_Subset
  <1>2. num_ents \in Nat
    BY <1>1, FS_CardinalityType DEF num_ents
  <1>3. path_size \in Nat
    <2>1. \A p \in Cached : Length[p] \in Nat
      BY <1>1, TreeFileAssumption
    <2> QED BY <1>1, <2>1, PairsFinite, TotalPairs DEF path_size
  <1>4. IsFiniteSet(DirtyBlocks) /\ num_blocks \in Nat
    <2> DEFINE f == [n \in Names |-> Len(dirty_block[n])]
    <2>1. \A n \in Names : f[n] \in Nat /\ 1..f[n] = DOMAIN dirty_block[n]
      BY DEF Shape
    <2>2. DirtyBlocks = Pairs(Names, f)
      BY <2>1 DEF DirtyBlocks, Pairs
    <2>3. num_blocks = Cardinality(Pairs(Names, f))
      BY DEF num_blocks, Total, Pairs
    <2> HIDE DEF f
    <2> QED BY <1>1, <2>1, <2>2, <2>3, PairsFinite
  <1>5. block_size \in Nat
    <2> DEFINE g == [x \in DirtyBlocks |-> dirty_block[x[1]][x[2]]]
    <2>1. \A x \in DirtyBlocks : g[x] \in Nat
      BY DEF DirtyBlocks, Shape
    <2>2. block_size = Cardinality(Pairs(DirtyBlocks, g))
      BY DEF block_size, Total, Pairs
    <2> HIDE DEF g
    <2> QED BY <1>4, <2>1, <2>2, PairsFinite
  <1> QED BY <1>1, <1>2, <1>3, <1>4, <1>5

\* The counts stay what they are.
LEMMA SameCounts ==
  ASSUME UNCHANGED cache
  PROVE  /\ inode_idx' = inode_idx /\ dirty_block' = dirty_block
         /\ Cached' = Cached /\ DirtyBlocks' = DirtyBlocks /\ num_ents' = num_ents
         /\ path_size' = path_size /\ block_size' = block_size /\ num_blocks' = num_blocks
  BY DEF cache, Cached, DirtyBlocks, num_ents, path_size, block_size, num_blocks

\* A name is a number, with a length and a list of sizes.
LEMMA NameFacts ==
  ASSUME Shape, NEW n \in Names
  PROVE  /\ n # Nil /\ Length[n] \in Nat /\ Length[n] > 0
         /\ dirty_block[n] \in Seq(Nat) /\ Len(dirty_block[n]) \in Nat
         /\ \A k \in 1..Len(dirty_block[n]) : dirty_block[n][k] \in Nat
  <1>1. n # Nil
    BY TreeFileAssumption
  <1>2. Length[n] \in Nat \ {0}
    BY TreeFileAssumption
  <1>3. dirty_block[n] \in Seq(Nat)
    BY DEF Shape
  <1> DEFINE d == dirty_block[n]
  <1>4. d \in Seq(Nat) => Len(d) \in Nat /\ \A k \in 1..Len(d) : d[k] \in Nat
    <2> HIDE DEF d
    <2> QED OBVIOUS
  <1>5. Length[n] \in Nat /\ Length[n] > 0
    BY <1>2
  <1> QED BY <1>1, <1>3, <1>4, <1>5

\* memcpy, inside the region or not.
LEMMA PutFacts ==
  ASSUME NEW T, NEW region \in Seq(T), NEW at \in Nat, NEW s \in Seq(T)
  PROVE  /\ Put(region, at, s) \in Seq(T)
         /\ Len(Put(region, at, s)) = Len(region)
         /\ \A i \in 1..Len(region) : i <= at => Put(region, at, s)[i] = region[i]
         /\ at + Len(s) <= Len(region) =>
              \A i \in 1..Len(s) : Put(region, at, s)[at + i] = s[i]
  <1> DEFINE v(i) == IF i > at /\ i <= at + Len(s) THEN s[i - at] ELSE region[i]
             r == [i \in 1..Len(region) |-> v(i)]
  <1>1. Len(region) \in Nat /\ DOMAIN region = 1..Len(region) /\ Len(s) \in Nat
    OBVIOUS
  <1>2. Put(region, at, s) = r
    BY <1>1 DEF Put
  <1>3. \A i \in 1..Len(region) : v(i) \in T
    <2> SUFFICES ASSUME NEW i \in 1..Len(region) PROVE v(i) \in T
      OBVIOUS
    <2>1. CASE i > at /\ i <= at + Len(s)
      <3>1. i - at \in 1..Len(s)
        BY <1>1, <2>1
      <3> QED BY <2>1, <3>1
    <2>2. CASE ~(i > at /\ i <= at + Len(s))
      BY <2>2
    <2> QED BY <2>1, <2>2
  <1>4. \A i \in 1..Len(region) : i <= at => r[i] = region[i]
    BY <1>1
  <1>5. ASSUME at + Len(s) <= Len(region), NEW i \in 1..Len(s) PROVE r[at + i] = s[i]
    <2>1. at + i \in 1..Len(region) /\ at + i > at /\ at + i <= at + Len(s) /\ (at + i) - at = i
      BY <1>1, <1>5
    <2> QED BY <2>1
  <1>6. r \in Seq(T) /\ Len(r) = Len(region)
    <2> HIDE DEF v
    <2> QED BY <1>1, <1>3
  <1> QED BY <1>2, <1>4, <1>5, <1>6

\* The bytes of a name and of a block.
LEMMA SourceFacts ==
  ASSUME Shape, NEW n \in Names
  PROVE  /\ Chars(n) \in Seq((Names \X Nat) \cup {Nil}) /\ Len(Chars(n)) = Length[n]
         /\ \A i \in 1..Length[n] : Chars(n)[i] = <<n, i>>
         /\ \A k \in 1..Len(dirty_block[n]) :
              /\ BlockBytes(n, k) \in Seq((Names \X Nat \X Nat) \cup {Nil})
              /\ Len(BlockBytes(n, k)) = dirty_block[n][k]
              /\ \A i \in 1..dirty_block[n][k] : BlockBytes(n, k)[i] = <<n, k, i>>
  <1>1. n \in Names /\ Length[n] \in Nat
    BY NameFacts
  <1>2. /\ Chars(n) \in Seq((Names \X Nat) \cup {Nil}) /\ Len(Chars(n)) = Length[n]
        /\ \A i \in 1..Length[n] : Chars(n)[i] = <<n, i>>
    <2> DEFINE l == Length[n]
    <2>1. Chars(n) = [i \in 1..l |-> <<n, i>>] /\ l \in Nat
      BY <1>1 DEF Chars
    <2> HIDE DEF l
    <2>2. \A i \in 1..l : <<n, i>> \in (Names \X Nat) \cup {Nil}
      BY <1>1, <2>1
    <2>3. Len(Chars(n)) = l /\ \A i \in 1..l : Chars(n)[i] = <<n, i>>
      BY <2>1
    <2>4. Chars(n) \in Seq((Names \X Nat) \cup {Nil})
      BY <2>1, <2>2
    <2> QED BY <2>3, <2>4 DEF l
  <1>3. ASSUME NEW k \in 1..Len(dirty_block[n])
        PROVE  /\ BlockBytes(n, k) \in Seq((Names \X Nat \X Nat) \cup {Nil})
               /\ Len(BlockBytes(n, k)) = dirty_block[n][k]
               /\ \A i \in 1..dirty_block[n][k] : BlockBytes(n, k)[i] = <<n, k, i>>
    <2> DEFINE l == dirty_block[n][k]
    <2>1. BlockBytes(n, k) = [i \in 1..l |-> <<n, k, i>>]
      BY DEF BlockBytes
    <2>2. l \in Nat /\ k \in Nat
      BY NameFacts
    <2> HIDE DEF l
    <2>3. \A i \in 1..l : <<n, k, i>> \in (Names \X Nat \X Nat) \cup {Nil}
      BY <1>1, <2>2
    <2>4. Len(BlockBytes(n, k)) = l /\ \A i \in 1..l : BlockBytes(n, k)[i] = <<n, k, i>>
      BY <2>1, <2>2
    <2>5. BlockBytes(n, k) \in Seq((Names \X Nat \X Nat) \cup {Nil})
      BY <2>1, <2>2, <2>3
    <2> QED BY <2>4, <2>5 DEF l
  <1> QED BY <1>2, <1>3

\* What is behind no cursor stays.
LEMMA BlocksKeep ==
  ASSUME NEW m, NEW m2, NEW n \in Names, NEW at \in Nat, NEW count \in Nat,
         NEW e \in Nat, NEW f \in Nat, NEW e2 \in Nat, NEW f2 \in Nat, e <= e2, f <= f2,
         \A i \in 1..e : m2.bds[i] = m.bds[i],
         \A i \in 1..f : m2.bytes[i] = m.bytes[i],
         BlocksAt(m, n, at, count, e, f)
  PROVE  BlocksAt(m2, n, at, count, e2, f2)
  <1>1. at + count <= e2
    BY DEF BlocksAt
  <1>2. ASSUME NEW k \in 1..count
        PROVE  LET b == m2.bds[at + k]
               IN  /\ b \in BlockData
                   /\ b.block_id = k /\ b.size = dirty_block[n][k]
                   /\ b.data_offset + b.size <= f2
                   /\ \A i \in 1..b.size : m2.bytes[b.data_offset + i] = <<n, k, i>>
    <2> DEFINE b == m.bds[at + k]
    <2>1. m2.bds[at + k] = b
      <3>1. at + k \in 1..e
        BY DEF BlocksAt
      <3> QED BY <3>1
    <2>2. /\ b \in BlockData
          /\ b.block_id = k /\ b.size = dirty_block[n][k]
          /\ b.data_offset + b.size <= f
          /\ \A i \in 1..b.size : m.bytes[b.data_offset + i] = <<n, k, i>>
      BY DEF BlocksAt
    <2>3. b.data_offset \in Nat /\ b.size \in Nat
      BY <2>2 DEF BlockData
    <2> HIDE DEF b
    <2>4. \A i \in 1..b.size : b.data_offset + i \in 1..f
      BY <2>2, <2>3
    <2>5. b.data_offset + b.size <= f2
      BY <2>2, <2>3
    <2> QED BY <2>1, <2>2, <2>4, <2>5
  <1> QED BY <1>1, <1>2 DEF BlocksAt

\* The same for a path.
LEMMA PathKeep ==
  ASSUME NEW m, NEW m2, NEW n \in Names, NEW at \in Nat, NEW e \in Nat, NEW e2 \in Nat, e <= e2,
         \A i \in 1..e : m2.paths[i] = m.paths[i], PathAt(m, n, at, e)
  PROVE  PathAt(m2, n, at, e2)
  <1>1. Length[n] \in Nat
    BY TreeFileAssumption
  <1>2. \A i \in 1..Length[n] : at + i \in 1..e
    BY <1>1 DEF PathAt
  <1> QED BY <1>1, <1>2 DEF PathAt

\* A finished slot stays whole while the cursors move on and nothing behind
\* them is written.
LEMMA WholeKeep ==
  ASSUME NEW m, NEW m2, NEW c, NEW c2, NEW s, NEW n \in Nat, s \in 1..n, Shape,
         m.inodes[s] \in Record,
         m2.hashes[s] = m.hashes[s], m2.inodes[s] = m.inodes[s],
         c.path \in Nat, c2.path \in Nat, c.path <= c2.path,
         c.initial_bd \in Nat, c2.initial_bd \in Nat, c.initial_bd <= c2.initial_bd,
         c.block \in Nat, c2.block \in Nat, c.block <= c2.block,
         \A i \in 1..c.path : m2.paths[i] = m.paths[i],
         \A i \in 1..c.initial_bd : m2.bds[i] = m.bds[i],
         \A i \in 1..c.block : m2.bytes[i] = m.bytes[i],
         Whole(m, s, c)
  PROVE  Whole(m2, s, c2)
  <1> DEFINE x == m.hashes[s]
             r == m.inodes[s]
  <1>1. /\ x \in Names
        /\ r.path_size = Length[x] /\ PathAt(m, x, r.path, c.path)
        /\ r.block_data_size = Len(dirty_block[x])
        /\ IF dirty_block[x] = << >> THEN r.block_data = -1
           ELSE /\ r.block_data \in Nat
                /\ BlocksAt(m, x, r.block_data, Len(dirty_block[x]), c.initial_bd, c.block)
    BY DEF Whole
  <1>2. r.path \in Nat /\ Len(dirty_block[x]) \in Nat
    BY <1>1, NameFacts DEF Record
  <1> HIDE DEF x, r
  <1>3. PathAt(m2, x, r.path, c2.path)
    BY <1>1, <1>2, PathKeep
  <1>4. dirty_block[x] # << >> =>
          BlocksAt(m2, x, r.block_data, Len(dirty_block[x]), c2.initial_bd, c2.block)
    <2> HAVE dirty_block[x] # << >>
    <2>1. /\ r.block_data \in Nat /\ x \in Names
          /\ BlocksAt(m, x, r.block_data, Len(dirty_block[x]), c.initial_bd, c.block)
      BY <1>1
    <2> DEFINE count == Len(dirty_block[x])
    <2>2. count \in Nat /\ BlocksAt(m, x, r.block_data, count, c.initial_bd, c.block)
      BY <1>2, <2>1
    <2> HIDE DEF count
    <2>3. BlocksAt(m2, x, r.block_data, count, c2.initial_bd, c2.block)
      BY <2>1, <2>2, BlocksKeep
    <2> QED BY <2>3 DEF count
  <1>5. m2.hashes[s] = x /\ m2.inodes[s] = r
    BY DEF x, r
  <1> QED BY <1>1, <1>3, <1>4, <1>5 DEF Whole
-----------------------------------------------------------------------------
(* The invariant holds.                                                    *)

\* A flush starts with nothing written.
LEMMA InitTInv == Init => TInv
  <1> SUFFICES ASSUME Init PROVE TInv
    OBVIOUS
  <1>1. pc = "open" /\ pc \in Early /\ pc \notin Late
    BY DEF Init, Early, Late
  <1>2. Clean
    BY DEF Init, Clean, NoFile
  <1>3. mem \in Memory
    BY DEF Init, NoFile, Memory
  <1>4. Shape
    <2>1. dirty_block \in [Names -> Seq(Nat)]
      <3>1. \A d \in Seq(Nat \ {0}) : d \in Seq(Nat)
        OBVIOUS
      <3>2. dirty_block \in [Names -> DirtyLists]
        BY DEF Init
      <3>3. DirtyLists \subseteq Seq(Nat)
        BY <3>1, TreeFileAssumption
      <3> QED BY <3>2, <3>3
    <2>2. /\ inode_idx \in [Paths -> Names \cup {Nil}] /\ todo \subseteq Cached
          /\ id \in Names \cup {Nil}
      BY DEF Init
    <2>3. cur \in [inode : Nat, block : Nat, bd : Nat, initial_bd : Nat, path : Nat]
      BY DEF Init
    <2> QED BY <1>1, <1>3, <2>1, <2>2, <2>3 DEF Shape
  <1> QED BY <1>1, <1>2, <1>4 DEF TInv

\* One field of the file at a time.
LEMMA MemoryStored ==
  ASSUME NEW m \in Memory
  PROVE  /\ m.header \in [num_inodes : Nat, inode_list : BOOLEAN, root : BOOLEAN]
         /\ m.tree \in [is_leaf : BOOLEAN, slots : SUBSET Nat]
         /\ \A z \in {"absent", "empty", "mapped"} :
              LET k == [m EXCEPT !.size = z]
              IN  k \in Memory /\ k.header = m.header /\ k.tree = m.tree
         /\ \A h \in [num_inodes : Nat, inode_list : BOOLEAN, root : BOOLEAN] :
              LET k == [m EXCEPT !.header = h]
              IN  k \in Memory /\ k.header = h /\ k.tree = m.tree
         /\ \A l \in [is_leaf : BOOLEAN, slots : SUBSET Nat] :
              LET k == [m EXCEPT !.tree = l]
              IN  k \in Memory /\ k.header = m.header /\ k.tree = l
  <1> DEFINE Z == {"absent", "empty", "mapped"}
             H == [num_inodes : Nat, inode_list : BOOLEAN, root : BOOLEAN]
             L == [is_leaf : BOOLEAN, slots : SUBSET Nat]
             I == Seq(Record)
             B == Seq((Names \X Nat \X Nat) \cup {Nil})
             D == Seq(BlockData \cup {Nil})
             N == Seq(Names \cup {Nil})
             P == Seq((Names \X Nat) \cup {Nil})
             M == [size : Z, header : H, tree : L, inodes : I, bytes : B, bds : D,
                   hashes : N, paths : P]
  <1>1. Memory = M
    BY DEF Memory
  <1>2. m \in M
    BY <1>1
  <1> HIDE DEF Z, H, L, I, B, D, N, P
  <1>3. m.header \in H /\ m.tree \in L
    BY <1>2
  <1>4. ASSUME NEW z \in Z
        PROVE  LET k == [m EXCEPT !.size = z]
               IN  k \in M /\ k.header = m.header /\ k.tree = m.tree
    BY <1>2
  <1>5. ASSUME NEW h \in H
        PROVE  LET k == [m EXCEPT !.header = h]
               IN  k \in M /\ k.header = h /\ k.tree = m.tree
    BY <1>2
  <1>6. ASSUME NEW l \in L
        PROVE  LET k == [m EXCEPT !.tree = l]
               IN  k \in M /\ k.header = m.header /\ k.tree = l
    BY <1>2
  <1> HIDE DEF M
  <1> QED BY <1>1, <1>3, <1>4, <1>5, <1>6, Zenon DEF Z, H, L

\* The stores before the regions are there.
LEMMA EarlyTInv ==
  ASSUME TInv, open_file \/ truncate_file \/ set_num_inodes \/ set_root \/ set_leaf
  PROVE  TInv'
  <1>1. UNCHANGED cache /\ UNCHANGED <<todo, id, cur>>
    BY DEF open_file, truncate_file, set_num_inodes, set_root, set_leaf
  <1>2. pc \in Early /\ pc' \in Early /\ pc' \notin Late
    BY DEF open_file, truncate_file, set_num_inodes, set_root, set_leaf, Early, Late
  <1>3. Shape /\ Clean
    BY <1>2 DEF TInv
  <1>4. num_ents \in Nat
    BY <1>3, Counts
  <1>5. /\ mem' \in Memory
        /\ mem'.tree.slots = mem.tree.slots
        /\ pc' \in {"root", "leaf", "regions"} => mem'.header.num_inodes = num_ents
    <2>0. mem \in Memory
      BY <1>3 DEF Shape
    <2>a. /\ mem.header \in [num_inodes : Nat, inode_list : BOOLEAN, root : BOOLEAN]
          /\ mem.tree \in [is_leaf : BOOLEAN, slots : SUBSET Nat]
      BY <2>0, MemoryStored, Zenon
    <2>1. CASE open_file \/ truncate_file
      <3>1. /\ \E z \in {"absent", "empty", "mapped"} : mem' = [mem EXCEPT !.size = z]
            /\ pc' \notin {"root", "leaf", "regions"}
        BY <2>1 DEF open_file, truncate_file
      <3>2. mem' \in Memory /\ mem'.header = mem.header /\ mem'.tree = mem.tree
        <4>1. PICK z \in {"absent", "empty", "mapped"} : mem' = [mem EXCEPT !.size = z]
          BY <3>1, Zenon
        <4> DEFINE k == [mem EXCEPT !.size = z]
        <4>2. k \in Memory /\ k.header = mem.header /\ k.tree = mem.tree
          BY <2>0, MemoryStored, Zenon
        <4> HIDE DEF k
        <4>3. mem' = k
          BY <4>1 DEF k
        <4> QED BY <4>2, <4>3, Zenon
      <3> QED BY <3>1, <3>2
    <2>2. CASE set_num_inodes
      <3> DEFINE h == [mem.header EXCEPT !.num_inodes = num_ents]
      <3>1. mem' = [mem EXCEPT !.header = h]
        BY <2>2 DEF set_num_inodes
      <3>2. h \in [num_inodes : Nat, inode_list : BOOLEAN, root : BOOLEAN] /\ h.num_inodes = num_ents
        BY <1>4, <2>a
      <3> HIDE DEF h
      <3>3. mem' \in Memory /\ mem'.header = h /\ mem'.tree = mem.tree
        BY <2>0, <3>1, <3>2, MemoryStored, Zenon
      <3> QED BY <3>1, <3>2, <3>3
    <2>3. CASE set_root
      <3> DEFINE h == [mem.header EXCEPT !.root = TRUE]
      <3>1. mem' = [mem EXCEPT !.header = h] /\ mem.header.num_inodes = num_ents
        BY <1>3, <2>3 DEF set_root, Clean
      <3>2. h \in [num_inodes : Nat, inode_list : BOOLEAN, root : BOOLEAN] /\ h.num_inodes = num_ents
        BY <2>a, <3>1
      <3> HIDE DEF h
      <3>3. mem' \in Memory /\ mem'.header = h /\ mem'.tree = mem.tree
        BY <2>0, <3>1, <3>2, MemoryStored, Zenon
      <3> QED BY <3>1, <3>2, <3>3
    <2>4. CASE set_leaf
      <3> DEFINE l == [mem.tree EXCEPT !.is_leaf = TRUE]
      <3>1. mem' = [mem EXCEPT !.tree = l] /\ mem.header.num_inodes = num_ents
        BY <1>3, <2>4 DEF set_leaf, Clean
      <3>2. /\ l \in [is_leaf : BOOLEAN, slots : SUBSET Nat]
            /\ l.slots = mem.tree.slots
        BY <2>a
      <3> HIDE DEF l
      <3>3. mem' \in Memory /\ mem'.header = mem.header /\ mem'.tree = l
        BY <2>0, <3>1, <3>2, MemoryStored, Zenon
      <3> QED BY <3>1, <3>2, <3>3
    <2> QED BY <2>1, <2>2, <2>3, <2>4
  <1>6. Shape'
    BY <1>1, <1>2, <1>3, <1>5, SameCounts DEF Shape
  <1>7. Clean'
    BY <1>1, <1>3, <1>5, SameCounts DEF Clean
  <1> QED BY <1>2, <1>6, <1>7 DEF TInv

\* An empty region.
LEMMA ClearedFacts ==
  ASSUME NEW T, Nil \in T, NEW n \in Nat
  PROVE  Cleared(n) \in Seq(T) /\ Len(Cleared(n)) = n
  BY DEF Cleared

\* The regions are empty.
LEMMA RegionsTInv ==
  ASSUME TInv, allocate_regions
  PROVE  TInv'
  <1>1. UNCHANGED cache /\ UNCHANGED <<todo, id, cur>> /\ pc = "regions" /\ pc' = "path"
    BY DEF allocate_regions
  <1>2. Shape /\ Clean
    BY <1>1 DEF TInv, Early
  <1>3. num_ents \in Nat /\ path_size \in Nat /\ block_size \in Nat /\ num_blocks \in Nat
    BY <1>2, Counts
  <1>5. [i \in 1..num_ents |-> NewRecord] \in Seq(Record) /\ NewRecord \in Record
    BY <1>3 DEF NewRecord, Record
  <1>6. /\ mem'.size = mem.size /\ mem'.tree = mem.tree
        /\ mem'.header = [mem.header EXCEPT !.inode_list = TRUE]
        /\ mem'.inodes = [i \in 1..num_ents |-> NewRecord]
        /\ mem'.bytes = Cleared(block_size) /\ mem'.bds = Cleared(num_blocks)
        /\ mem'.hashes = Cleared(num_ents) /\ mem'.paths = Cleared(path_size)
    BY <1>2 DEF allocate_regions, Shape, Memory
  <1>7. mem' \in Memory
    <2>1. /\ mem'.bytes \in Seq((Names \X Nat \X Nat) \cup {Nil})
          /\ mem'.bds \in Seq(BlockData \cup {Nil})
          /\ mem'.hashes \in Seq(Names \cup {Nil})
          /\ mem'.paths \in Seq((Names \X Nat) \cup {Nil})
          /\ mem'.inodes \in Seq(Record)
      <3>1. mem'.bytes \in Seq((Names \X Nat \X Nat) \cup {Nil})
        BY <1>3, <1>6, ClearedFacts
      <3>2. mem'.bds \in Seq(BlockData \cup {Nil})
        BY <1>3, <1>6, ClearedFacts
      <3>3. mem'.hashes \in Seq(Names \cup {Nil})
        BY <1>3, <1>6, ClearedFacts
      <3>4. mem'.paths \in Seq((Names \X Nat) \cup {Nil})
        BY <1>3, <1>6, ClearedFacts
      <3> QED BY <1>5, <1>6, <3>1, <3>2, <3>3, <3>4
    <2> QED BY <1>2, <2>1 DEF allocate_regions, Shape, Memory
  <1>8. Shape'
    BY <1>1, <1>2, <1>7, SameCounts DEF Shape, Late
  <1>9. Sized'
    <2>1. mem'.header.num_inodes = num_ents
      BY <1>1, <1>2, <1>6 DEF Clean, Shape, Memory
    <2>2. /\ Len(mem'.inodes) = num_ents /\ Len(mem'.hashes) = num_ents
          /\ Len(mem'.paths) = path_size /\ Len(mem'.bytes) = block_size
          /\ Len(mem'.bds) = num_blocks
      <3>1. \A n \in Nat : Len(Cleared(n)) = n
        BY DEF Cleared
      <3>2. Len(mem'.inodes) = num_ents
        BY <1>3, <1>6
      <3> QED BY <1>3, <1>6, <3>1, <3>2
    <2>3. cur'.path = 0 /\ cur'.block = 0 /\ cur'.bd = 0 /\ cur'.initial_bd = 0
      BY <1>1, <1>2 DEF Clean
    <2> QED BY <1>1, <1>3, <2>1, <2>2, <2>3, SameCounts DEF Sized
  <1>10. cur'.inode = 0 /\ cur'.bd = 0 /\ cur'.initial_bd = 0 /\ 1..0 = {}
    BY <1>1, <1>2 DEF Clean
  <1>11. Counted'
    <2>1. todo' = Cached' /\ ~Busy'
      BY <1>1, <1>2, SameCounts DEF Clean, Busy
    <2>2. {mem'.hashes[s] : s \in 1..cur'.inode} = {} /\ {inode_idx'[p] : p \in Cached' \ todo'} = {}
      BY <1>10, <2>1
    <2>3. cur'.inode + Cardinality(todo') + 0 = num_ents'
      BY <1>1, <1>3, <1>10, <2>1, SameCounts DEF num_ents
    <2> QED BY <2>1, <2>2, <2>3 DEF Counted
  <1>12. Stored'
    <2>1. \A s \in 1..num_ents' : mem'.inodes[s].path = 0 /\ mem'.inodes[s].path_size = 0
      BY <1>1, <1>6, SameCounts DEF NewRecord
    <2>2. ~Busy' /\ pc' # "blocks"
      BY <1>1 DEF Busy
    <2> QED BY <1>1, <1>3, <1>10, <2>1, <2>2, SameCounts DEF Stored
  <1>13. Indexed'
    <2>1. mem'.tree.slots = {} /\ id' = Nil
      BY <1>1, <1>2, <1>6 DEF Clean
    <2> QED BY <1>1, <1>10, <2>1 DEF Indexed
  <1> QED BY <1>1, <1>8, <1>9, <1>11, <1>12, <1>13 DEF TInv, Early, Late

\* The types, field by field.
LEMMA Fields ==
  ASSUME Shape
  PROVE  /\ cur.inode \in Nat /\ cur.block \in Nat /\ cur.bd \in Nat
         /\ cur.initial_bd \in Nat /\ cur.path \in Nat
         /\ mem.inodes \in Seq(Record)
         /\ mem.bytes \in Seq((Names \X Nat \X Nat) \cup {Nil})
         /\ mem.bds \in Seq(BlockData \cup {Nil})
         /\ mem.hashes \in Seq(Names \cup {Nil})
         /\ mem.paths \in Seq((Names \X Nat) \cup {Nil})
         /\ mem.tree.slots \subseteq Nat
         /\ IsFiniteSet(todo) /\ Cardinality(todo) \in Nat
  <1>1. /\ cur.inode \in Nat /\ cur.block \in Nat /\ cur.bd \in Nat
        /\ cur.initial_bd \in Nat /\ cur.path \in Nat
    BY DEF Shape
  <1>2. /\ mem.inodes \in Seq(Record)
        /\ mem.bytes \in Seq((Names \X Nat \X Nat) \cup {Nil})
        /\ mem.bds \in Seq(BlockData \cup {Nil})
        /\ mem.hashes \in Seq(Names \cup {Nil})
        /\ mem.paths \in Seq((Names \X Nat) \cup {Nil})
        /\ mem.tree.slots \subseteq Nat
    BY DEF Shape, Memory
  <1>3. IsFiniteSet(todo) /\ Cardinality(todo) \in Nat
    BY Counts, FS_Subset, FS_CardinalityType DEF Shape
  <1> QED BY <1>1, <1>2, <1>3

\* The finished slots stay whole.
LEMMA WholeNext ==
  ASSUME Shape, Shape', Sized, Counted, Stored, UNCHANGED cache,
         cur'.path >= cur.path, cur'.initial_bd >= cur.initial_bd, cur'.block >= cur.block,
         \A s \in 1..cur.inode : mem'.hashes[s] = mem.hashes[s] /\ mem'.inodes[s] = mem.inodes[s],
         \A i \in 1..cur.path : mem'.paths[i] = mem.paths[i],
         \A i \in 1..cur.initial_bd : mem'.bds[i] = mem.bds[i],
         \A i \in 1..cur.block : mem'.bytes[i] = mem.bytes[i]
  PROVE  \A s \in 1..cur.inode : Whole(mem, s, cur)'
  <1> SUFFICES ASSUME NEW s \in 1..cur.inode PROVE Whole(mem, s, cur)'
    OBVIOUS
  <1>1. Whole(mem, s, cur)
    BY DEF Stored
  <1>2. mem.inodes[s] \in Record
    <2>1. cur.inode <= num_ents
      <3> DEFINE k == IF Busy THEN 1 ELSE 0
                 l == Cardinality(todo)
      <3>1. cur.inode + l + k = num_ents /\ k \in Nat
        BY DEF Counted
      <3>2. cur.inode \in Nat /\ num_ents \in Nat /\ l \in Nat
        BY Fields, Counts
      <3> HIDE DEF k, l
      <3> QED BY <3>1, <3>2
    <2>2. s \in 1..Len(mem.inodes)
      BY <2>1, Counts, Fields DEF Sized
    <2> QED BY <2>2, Fields
  <1>3. /\ cur.path \in Nat /\ cur.initial_bd \in Nat /\ cur.block \in Nat /\ cur.inode \in Nat
        /\ cur'.path \in Nat /\ cur'.initial_bd \in Nat /\ cur'.block \in Nat
    BY Fields DEF Shape
  <1>4. /\ cur.path <= cur'.path /\ cur.initial_bd <= cur'.initial_bd
        /\ cur.block <= cur'.block
    BY <1>3
  <1>5. mem'.hashes[s] = mem.hashes[s] /\ mem'.inodes[s] = mem.inodes[s]
    OBVIOUS
  <1>6. Whole(mem', s, cur')
    BY <1>1, <1>2, <1>3, <1>4, <1>5, WholeKeep, Zenon
  <1>7. dirty_block' = dirty_block
    BY SameCounts
  <1> QED BY <1>6, <1>7, Zenon DEF Whole, BlocksAt, PathAt

\* In particular when nothing is stored.
LEMMA SameWhole ==
  ASSUME Shape, Shape', Sized, Counted, Stored, UNCHANGED cache, mem' = mem, cur' = cur
  PROVE  \A s \in 1..cur'.inode : Whole(mem, s, cur)'
  <1>1. /\ cur'.path >= cur.path /\ cur'.initial_bd >= cur.initial_bd
        /\ cur'.block >= cur.block
    BY Fields
  <1>2. \A s \in 1..cur.inode : Whole(mem, s, cur)'
    BY <1>1, WholeNext
  <1> QED BY <1>2

\* The slot of the entry being written is one of the region.
LEMMA SlotFree ==
  ASSUME TInv, pc \in Late, Busy \/ todo # {}
  PROVE  cur.inode + 1 \in 1..num_ents
  <1>1. Shape /\ Counted
    BY DEF TInv
  <1>2. num_ents \in Nat /\ cur.inode \in Nat /\ IsFiniteSet(todo) /\ Cardinality(todo) \in Nat
    BY <1>1, Counts, Fields
  <1>3. CASE Busy
    <2>1. cur.inode + Cardinality(todo) + 1 = num_ents
      BY <1>1, <1>3 DEF Counted
    <2> QED BY <1>2, <2>1
  <1>4. CASE ~Busy /\ todo # {}
    <2>1. cur.inode + Cardinality(todo) + 0 = num_ents
      BY <1>1, <1>4 DEF Counted
    <2>2. Cardinality(todo) # 0
      BY <1>2, <1>4, FS_EmptySet
    <2> QED BY <1>2, <2>1, <2>2
  <1> QED BY <1>3, <1>4

\* The path and the hash of the next entry are stored behind those before.
LEMMA AddPathTInv ==
  ASSUME TInv, NEW p \in Paths, add_path(p)
  PROVE  TInv'
  <1> DEFINE n == inode_idx[p]
             slot == cur.inode + 1
  <1>1. /\ UNCHANGED cache /\ cur' = cur /\ pc = "path" /\ p \in todo
        /\ todo' = todo \ {p} /\ id' = n
        /\ pc' = IF Fits(mem.paths, cur.path, Length[n]) THEN "inode" ELSE "overrun"
    BY DEF add_path
  <1>2. Shape /\ Sized /\ Counted /\ Stored /\ Indexed /\ pc \in Late
    BY <1>1 DEF TInv, Late
  <1>3. n \in Names
    BY <1>1, <1>2 DEF Shape, Cached
  <1>4. slot \in 1..num_ents /\ num_ents \in Nat /\ cur.inode \in Nat
    BY <1>1, <1>2, SlotFree, Counts, Fields
  <1>5. /\ mem'.size = mem.size /\ mem'.tree = mem.tree /\ mem'.header = mem.header
        /\ mem'.inodes = mem.inodes /\ mem'.bytes = mem.bytes /\ mem'.bds = mem.bds
        /\ mem'.hashes = [mem.hashes EXCEPT ![slot] = n]
        /\ mem'.paths = Put(mem.paths, cur.path, Chars(n))
    BY <1>2 DEF add_path, Shape, Memory
  <1>6. /\ mem'.paths \in Seq((Names \X Nat) \cup {Nil})
        /\ Len(mem'.paths) = Len(mem.paths)
        /\ \A i \in 1..Len(mem.paths) : i <= cur.path => mem'.paths[i] = mem.paths[i]
        /\ cur.path + Length[n] <= Len(mem.paths) =>
             \A i \in 1..Length[n] : mem'.paths[cur.path + i] = <<n, i>>
    <2> HIDE DEF n
    <2>1. /\ Chars(n) \in Seq((Names \X Nat) \cup {Nil}) /\ Len(Chars(n)) = Length[n]
          /\ \A i \in 1..Length[n] : Chars(n)[i] = <<n, i>>
      BY <1>2, <1>3, SourceFacts
    <2>2. mem.paths \in Seq((Names \X Nat) \cup {Nil}) /\ cur.path \in Nat
      BY <1>2, Fields
    <2> DEFINE q == Put(mem.paths, cur.path, Chars(n))
    <2>3. /\ q \in Seq((Names \X Nat) \cup {Nil})
          /\ Len(q) = Len(mem.paths)
          /\ \A i \in 1..Len(mem.paths) : i <= cur.path => q[i] = mem.paths[i]
          /\ cur.path + Len(Chars(n)) <= Len(mem.paths) =>
               \A i \in 1..Len(Chars(n)) : q[cur.path + i] = Chars(n)[i]
      <3> DEFINE T == (Names \X Nat) \cup {Nil}
                 c == Chars(n)
                 region == mem.paths
                 at == cur.path
      <3>1. c \in Seq(T) /\ region \in Seq(T) /\ at \in Nat
        BY <2>1, <2>2
      <3> HIDE DEF T, c, region, at
      <3>2. /\ Put(region, at, c) \in Seq(T)
            /\ Len(Put(region, at, c)) = Len(region)
            /\ \A i \in 1..Len(region) : i <= at => Put(region, at, c)[i] = region[i]
            /\ at + Len(c) <= Len(region) =>
                 \A i \in 1..Len(c) : Put(region, at, c)[at + i] = c[i]
        BY <3>1, PutFacts
      <3> QED BY <3>2 DEF T, c, region, at
    <2>4. mem'.paths = q
      BY <1>5
    <2> HIDE DEF q
    <2> QED BY <2>1, <2>3, <2>4
  <1>7. /\ mem'.hashes \in Seq(Names \cup {Nil}) /\ Len(mem'.hashes) = Len(mem.hashes)
        /\ mem'.hashes[slot] = n
        /\ \A s \in 1..num_ents : s # slot => mem'.hashes[s] = mem.hashes[s]
    <2>1. mem.hashes \in Seq(Names \cup {Nil}) /\ Len(mem.hashes) = num_ents
      BY <1>2, Fields DEF Sized
    <2> HIDE DEF n, slot
    <2> QED BY <1>3, <1>4, <1>5, <2>1
  <1>8. mem' \in Memory
    BY <1>2, <1>6, <1>7 DEF add_path, Shape, Memory
  <1>9. Shape'
    BY <1>1, <1>2, <1>3, <1>8, SameCounts DEF Shape, Late
  <1>10. CASE pc' = "overrun"
    BY <1>9, <1>10 DEF TInv, Early, Late
  <1>11. CASE pc' = "inode"
    <2>1. Busy' /\ ~Busy
      BY <1>1, <1>11 DEF Busy
    <2>2. cur.path + Length[n] <= Len(mem.paths)
      BY <1>1, <1>11 DEF Fits
    <2>3. Sized'
      BY <1>1, <1>2, <1>5, <1>6, <1>7, SameCounts DEF Sized
    <2>4. Counted'
      <3>1. Cardinality(todo') = Cardinality(todo) - 1 /\ Cardinality(todo) \in Nat
        BY <1>1, <1>2, Fields, FS_RemoveElement
      <3>2. cur.inode + Cardinality(todo) + 0 = num_ents
        BY <1>2, <2>1 DEF Counted
      <3>3. cur'.inode + Cardinality(todo') + 1 = num_ents'
        BY <1>1, <1>4, <3>1, <3>2, SameCounts
      <3>4. {mem.hashes[s] : s \in 1..cur.inode} = {inode_idx[q] : q \in Cached \ todo}
        BY <1>2, <2>1 DEF Counted
      <3>5. {mem'.hashes[s] : s \in 1..cur'.inode} = {mem.hashes[s] : s \in 1..cur.inode}
        <4>1. \A s \in 1..cur.inode : mem'.hashes[s] = mem.hashes[s]
          BY <1>4, <1>7
        <4> QED BY <1>1, <4>1
      <3>6. Cached \ todo' = (Cached \ todo) \cup {p}
        BY <1>1, <1>2 DEF Shape
      <3>7. {inode_idx[q] : q \in Cached \ todo'} = {inode_idx[q] : q \in Cached \ todo} \cup {n}
        BY <3>6
      <3> HIDE DEF n
      <3>8. {mem'.hashes[s] : s \in 1..cur'.inode} \cup {id'} =
              {inode_idx'[q] : q \in Cached' \ todo'}
        BY <1>1, <3>4, <3>5, <3>7, SameCounts
      <3> QED BY <2>1, <3>3, <3>8 DEF Counted
    <2>5. Stored'
      <3>1. \A s \in 1..cur'.inode : Whole(mem, s, cur)'
        <4>1. \A i \in 1..cur.path : mem'.paths[i] = mem.paths[i]
          <5>1. \A i \in 1..cur.path : i \in 1..Len(mem.paths) /\ i <= cur.path
            BY <1>2, Fields DEF Sized
          <5> QED BY <1>6, <5>1
        <4>2. \A s \in 1..cur.inode : mem'.hashes[s] = mem.hashes[s] /\ mem'.inodes[s] = mem.inodes[s]
          BY <1>4, <1>5, <1>7
        <4>3. /\ cur'.path >= cur.path /\ cur'.initial_bd >= cur.initial_bd
              /\ cur'.block >= cur.block
          BY <1>1, <1>2, Fields
        <4>4. \A s \in 1..cur.inode : Whole(mem, s, cur)'
          BY <1>1, <1>2, <1>5, <1>9, <4>1, <4>2, <4>3, WholeNext
        <4> QED BY <1>1, <4>4
      <3>2. id' \in Names /\ mem'.hashes[cur'.inode + 1] = id'
        BY <1>1, <1>3, <1>7
      <3>3. PathAt(mem, id, cur.path, Len(mem.paths))'
        BY <1>1, <1>6, <2>2 DEF PathAt
      <3>4. cur'.bd = cur'.initial_bd
        BY <1>1, <1>2 DEF Stored
      <3>5. \A s \in (cur'.inode + 1)..num_ents' : mem'.inodes[s].path = 0 /\ mem'.inodes[s].path_size = 0
        BY <1>1, <1>2, <1>5, SameCounts DEF Stored
      <3> QED BY <1>11, <3>1, <3>2, <3>3, <3>4, <3>5 DEF Stored
    <2>6. Indexed'
      BY <1>1, <1>2, <1>5, <1>11 DEF Indexed
    <2> QED BY <1>9, <1>11, <2>3, <2>4, <2>5, <2>6 DEF TInv, Early, Late
  <1> QED BY <1>1, <1>10, <1>11

\* A store into the record of the entry being written.
LEMMA RecordStored ==
  ASSUME Shape, Sized, NEW slot \in 1..num_ents, NEW r \in Record,
         mem' = [mem EXCEPT !.inodes = [mem.inodes EXCEPT ![slot] = r]]
  PROVE  /\ mem' \in Memory
         /\ mem'.size = mem.size /\ mem'.tree = mem.tree /\ mem'.header = mem.header
         /\ mem'.bytes = mem.bytes /\ mem'.bds = mem.bds
         /\ mem'.hashes = mem.hashes /\ mem'.paths = mem.paths
         /\ Len(mem'.inodes) = Len(mem.inodes)
         /\ mem'.inodes[slot] = r
         /\ \A s \in 1..num_ents : s # slot => mem'.inodes[s] = mem.inodes[s]
  <1> DEFINE l == [mem.inodes EXCEPT ![slot] = r]
  <1>1. mem.inodes \in Seq(Record) /\ Len(mem.inodes) = num_ents /\ num_ents \in Nat
    BY Fields, Counts DEF Sized
  <1>2. /\ l \in Seq(Record) /\ Len(l) = Len(mem.inodes) /\ l[slot] = r
        /\ \A s \in 1..num_ents : s # slot => l[s] = mem.inodes[s]
    BY <1>1
  <1>3. mem' = [mem EXCEPT !.inodes = l]
    OBVIOUS
  <1> HIDE DEF l
  <1>4. mem'.inodes = l
    BY <1>3 DEF Shape, Memory
  <1>5. mem' \in Memory
    BY <1>2, <1>3 DEF Shape, Memory
  <1>6. /\ mem'.size = mem.size /\ mem'.tree = mem.tree /\ mem'.header = mem.header
        /\ mem'.bytes = mem.bytes /\ mem'.bds = mem.bds
        /\ mem'.hashes = mem.hashes /\ mem'.paths = mem.paths
    BY <1>3 DEF Shape, Memory
  <1> QED BY <1>2, <1>4, <1>5, <1>6

\* The path of the entry is known to its record.
LEMMA AddFieldsTInv ==
  ASSUME TInv, add_fields
  PROVE  TInv'
  <1> DEFINE slot == cur.inode + 1
             r == [mem.inodes[slot] EXCEPT !.path = cur.path, !.path_size = Length[id]]
  <1>1. /\ UNCHANGED cache /\ cur' = cur /\ todo' = todo /\ id' = id
        /\ pc = "inode" /\ pc' = "blocks" /\ Busy /\ Busy'
    BY DEF add_fields, Busy
  <1>2. Shape /\ Sized /\ Counted /\ Stored /\ Indexed /\ pc \in Late
    BY <1>1 DEF TInv, Late
  <1>3. slot \in 1..num_ents /\ num_ents \in Nat /\ cur.inode \in Nat
    BY <1>1, <1>2, SlotFree, Counts, Fields
  <1>4. id \in Names
    BY <1>1, <1>2 DEF Stored
  <1>5. mem.inodes[slot] \in Record
    BY <1>2, <1>3, Fields DEF Sized
  <1>6. r \in Record /\ r.path = cur.path /\ r.path_size = Length[id]
    BY <1>2, <1>4, <1>5, Fields, NameFacts DEF Record
  <1>7. mem' = [mem EXCEPT !.inodes = [mem.inodes EXCEPT ![slot] = r]]
    BY DEF add_fields
  <1> HIDE DEF r, slot
  <1>8. /\ mem' \in Memory
        /\ mem'.size = mem.size /\ mem'.tree = mem.tree /\ mem'.header = mem.header
        /\ mem'.bytes = mem.bytes /\ mem'.bds = mem.bds
        /\ mem'.hashes = mem.hashes /\ mem'.paths = mem.paths
        /\ Len(mem'.inodes) = Len(mem.inodes)
        /\ mem'.inodes[slot] = r
        /\ \A s \in 1..num_ents : s # slot => mem'.inodes[s] = mem.inodes[s]
    BY <1>2, <1>3, <1>6, <1>7, RecordStored
  <1>9. Shape'
    BY <1>1, <1>2, <1>8, SameCounts DEF Shape, Late
  <1>10. Sized'
    BY <1>1, <1>2, <1>8, SameCounts DEF Sized
  <1>11. Counted'
    <2>1. /\ Cached' = Cached /\ inode_idx' = inode_idx /\ num_ents' = num_ents
          /\ mem'.hashes = mem.hashes
      BY <1>1, <1>8, SameCounts
    <2>2. /\ cur.inode + Cardinality(todo) + 1 = num_ents
          /\ {mem.hashes[s] : s \in 1..cur.inode} \cup {id} = {inode_idx[p] : p \in Cached \ todo}
      BY <1>1, <1>2 DEF Counted
    <2>3. /\ (cur.inode + Cardinality(todo) + 1 = num_ents)'
          /\ ({mem.hashes[s] : s \in 1..cur.inode} \cup {id} = {inode_idx[p] : p \in Cached \ todo})'
      BY <1>1, <2>1, <2>2, Zenon
    <2> QED BY <1>1, <2>3 DEF Counted
  <1>12. Stored'
    <2>1. \A s \in 1..cur'.inode : Whole(mem, s, cur)'
      <3>1. \A s \in 1..cur.inode : mem'.hashes[s] = mem.hashes[s] /\ mem'.inodes[s] = mem.inodes[s]
        BY <1>3, <1>8 DEF slot
      <3>2. /\ cur'.path >= cur.path /\ cur'.initial_bd >= cur.initial_bd
            /\ cur'.block >= cur.block
        BY <1>1, <1>2, Fields
      <3>3. \A s \in 1..cur.inode : Whole(mem, s, cur)'
        BY <1>1, <1>2, <1>8, <1>9, <3>1, <3>2, WholeNext
      <3> QED BY <1>1, <3>3
    <2>2. /\ id' \in Names /\ mem'.hashes[cur'.inode + 1] = id'
          /\ PathAt(mem, id, cur.path, Len(mem.paths))'
      BY <1>1, <1>2, <1>4, <1>8 DEF Stored, PathAt
    <2>3. /\ mem'.inodes[cur'.inode + 1].path = cur'.path
          /\ mem'.inodes[cur'.inode + 1].path_size = Length[id']
      BY <1>1, <1>6, <1>8 DEF slot
    <2>4. written' = 0 /\ cur'.bd = cur'.initial_bd /\ cur'.initial_bd \in Nat
      BY <1>1, <1>2, Fields DEF Stored, written
    <2>5. written' <= Len(dirty_block'[id'])
      BY <1>1, <1>2, <1>4, <2>4, NameFacts, SameCounts
    <2>6. BlocksAt(mem, id, cur.initial_bd, written, cur.bd, cur.block)'
      BY <2>4 DEF BlocksAt
    <2>7. \A s \in (cur'.inode + 1)..num_ents' :
            s # cur'.inode + 1 => mem'.inodes[s].path = 0 /\ mem'.inodes[s].path_size = 0
      <3>1. \A s \in (cur.inode + 1)..num_ents : mem.inodes[s].path = 0 /\ mem.inodes[s].path_size = 0
        BY <1>1, <1>2 DEF Stored
      <3>2. \A s \in (cur.inode + 1)..num_ents : s \in 1..num_ents
        BY <1>3
      <3> QED BY <1>1, <1>8, <3>1, <3>2, SameCounts DEF slot
    <2> QED BY <1>1, <2>1, <2>2, <2>3, <2>5, <2>6, <2>7 DEF Stored
  <1>13. Indexed'
    BY <1>1, <1>2, <1>8 DEF Indexed
  <1> QED BY <1>1, <1>9, <1>10, <1>11, <1>12, <1>13 DEF TInv, Early, Late

\* The list of blocks closes the record, and the cursors move behind it.
LEMMA AddBlockListTInv ==
  ASSUME TInv, add_block_list
  PROVE  TInv'
  <1> DEFINE slot == cur.inode + 1
             r == [mem.inodes[slot] EXCEPT
                     !.block_data = IF written > 0 THEN cur.initial_bd ELSE -1,
                     !.block_data_size = written]
  <1>1. /\ UNCHANGED cache /\ todo' = todo /\ id' = id
        /\ pc = "blocks" /\ pc' = "insert" /\ Busy /\ ~Busy'
        /\ written = Len(dirty_block[id])
    BY DEF add_block_list, Busy
  <1>2. Shape /\ Sized /\ Counted /\ Stored /\ Indexed /\ pc \in Late
    BY <1>1 DEF TInv, Late
  <1>3. slot \in 1..num_ents /\ num_ents \in Nat /\ cur.inode \in Nat
    BY <1>1, <1>2, SlotFree, Counts, Fields
  <1>4. id \in Names /\ mem.hashes[slot] = id
    BY <1>1, <1>2 DEF Stored
  <1>5. mem.inodes[slot] \in Record
    BY <1>2, <1>3, Fields DEF Sized
  <1>6. written \in Nat
    BY <1>1, <1>2, <1>4, NameFacts
  <1>7. /\ cur'.inode = slot /\ cur'.path = cur.path + Length[id] /\ cur'.initial_bd = cur.bd
        /\ cur'.bd = cur.bd /\ cur'.block = cur.block
        /\ cur' \in [inode : Nat, block : Nat, bd : Nat, initial_bd : Nat, path : Nat]
    <2>1. Length[id] \in Nat
      BY <1>2, <1>4, NameFacts
    <2> DEFINE i == cur.inode + 1
               q == cur.path + Length[id]
               C == [inode : Nat, block : Nat, bd : Nat, initial_bd : Nat, path : Nat]
    <2>2. cur' = [cur EXCEPT !.inode = i, !.path = q, !.initial_bd = cur.bd]
      BY DEF add_block_list
    <2>3. i \in Nat /\ q \in Nat /\ cur \in C
      <3>1. cur.inode \in Nat /\ cur.path \in Nat
        BY <1>2, Fields
      <3>2. cur \in C
        BY <1>2 DEF Shape
      <3> QED BY <2>1, <3>1, <3>2
    <2> HIDE DEF i, q
    <2>4. /\ cur'.inode = i /\ cur'.path = q /\ cur'.initial_bd = cur.bd
          /\ cur'.bd = cur.bd /\ cur'.block = cur.block /\ cur' \in C
      BY <2>2, <2>3
    <2> QED BY <2>4 DEF i, q
  <1>8. /\ r \in Record /\ r.path = cur.path /\ r.path_size = Length[id]
        /\ r.block_data_size = written
        /\ r.block_data = IF written > 0 THEN cur.initial_bd ELSE -1
    <2>1. mem.inodes[slot].path = cur.path /\ mem.inodes[slot].path_size = Length[id]
      BY <1>1, <1>2 DEF Stored
    <2> DEFINE q == mem.inodes[slot]
               b == IF written > 0 THEN cur.initial_bd ELSE -1
               w == written
    <2>2. q \in Record /\ q.path = cur.path /\ q.path_size = Length[id] /\ w \in Nat
      BY <1>5, <1>6, <2>1
    <2>3. b \in Int
      BY <1>2, Fields
    <2>4. r = [q EXCEPT !.block_data = b, !.block_data_size = w]
      OBVIOUS
    <2> HIDE DEF q, b, w, r
    <2>5. /\ r \in Record /\ r.path = q.path /\ r.path_size = q.path_size
          /\ r.block_data_size = w /\ r.block_data = b
      BY <2>2, <2>3, <2>4 DEF Record
    <2> QED BY <2>2, <2>5 DEF b, w
  <1>9. mem' = [mem EXCEPT !.inodes = [mem.inodes EXCEPT ![slot] = r]]
    BY DEF add_block_list
  <1> HIDE DEF r
  <1>10. /\ mem' \in Memory
         /\ mem'.size = mem.size /\ mem'.tree = mem.tree /\ mem'.header = mem.header
         /\ mem'.bytes = mem.bytes /\ mem'.bds = mem.bds
         /\ mem'.hashes = mem.hashes /\ mem'.paths = mem.paths
         /\ Len(mem'.inodes) = Len(mem.inodes)
         /\ mem'.inodes[slot] = r
         /\ \A s \in 1..num_ents : s # slot => mem'.inodes[s] = mem.inodes[s]
    <2> HIDE DEF slot
    <2> QED BY <1>2, <1>3, <1>8, <1>9, RecordStored
  <1>11. Shape'
    BY <1>1, <1>2, <1>7, <1>10, SameCounts DEF Shape, Late
  <1>12. Sized'
    <2>1. cur.path + Length[id] <= Len(mem.paths)
      BY <1>1, <1>2 DEF Stored, PathAt
    <2>2. /\ cur'.path <= Len(mem'.paths) /\ cur'.block <= Len(mem'.bytes)
          /\ cur'.bd <= Len(mem'.bds) /\ cur'.initial_bd <= cur'.bd
      <3>1. /\ cur'.path = cur.path + Length[id] /\ cur'.block = cur.block
            /\ cur'.bd = cur.bd /\ cur'.initial_bd = cur.bd
            /\ mem'.paths = mem.paths /\ mem'.bytes = mem.bytes /\ mem'.bds = mem.bds
        BY <1>7, <1>10
      <3>2. cur.block <= Len(mem.bytes) /\ cur.bd <= Len(mem.bds) /\ cur.bd <= cur.bd
        BY <1>2, Fields DEF Sized
      <3> QED BY <2>1, <3>1, <3>2
    <2> QED BY <1>1, <1>2, <1>10, <2>2, SameCounts DEF Sized
  <1>13. Counted'
    <2>1. cur.inode + Cardinality(todo) + 1 = num_ents /\ Cardinality(todo) \in Nat
      BY <1>1, <1>2, Fields DEF Counted
    <2>2. cur'.inode + Cardinality(todo') + 0 = num_ents'
      BY <1>1, <1>3, <1>7, <2>1, SameCounts
    <2>3. {mem.hashes[s] : s \in 1..cur.inode} \cup {id} = {inode_idx[p] : p \in Cached \ todo}
      BY <1>1, <1>2 DEF Counted
    <2>4. {mem'.hashes[s] : s \in 1..cur'.inode} = {mem.hashes[s] : s \in 1..cur.inode} \cup {id}
      <3>1. 1..slot = (1..cur.inode) \cup {slot}
        BY <1>3
      <3> QED BY <1>4, <1>7, <1>10, <3>1
    <2> QED BY <1>1, <2>2, <2>3, <2>4, SameCounts DEF Counted
  <1>14. Stored'
    <2>1. \A s \in 1..cur.inode : Whole(mem, s, cur)'
      <3>1. \A s \in 1..cur.inode : mem'.hashes[s] = mem.hashes[s] /\ mem'.inodes[s] = mem.inodes[s]
        BY <1>3, <1>10
      <3>2. /\ cur'.path >= cur.path /\ cur'.initial_bd >= cur.initial_bd
            /\ cur'.block >= cur.block
        <4>1. Length[id] \in Nat
          BY <1>2, <1>4, NameFacts
        <4> DEFINE l == Length[id]
        <4>2. l \in Nat /\ cur'.path = cur.path + l
          BY <1>7, <4>1
        <4>3. cur'.block = cur.block /\ cur'.initial_bd = cur.bd
          BY <1>7
        <4>4. /\ cur.path \in Nat /\ cur.block \in Nat /\ cur.bd \in Nat
              /\ cur.initial_bd \in Nat /\ cur.initial_bd <= cur.bd
          BY <1>2, Fields DEF Sized
        <4> HIDE DEF l
        <4> QED BY <4>2, <4>3, <4>4
      <3> QED BY <1>1, <1>2, <1>10, <1>11, <3>1, <3>2, WholeNext
    <2>2. ASSUME NEW s, s = slot PROVE Whole(mem, s, cur)'
      <3>1. PathAt(mem, id, cur.path, Len(mem.paths))
        BY <1>1, <1>2 DEF Stored
      <3>2. PathAt(mem', id, cur.path, cur'.path)
        <4>1. cur.path + Length[id] <= cur'.path
          <5> DEFINE l == cur.path + Length[id]
          <5>1. l \in Nat /\ cur'.path = l
            BY <1>2, <1>4, <1>7, Fields, NameFacts
          <5> HIDE DEF l
          <5>2. l <= cur'.path
            BY <5>1
          <5> QED BY <5>2 DEF l
        <4> QED BY <1>10, <3>1, <4>1 DEF PathAt
      <3>3. BlocksAt(mem, id, cur.initial_bd, written, cur.bd, cur.block)
        BY <1>1, <1>2 DEF Stored
      <3>4. BlocksAt(mem', id, cur.initial_bd, written, cur'.initial_bd, cur'.block)
        <4>1. /\ mem'.bds = mem.bds /\ mem'.bytes = mem.bytes
              /\ cur'.initial_bd = cur.bd /\ cur'.block = cur.block
          BY <1>7, <1>10
        <4>2. BlocksAt(mem, id, cur.initial_bd, written, cur'.initial_bd, cur'.block)
          BY <3>3, <4>1
        <4> QED BY <4>1, <4>2, SMTT(60) DEF BlocksAt
      <3>5. dirty_block[id] = << >> <=> written = 0
        BY <1>1, <1>2, <1>4, NameFacts
      <3>6. /\ dirty_block[id] = << >> => r.block_data = -1
            /\ dirty_block[id] # << >> => r.block_data = cur.initial_bd /\ r.block_data \in Nat
        BY <1>2, <1>6, <1>8, <3>5, Fields
      <3>7. mem'.hashes[slot] = id /\ mem'.inodes[slot] = r
        BY <1>4, <1>10
      <3> HIDE DEF slot
      <3>8. mem'.hashes[s] = id /\ mem'.inodes[s] = r
        BY <2>2, <3>7
      <3>9. /\ r.path_size = Length[id] /\ PathAt(mem', id, r.path, cur'.path)
            /\ r.block_data_size = Len(dirty_block[id])
            /\ dirty_block[id] # << >> =>
                 BlocksAt(mem', id, r.block_data, Len(dirty_block[id]), cur'.initial_bd, cur'.block)
        BY <1>1, <1>8, <3>2, <3>4, <3>6
      <3>10. Whole(mem', s, cur')
        BY <1>4, <3>6, <3>8, <3>9, Zenon DEF Whole
      <3> QED BY <1>1, <3>10, SameCounts DEF Whole, BlocksAt, PathAt
    <2>3. \A s \in 1..cur'.inode : Whole(mem, s, cur)'
      <3>1. \A s \in 1..cur'.inode : s \in 1..cur.inode \/ s = slot
        BY <1>3, <1>7
      <3> HIDE DEF slot
      <3> QED BY <2>1, <2>2, <3>1
    <2>4. ~Busy' /\ pc' # "blocks" /\ cur'.bd = cur'.initial_bd
      BY <1>1, <1>7
    <2>5. \A s \in (cur'.inode + 1)..num_ents' :
            mem'.inodes[s].path = 0 /\ mem'.inodes[s].path_size = 0
      <3>1. \A s \in (cur.inode + 1)..num_ents :
              s # slot => mem.inodes[s].path = 0 /\ mem.inodes[s].path_size = 0
        BY <1>1, <1>2 DEF Stored
      <3>2. \A s \in (cur'.inode + 1)..num_ents' :
              s \in 1..num_ents /\ s # slot /\ s \in (cur.inode + 1)..num_ents
        BY <1>1, <1>3, <1>7, SameCounts
      <3> QED BY <1>10, <3>1, <3>2
    <2> QED BY <2>3, <2>4, <2>5 DEF Stored
  <1>15. Indexed'
    <2>1. mem.tree.slots = 1..cur.inode
      BY <1>1, <1>2 DEF Indexed
    <2>2. cur'.inode - 1 = cur.inode /\ cur'.inode > 0 /\ mem'.hashes[cur'.inode] = id'
      BY <1>1, <1>3, <1>4, <1>7, <1>10
    <2> QED BY <1>1, <1>10, <2>1, <2>2 DEF Indexed
  <1> QED BY <1>1, <1>11, <1>12, <1>13, <1>14, <1>15 DEF TInv, Early, Late

\* A block and its block_data are stored behind those before, or hit other
\* memory.
LEMMA AddBlockTInv ==
  ASSUME TInv, add_block
  PROVE  TInv'
  <1> DEFINE k == written + 1
             size == dirty_block[id][k]
             b == [block_id |-> k, size |-> size, data_offset |-> cur.block]
  <1>1. /\ UNCHANGED cache /\ todo' = todo /\ id' = id /\ pc = "blocks" /\ Busy
        /\ written < Len(dirty_block[id])
        /\ pc' = IF Fits(mem.bytes, cur.block, size) /\ Fits(mem.bds, cur.bd, 1)
                   THEN "blocks" ELSE "overrun"
        /\ mem' = [mem EXCEPT !.bytes = Put(@, cur.block, BlockBytes(id, k)),
                              !.bds = Put(@, cur.bd, <<b>>)]
        /\ cur' = [cur EXCEPT !.block = @ + size, !.bd = @ + 1]
    BY DEF add_block, Busy
  <1>2. Shape /\ Sized /\ Counted /\ Stored /\ Indexed /\ pc \in Late
    BY <1>1 DEF TInv, Late
  <1>3. /\ cur.inode \in Nat /\ cur.block \in Nat /\ cur.bd \in Nat
        /\ cur.initial_bd \in Nat /\ cur.path \in Nat
        /\ mem.bytes \in Seq((Names \X Nat \X Nat) \cup {Nil})
        /\ mem.bds \in Seq(BlockData \cup {Nil})
    BY <1>2, Fields
  <1>4. id \in Names /\ written \in Nat /\ k \in 1..Len(dirty_block[id]) /\ k \in Nat
    <2>1. id \in Names
      BY <1>1, <1>2 DEF Stored
    <2>2. written \in Nat
      BY <1>2, <1>3 DEF written, Sized
    <2>3. Len(dirty_block[id]) \in Nat
      BY <1>2, <2>1, NameFacts
    <2> QED BY <1>1, <2>1, <2>2, <2>3
  <1>5. size \in Nat
    BY <1>2, <1>4, NameFacts
  <1>6. b \in BlockData
    BY <1>3, <1>4, <1>5 DEF BlockData
  <1> HIDE DEF k, size
  <1>7. /\ cur'.inode = cur.inode /\ cur'.path = cur.path /\ cur'.initial_bd = cur.initial_bd
        /\ cur'.bd = cur.bd + 1 /\ cur'.block = cur.block + size
        /\ cur' \in [inode : Nat, block : Nat, bd : Nat, initial_bd : Nat, path : Nat]
    <2> DEFINE x == cur.block + size
               y == cur.bd + 1
               C == [inode : Nat, block : Nat, bd : Nat, initial_bd : Nat, path : Nat]
    <2>1. x \in Nat /\ y \in Nat /\ cur' = [cur EXCEPT !.block = x, !.bd = y]
      BY <1>1, <1>3, <1>5
    <2>2. cur \in C
      BY <1>2 DEF Shape
    <2> HIDE DEF x, y
    <2>3. /\ cur'.inode = cur.inode /\ cur'.path = cur.path /\ cur'.initial_bd = cur.initial_bd
          /\ cur'.bd = y /\ cur'.block = x /\ cur' \in C
      BY <2>1, <2>2
    <2> QED BY <2>3 DEF x, y
  <1>8. /\ mem'.size = mem.size /\ mem'.tree = mem.tree /\ mem'.header = mem.header
        /\ mem'.inodes = mem.inodes /\ mem'.hashes = mem.hashes /\ mem'.paths = mem.paths
        /\ mem'.bytes = Put(mem.bytes, cur.block, BlockBytes(id, k))
        /\ mem'.bds = Put(mem.bds, cur.bd, <<b>>)
    <2> DEFINE B == Put(mem.bytes, cur.block, BlockBytes(id, k))
               D == Put(mem.bds, cur.bd, <<b>>)
    <2>1. mem' = [mem EXCEPT !.bytes = B, !.bds = D]
      BY <1>1
    <2> HIDE DEF B, D
    <2>2. /\ mem'.size = mem.size /\ mem'.tree = mem.tree /\ mem'.header = mem.header
          /\ mem'.inodes = mem.inodes /\ mem'.hashes = mem.hashes /\ mem'.paths = mem.paths
          /\ mem'.bytes = B /\ mem'.bds = D
      BY <1>2, <2>1 DEF Shape, Memory
    <2> QED BY <2>2 DEF B, D
  <1>9. /\ mem'.bytes \in Seq((Names \X Nat \X Nat) \cup {Nil})
        /\ Len(mem'.bytes) = Len(mem.bytes)
        /\ \A i \in 1..Len(mem.bytes) : i <= cur.block => mem'.bytes[i] = mem.bytes[i]
        /\ cur.block + size <= Len(mem.bytes) =>
             \A i \in 1..size : mem'.bytes[cur.block + i] = <<id, k, i>>
    <2> DEFINE T == (Names \X Nat \X Nat) \cup {Nil}
               s == BlockBytes(id, k)
               region == mem.bytes
               at == cur.block
    <2>1. s \in Seq(T) /\ Len(s) = size /\ \A i \in 1..size : s[i] = <<id, k, i>>
      BY <1>2, <1>4, SourceFacts DEF size
    <2>2. region \in Seq(T) /\ at \in Nat
      BY <1>3
    <2>3. mem'.bytes = Put(region, at, s)
      BY <1>8
    <2> HIDE DEF T, s, region, at
    <2>4. /\ Put(region, at, s) \in Seq(T)
          /\ Len(Put(region, at, s)) = Len(region)
          /\ \A i \in 1..Len(region) : i <= at => Put(region, at, s)[i] = region[i]
          /\ at + Len(s) <= Len(region) =>
               \A i \in 1..Len(s) : Put(region, at, s)[at + i] = s[i]
      BY <2>1, <2>2, PutFacts
    <2>5. /\ mem'.bytes \in Seq(T)
          /\ Len(mem'.bytes) = Len(region)
          /\ \A i \in 1..Len(region) : i <= at => mem'.bytes[i] = region[i]
          /\ at + size <= Len(region) =>
               \A i \in 1..size : mem'.bytes[at + i] = <<id, k, i>>
      BY <2>1, <2>3, <2>4
    <2> QED BY <2>5 DEF T, region, at
  <1>10. /\ mem'.bds \in Seq(BlockData \cup {Nil})
         /\ Len(mem'.bds) = Len(mem.bds)
         /\ \A i \in 1..Len(mem.bds) : i <= cur.bd => mem'.bds[i] = mem.bds[i]
         /\ cur.bd + 1 <= Len(mem.bds) => mem'.bds[cur.bd + 1] = b
    <2> DEFINE T == BlockData \cup {Nil}
               s == <<b>>
               region == mem.bds
               at == cur.bd
    <2>1. s \in Seq(T) /\ Len(s) = 1 /\ s[1] = b
      <3> HIDE DEF b
      <3> QED BY <1>6
    <2>2. region \in Seq(T) /\ at \in Nat
      BY <1>3
    <2>3. mem'.bds = Put(region, at, s)
      BY <1>8
    <2> HIDE DEF T, s, region, at, b
    <2>4. /\ Put(region, at, s) \in Seq(T)
          /\ Len(Put(region, at, s)) = Len(region)
          /\ \A i \in 1..Len(region) : i <= at => Put(region, at, s)[i] = region[i]
          /\ at + Len(s) <= Len(region) =>
               \A i \in 1..Len(s) : Put(region, at, s)[at + i] = s[i]
      <3>1. s \in Seq(T)
        BY <2>1
      <3> QED BY <3>1, <2>2, PutFacts
    <2>5. /\ mem'.bds \in Seq(T)
          /\ Len(mem'.bds) = Len(region)
          /\ \A i \in 1..Len(region) : i <= at => mem'.bds[i] = region[i]
          /\ at + 1 <= Len(region) => mem'.bds[at + 1] = b
      BY <2>1, <2>3, <2>4
    <2> QED BY <2>5 DEF T, region, at
  <1>11. mem' \in Memory
    <2> DEFINE B == Put(mem.bytes, cur.block, BlockBytes(id, k))
               D == Put(mem.bds, cur.bd, <<b>>)
    <2>1. /\ mem' = [mem EXCEPT !.bytes = B, !.bds = D]
          /\ B \in Seq((Names \X Nat \X Nat) \cup {Nil}) /\ D \in Seq(BlockData \cup {Nil})
      BY <1>1, <1>8, <1>9, <1>10
    <2> HIDE DEF B, D
    <2> QED BY <1>2, <2>1 DEF Shape, Memory
  <1>12. Shape'
    BY <1>1, <1>2, <1>7, <1>11, SameCounts DEF Shape, Late
  <1>13. CASE pc' = "overrun"
    BY <1>12, <1>13 DEF TInv, Early, Late
  <1>14. CASE pc' = "blocks"
    <2>1. Busy' /\ cur.block + size <= Len(mem.bytes) /\ cur.bd + 1 <= Len(mem.bds)
      BY <1>1, <1>14 DEF Busy, Fits
    <2>2. Sized'
      <3>1. cur'.initial_bd <= cur'.bd
        BY <1>2, <1>3, <1>7 DEF Sized
      <3>2. cur'.path <= Len(mem'.paths) /\ cur'.block <= Len(mem'.bytes) /\ cur'.bd <= Len(mem'.bds)
        BY <1>2, <1>7, <1>8, <1>9, <1>10, <2>1 DEF Sized
      <3> QED BY <1>1, <1>2, <1>8, <1>9, <1>10, <3>1, <3>2, SameCounts DEF Sized
    <2>3. Counted'
      <3>1. /\ cur.inode + Cardinality(todo) + 1 = num_ents
            /\ {mem.hashes[s] : s \in 1..cur.inode} \cup {id} = {inode_idx[p] : p \in Cached \ todo}
        BY <1>1, <1>2 DEF Counted
      <3>2. /\ cur'.inode = cur.inode /\ mem'.hashes = mem.hashes /\ id' = id /\ todo' = todo
            /\ num_ents' = num_ents /\ Cached' = Cached /\ inode_idx' = inode_idx
        BY <1>1, <1>7, <1>8, SameCounts
      <3> QED BY <2>1, <3>1, <3>2 DEF Counted
    <2>4. /\ \A i \in 1..cur.bd : mem'.bds[i] = mem.bds[i]
          /\ \A i \in 1..cur.block : mem'.bytes[i] = mem.bytes[i]
      <3>1. /\ \A i \in 1..cur.bd : i \in 1..Len(mem.bds) /\ i <= cur.bd
            /\ \A i \in 1..cur.block : i \in 1..Len(mem.bytes) /\ i <= cur.block
        BY <1>2, <1>3 DEF Sized
      <3> QED BY <1>9, <1>10, <3>1
    <2>5. \A s \in 1..cur'.inode : Whole(mem, s, cur)'
      <3>1. \A i \in 1..cur.initial_bd : mem'.bds[i] = mem.bds[i]
        <4>1. \A i \in 1..cur.initial_bd : i \in 1..cur.bd
          BY <1>2, <1>3 DEF Sized
        <4> QED BY <2>4, <4>1
      <3>2. /\ cur'.path >= cur.path /\ cur'.initial_bd >= cur.initial_bd
            /\ cur'.block >= cur.block
        BY <1>3, <1>5, <1>7
      <3>3. \A s \in 1..cur.inode : mem'.hashes[s] = mem.hashes[s] /\ mem'.inodes[s] = mem.inodes[s]
        BY <1>8
      <3>4. \A i \in 1..cur.path : mem'.paths[i] = mem.paths[i]
        BY <1>8
      <3>5. \A s \in 1..cur.inode : Whole(mem, s, cur)'
        BY <1>1, <1>2, <1>12, <2>4, <3>1, <3>2, <3>3, <3>4, WholeNext
      <3> QED BY <1>7, <3>5
    <2>6. written' = k
      <3>1. /\ cur'.bd = cur.bd + 1 /\ cur'.initial_bd = cur.initial_bd
            /\ cur.bd \in Nat /\ cur.initial_bd \in Nat
        BY <1>3, <1>7
      <3> QED BY <3>1 DEF written, k
    <2>7. BlocksAt(mem, id, cur.initial_bd, written, cur.bd, cur.block)'
      <3> DEFINE old == written
                 at == cur.initial_bd
      <3>1. BlocksAt(mem, id, at, old, cur.bd, cur.block)
        BY <1>1, <1>2 DEF Stored
      <3>2. cur.bd <= cur'.bd /\ cur.block <= cur'.block /\ cur'.bd \in Nat /\ cur'.block \in Nat
        BY <1>3, <1>5, <1>7
      <3>3. BlocksAt(mem', id, at, old, cur'.bd, cur'.block)
        <4>1. old \in Nat /\ at \in Nat
          BY <1>3, <1>4
        <4> HIDE DEF old, at
        <4> QED BY <1>3, <1>4, <2>4, <3>1, <3>2, <4>1, BlocksKeep
      <3>4. at + k = cur'.bd /\ at + k = cur.bd + 1 /\ k = old + 1
        BY <1>3, <1>7 DEF written, k
      <3>5. LET c == mem'.bds[at + k]
            IN  /\ c \in BlockData
                /\ c.block_id = k /\ c.size = dirty_block[id][k]
                /\ c.data_offset + c.size <= cur'.block
                /\ \A i \in 1..c.size : mem'.bytes[c.data_offset + i] = <<id, k, i>>
        <4>1. mem'.bds[at + k] = b
          BY <1>10, <2>1, <3>4
        <4>2. b.block_id = k /\ b.size = dirty_block[id][k] /\ b.size = size /\ b.data_offset = cur.block
          BY DEF size
        <4>3. cur.block + size <= cur'.block
          BY <1>3, <1>5, <1>7
        <4> HIDE DEF b
        <4> QED BY <1>6, <1>9, <2>1, <4>1, <4>2, <4>3
      <3>6. \A j \in 1..k : j \in 1..old \/ j = k
        BY <1>4, <3>4
      <3>7. at + k <= cur'.bd
        BY <1>3, <3>4, <1>7
      <3>8. BlocksAt(mem', id, at, k, cur'.bd, cur'.block)
        <4> HIDE DEF old, at
        <4> QED BY <3>3, <3>5, <3>6, <3>7 DEF BlocksAt
      <3>9. /\ id' = id /\ cur'.initial_bd = at /\ written' = k /\ dirty_block' = dirty_block
        BY <1>1, <1>7, <2>6, SameCounts
      <3> HIDE DEF at
      <3>10. BlocksAt(mem', id', cur'.initial_bd, written', cur'.bd, cur'.block)
        BY <3>8, <3>9
      <3> QED BY <3>9, <3>10 DEF BlocksAt
    <2>8. Stored'
      <3>1. /\ id' \in Names /\ mem'.hashes[cur'.inode + 1] = id'
            /\ PathAt(mem, id, cur.path, Len(mem.paths))'
        BY <1>1, <1>2, <1>4, <1>7, <1>8 DEF Stored, PathAt
      <3>2. /\ mem'.inodes[cur'.inode + 1].path = cur'.path
            /\ mem'.inodes[cur'.inode + 1].path_size = Length[id']
        BY <1>1, <1>2, <1>7, <1>8 DEF Stored
      <3>3. written' <= Len(dirty_block'[id'])
        BY <1>1, <1>4, <2>6, SameCounts
      <3>4. \A s \in (cur'.inode + 1)..num_ents' :
              s # cur'.inode + 1 => mem'.inodes[s].path = 0 /\ mem'.inodes[s].path_size = 0
        BY <1>1, <1>2, <1>7, <1>8, SameCounts DEF Stored
      <3> QED BY <1>14, <2>5, <2>7, <3>1, <3>2, <3>3, <3>4 DEF Stored
    <2>9. Indexed'
      BY <1>1, <1>2, <1>7, <1>8, <1>14 DEF Indexed
    <2> QED BY <1>12, <1>14, <2>2, <2>3, <2>8, <2>9 DEF TInv, Early, Late
  <1> QED BY <1>1, <1>13, <1>14

\* The key is in the tree.
LEMMA InsertTInv ==
  ASSUME TInv, insert_returns
  PROVE  TInv'
  <1> DEFINE slot == cur.inode
             t == [mem.tree EXCEPT !.slots = mem.tree.slots \cup {slot}]
  <1>1. /\ UNCHANGED cache /\ todo' = todo /\ id' = id /\ cur' = cur
        /\ pc = "torn" /\ pc' = "path" /\ ~Busy /\ ~Busy'
    BY DEF insert_returns, Busy
  <1>2. Shape /\ Sized /\ Counted /\ Stored /\ Indexed
    BY <1>1 DEF TInv, Late
  <1>3. /\ slot \in Nat /\ slot > 0 /\ mem.hashes[slot] = id /\ mem.tree.slots = 1..(slot - 1)
    BY <1>1, <1>2, Fields DEF Indexed
  <1>4. mem' = [mem EXCEPT !.tree = t]
    BY DEF insert_returns
  <1>5. mem.tree \in [is_leaf : BOOLEAN, slots : SUBSET Nat]
    BY <1>2 DEF Shape, Memory
  <1>6. t \in [is_leaf : BOOLEAN, slots : SUBSET Nat] /\ t.slots = mem.tree.slots \cup {slot}
    <2> HIDE DEF slot
    <2> QED BY <1>3, <1>5
  <1> HIDE DEF t
  <1>8. /\ mem' \in Memory /\ mem'.tree = t
        /\ mem'.size = mem.size /\ mem'.header = mem.header
        /\ mem'.inodes = mem.inodes /\ mem'.bytes = mem.bytes /\ mem'.bds = mem.bds
        /\ mem'.hashes = mem.hashes /\ mem'.paths = mem.paths
    BY <1>2, <1>4, <1>6 DEF Shape, Memory
  <1>9. Shape'
    BY <1>1, <1>2, <1>8, SameCounts DEF Shape, Late
  <1>10. Sized' /\ Counted'
    <2>1. Sized'
      BY <1>1, <1>2, <1>8, SameCounts DEF Sized
    <2>2. Counted'
      BY <1>1, <1>2, <1>8, SameCounts DEF Counted
    <2> QED BY <2>1, <2>2
  <1>11. Stored'
    <2>1. \A s \in 1..cur'.inode : Whole(mem, s, cur)'
      <3>1. /\ cur'.path >= cur.path /\ cur'.initial_bd >= cur.initial_bd
            /\ cur'.block >= cur.block
        BY <1>1, <1>2, Fields
      <3>2. \A s \in 1..cur.inode : Whole(mem, s, cur)'
        BY <1>1, <1>2, <1>8, <1>9, <3>1, WholeNext
      <3> QED BY <1>1, <3>2
    <2> QED BY <1>1, <1>2, <1>8, <2>1, SameCounts DEF Stored
  <1>12. Indexed'
    <2>1. (1..(slot - 1)) \cup {slot} = 1..slot
      BY <1>3
    <2>2. mem'.tree.slots = 1..cur'.inode
      BY <1>1, <1>3, <1>6, <1>8, <2>1
    <2>3. \E s \in 1..cur'.inode : mem'.hashes[s] = id'
      <3>1. slot \in 1..slot
        BY <1>3
      <3> QED BY <1>1, <1>3, <1>8, <3>1
    <2> QED BY <1>1, <1>8, <2>2, <2>3 DEF Indexed
  <1> QED BY <1>1, <1>9, <1>10, <1>11, <1>12 DEF TInv, Early, Late

\* The steps that store nothing here.
LEMMA QuietTInv ==
  ASSUME TInv, insert_begins \/ end
  PROVE  TInv'
  <1>1. /\ UNCHANGED cache /\ todo' = todo /\ id' = id /\ mem' = mem /\ cur' = cur
        /\ ~Busy /\ ~Busy' /\ pc \in Late /\ pc' \in Late /\ pc # "blocks" /\ pc' # "blocks"
        /\ pc' \notin Early
    BY DEF insert_begins, end, Busy, Late, Early
  <1>2. Shape /\ Sized /\ Counted /\ Stored /\ Indexed
    BY <1>1 DEF TInv
  <1>3. Shape'
    BY <1>1, <1>2, SameCounts DEF Shape
  <1>4. Sized' /\ Counted'
    <2>1. /\ Cached' = Cached /\ inode_idx' = inode_idx /\ num_ents' = num_ents
          /\ path_size' = path_size /\ block_size' = block_size /\ num_blocks' = num_blocks
      BY <1>1, SameCounts
    <2>2. Sized'
      BY <1>1, <1>2, <2>1, Zenon DEF Sized
    <2>3. Counted'
      <3>1. /\ cur.inode + Cardinality(todo) + 0 = num_ents
            /\ {mem.hashes[s] : s \in 1..cur.inode} \cup {} = {inode_idx[p] : p \in Cached \ todo}
        BY <1>1, <1>2 DEF Counted
      <3>2. /\ (cur.inode + Cardinality(todo) + 0 = num_ents)'
            /\ ({mem.hashes[s] : s \in 1..cur.inode} \cup {} = {inode_idx[p] : p \in Cached \ todo})'
        BY <1>1, <2>1, <3>1, Zenon
      <3> QED BY <1>1, <3>2 DEF Counted
    <2> QED BY <2>2, <2>3
  <1>5. Stored'
    <2>1. \A s \in 1..cur'.inode : Whole(mem, s, cur)'
      BY <1>1, <1>2, <1>3, SameWhole
    <2> QED BY <1>1, <1>2, <2>1, SameCounts DEF Stored
  <1>6. Indexed'
    BY <1>1, <1>2 DEF Indexed, insert_begins, end
  <1> QED BY <1>1, <1>3, <1>4, <1>5, <1>6 DEF TInv

\* The invariant is inductive.
LEMMA NextTInv == TInv /\ [Next]_vars => TInv'
  <1> SUFFICES ASSUME TInv, [Next]_vars PROVE TInv'
    OBVIOUS
  <1>1. CASE Next
    BY <1>1, EarlyTInv, RegionsTInv, AddPathTInv, AddFieldsTInv, AddBlockTInv,
       AddBlockListTInv, InsertTInv, QuietTInv DEF Next
  <1>2. CASE UNCHANGED vars
    <2>1. /\ UNCHANGED cache /\ pc' = pc /\ todo' = todo /\ id' = id /\ mem' = mem /\ cur' = cur
      BY <1>2 DEF vars, cache
    <2>2. Shape /\ Shape' /\ Busy' = Busy /\ written' = written
      BY <2>1, SameCounts DEF TInv, Shape, Busy, written
    <2>3. CASE pc \in Early
      <3>1. Clean'
        BY <2>1, <2>3, SameCounts DEF TInv, Clean
      <3>2. pc \notin Late
        BY <2>3 DEF Early, Late
      <3> QED BY <2>1, <2>2, <3>1, <3>2 DEF TInv
    <2>4. CASE pc \in Late
      <3>1. Sized /\ Counted /\ Stored /\ Indexed
        BY <2>4 DEF TInv
      <3>2. Sized'
        BY <2>1, <3>1, SameCounts DEF Sized
      <3>3. Counted'
        BY <2>1, <2>2, <3>1, SameCounts DEF Counted
      <3>4. Stored'
        <4>1. \A s \in 1..cur'.inode : Whole(mem, s, cur)'
          BY <2>1, <2>2, <3>1, SameWhole
        <4> QED BY <2>1, <2>2, <3>1, <4>1, SameCounts DEF Stored, BlocksAt, PathAt
      <3>5. Indexed'
        BY <2>1, <3>1 DEF Indexed
      <3>6. pc \notin Early
        BY <2>4 DEF Early, Late
      <3> QED BY <2>1, <2>2, <3>2, <3>3, <3>4, <3>5, <3>6 DEF TInv
    <2>5. CASE pc \notin Early \cup Late
      BY <2>1, <2>2, <2>5 DEF TInv
    <2> QED BY <2>3, <2>4, <2>5
  <1> QED BY <1>1, <1>2

\* It holds at every store of a flush.
LEMMA TInvHolds == Spec => []TInv
  BY InitTInv, NextTInv, PTL DEF Spec
-----------------------------------------------------------------------------
(* What the loader finds.                                                  *)

\* What lies behind a place of a region.
LEMMA Slice ==
  ASSUME NEW T, NEW s \in Seq(T), NEW a \in Nat, NEW l \in Nat, NEW f,
         f = [i \in 1..l |-> f[i]], \A i \in 1..l : s[a + i] = f[i]
  PROVE  SubSeq(s, a + 1, a + l) = f
  <1> DEFINE g == [i \in 1..l |-> s[a + i]]
  <1>1. SubSeq(s, a + 1, a + l) = [i \in 1..(1 + (a + l) - (a + 1)) |-> s[i + (a + 1) - 1]]
    OBVIOUS
  <1>2. 1 + (a + l) - (a + 1) = l /\ \A i \in 1..l : i + (a + 1) - 1 = a + i
    OBVIOUS
  <1>3. SubSeq(s, a + 1, a + l) = g
    BY <1>1, <1>2
  <1>4. g = f
    OBVIOUS
  <1> QED BY <1>3, <1>4

\* A path that is written is read.
LEMMA PathReads ==
  ASSUME Shape, NEW n \in Names, NEW r \in Record, NEW e,
         r.path_size = Length[n], PathAt(mem, n, r.path, e)
  PROVE  PathIn(r) = Chars(n)
  <1> DEFINE T == (Names \X Nat) \cup {Nil}
             f == Chars(n)
             l == Length[n]
             a == r.path
  <1>1. mem.paths \in Seq(T) /\ l \in Nat /\ a \in Nat
    BY Fields, NameFacts DEF Record
  <1>2. f = [i \in 1..l |-> f[i]] /\ \A i \in 1..l : f[i] = <<n, i>>
    BY DEF Chars
  <1>3. \A i \in 1..l : mem.paths[a + i] = f[i]
    BY <1>2 DEF PathAt
  <1>4. PathIn(r) = SubSeq(mem.paths, a + 1, a + l)
    BY DEF PathIn
  <1> HIDE DEF T, f, l, a
  <1>5. SubSeq(mem.paths, a + 1, a + l) = f
    BY <1>1, <1>2, <1>3, Slice
  <1> QED BY <1>4, <1>5 DEF f

\* So are the path and the blocks of a finished slot.
LEMMA WholeReads ==
  ASSUME TInv, pc \in Late, NEW s \in 1..cur.inode
  PROVE  /\ s \in 1..num_ents /\ mem.hashes[s] \in Names
         /\ PathIn(mem.inodes[s]) = Chars(mem.hashes[s])
         /\ BlocksIn(mem.inodes[s]) =
              [k \in 1..Len(dirty_block[mem.hashes[s]]) |->
                 [block_id |-> k, data |-> BlockBytes(mem.hashes[s], k)]]
  <1> DEFINE n == mem.hashes[s]
             r == mem.inodes[s]
             count == Len(dirty_block[n])
  <1>1. Shape /\ Sized /\ Counted /\ Stored
    BY DEF TInv
  <1>2. s \in 1..num_ents
    <2> DEFINE k == IF Busy THEN 1 ELSE 0
               l == Cardinality(todo)
    <2>1. cur.inode + l + k = num_ents /\ k \in Nat
      BY <1>1 DEF Counted
    <2>2. cur.inode \in Nat /\ num_ents \in Nat /\ l \in Nat
      BY <1>1, Fields, Counts
    <2> HIDE DEF k, l
    <2> QED BY <2>1, <2>2
  <1>3. r \in Record
    BY <1>1, <1>2, Fields DEF Sized
  <1>4. /\ n \in Names
        /\ r.path_size = Length[n] /\ PathAt(mem, n, r.path, cur.path)
        /\ r.block_data_size = count
        /\ IF dirty_block[n] = << >> THEN r.block_data = -1
           ELSE /\ r.block_data \in Nat
                /\ BlocksAt(mem, n, r.block_data, count, cur.initial_bd, cur.block)
    BY <1>1 DEF Stored, Whole
  <1> HIDE DEF n, r
  <1>5. PathIn(r) = Chars(n)
    BY <1>1, <1>3, <1>4, PathReads
  <1>6. dirty_block[n] \in Seq(Nat) /\ count \in Nat
    BY <1>1, <1>4, NameFacts
  <1>7. BlocksIn(r) = [k \in 1..count |-> [block_id |-> k, data |-> BlockBytes(n, k)]]
    <2>1. CASE dirty_block[n] = << >>
      <3>1. BlocksIn(r) = << >> /\ count = 0
        BY <1>4, <2>1 DEF BlocksIn
      <3> HIDE DEF count
      <3> QED BY <3>1
    <2>2. CASE dirty_block[n] # << >>
      <3> DEFINE at == r.block_data
                 b(k) == mem.bds[at + k]
                 d(k) == SubSeq(mem.bytes, b(k).data_offset + 1, b(k).data_offset + b(k).size)
      <3>1. at \in Nat /\ BlocksAt(mem, n, at, count, cur.initial_bd, cur.block)
        BY <1>4, <2>2
      <3>2. BlocksIn(r) = [k \in 1..count |-> [block_id |-> b(k).block_id, data |-> d(k)]]
        BY <1>4, <3>1 DEF BlocksIn
      <3>3. ASSUME NEW k \in 1..count
            PROVE  b(k).block_id = k /\ d(k) = BlockBytes(n, k)
        <4>1. /\ b(k) \in BlockData
              /\ b(k).block_id = k /\ b(k).size = dirty_block[n][k]
              /\ \A i \in 1..b(k).size : mem.bytes[b(k).data_offset + i] = <<n, k, i>>
          BY <3>1 DEF BlocksAt
        <4> DEFINE T == (Names \X Nat \X Nat) \cup {Nil}
                   f == BlockBytes(n, k)
                   a == b(k).data_offset
                   l == b(k).size
        <4>2. mem.bytes \in Seq(T) /\ a \in Nat /\ l \in Nat
          BY <1>1, <4>1, Fields DEF BlockData
        <4>3. f = [i \in 1..l |-> f[i]] /\ \A i \in 1..l : f[i] = <<n, k, i>>
          BY <4>1 DEF BlockBytes
        <4>4. \A i \in 1..l : mem.bytes[a + i] = f[i]
          BY <4>1, <4>3
        <4>5. d(k) = SubSeq(mem.bytes, a + 1, a + l)
          OBVIOUS
        <4> HIDE DEF T, f, a, l, b, d
        <4>6. SubSeq(mem.bytes, a + 1, a + l) = f
          BY <4>2, <4>3, <4>4, Slice, SMTT(40)
        <4> QED BY <4>1, <4>5, <4>6 DEF f
      <3> HIDE DEF b, d, count
      <3> QED BY <3>2, <3>3
    <2> QED BY <2>1, <2>2
  <1> QED BY <1>2, <1>4, <1>5, <1>7 DEF n, r

\* What the search of the tree finds.
LEMMA LookupFinds ==
  ASSUME TInv, pc \in Late, NEW n \in Names
  PROVE  /\ n \notin Added => Lookup(n) = Nil
         /\ n \in Added => Lookup(n) \in 1..cur.inode /\ mem.hashes[Lookup(n)] = n
  <1> DEFINE at == {k \in mem.tree.slots : mem.hashes[k] = n}
  <1>1. Shape /\ Indexed
    BY DEF TInv
  <1>2. cur.inode \in Nat /\ mem.tree.slots \subseteq 1..cur.inode
    BY <1>1, Fields DEF Indexed
  <1>3. Lookup(n) = IF at = {} THEN Nil ELSE CHOOSE k \in at : TRUE
    BY DEF Lookup
  <1>4. n \in Added <=> at # {}
    BY DEF Added
  <1> QED BY <1>2, <1>3, <1>4

\* The file can be mapped from its first header on, and searched from its
\* first node on.
Mapped ==
  /\ pc \notin {"open", "truncate"} => mem.size = "mapped"
  /\ pc \notin {"open", "truncate", "num_inodes", "root"} => mem.header.root
  /\ pc \notin Early \ {"regions"} => mem.tree.is_leaf

LEMMA NextMapped == TInv /\ Mapped /\ [Next]_vars => Mapped'
  <1> SUFFICES ASSUME TInv, Mapped, [Next]_vars PROVE Mapped'
    OBVIOUS
  <1>0. mem \in Memory
    BY DEF TInv, Shape
  <1>1. CASE open_file \/ truncate_file \/ set_num_inodes
    BY <1>0, <1>1 DEF open_file, truncate_file, set_num_inodes, Mapped, Memory, Early
  <1>2. CASE set_root
    BY <1>0, <1>2 DEF set_root, Mapped, Memory, Early
  <1>3. CASE set_leaf
    BY <1>0, <1>3 DEF set_leaf, Mapped, Memory, Early
  <1>4. CASE allocate_regions
    <2>1. /\ mem'.size = mem.size /\ mem'.tree = mem.tree /\ mem'.header.root = mem.header.root
          /\ mem.tree.is_leaf \in BOOLEAN
      BY <1>0, <1>4 DEF allocate_regions, Memory
    <2>2. pc = "regions" /\ pc' = "path"
      BY <1>4 DEF allocate_regions
    <2> QED BY <2>1, <2>2 DEF Mapped, Early
  <1>5. ASSUME mem'.size = mem.size, mem'.header = mem.header, mem'.tree.is_leaf = mem.tree.is_leaf,
               pc \notin Early
        PROVE  Mapped'
    BY <1>5 DEF Mapped, Early
  <1>6. CASE \E p \in Paths : add_path(p)
    BY <1>0, <1>5, <1>6 DEF add_path, Memory, Early
  <1>7. CASE add_fields \/ add_block_list
    BY <1>0, <1>5, <1>7 DEF add_fields, add_block_list, Memory, Early
  <1>8. CASE add_block
    BY <1>0, <1>5, <1>8 DEF add_block, Memory, Early
  <1>9. CASE insert_returns
    BY <1>0, <1>5, <1>9 DEF insert_returns, Memory, Early
  <1>10. CASE insert_begins \/ end
    BY <1>5, <1>10 DEF insert_begins, end, Early
  <1>11. CASE UNCHANGED vars
    BY <1>11 DEF vars, Mapped
  <1> QED BY <1>1, <1>2, <1>3, <1>4, <1>6, <1>7, <1>8, <1>9, <1>10, <1>11 DEF Next

LEMMA MappedHolds == Spec => []Mapped
  <1>1. Init => Mapped
    BY DEF Init, Mapped, Early
  <1> QED BY <1>1, NextMapped, TInvHolds, PTL DEF Spec

\* Wherever a flush of entries with ids of their own is cut off after the
\* regions are allocated, but for the stores of an insertion into the tree,
\* the loader finds exactly the inodes that were added, each with its own path
\* and blocks; the finished tree holds the whole cache.
THEOREM CutTreesReadable == Spec => []CutTreeReadable
  <1>1. ASSUME TInv, Mapped PROVE CutTreeReadable
    <2>0. ASSUME Steady PROVE Searchable
      BY <1>1, <2>0 DEF Steady, Mapped, Early, Searchable
    <2>1. ASSUME Steady PROVE pc \in Late
      BY <1>1, <2>1 DEF Steady, TInv, Shape, Early, Late
    <2>2. ASSUME Steady, NEW n \in Names
          PROVE  IF n \notin Added THEN Lookup(n) = Nil
                 ELSE LET r == mem.inodes[Lookup(n)]
                      IN  /\ PathIn(r) = Chars(n)
                          /\ BlocksIn(r) = [k \in 1..Len(dirty_block[n]) |->
                                              [block_id |-> k, data |-> BlockBytes(n, k)]]
      <3>1. CASE n \notin Added
        BY <1>1, <2>1, <2>2, <3>1, LookupFinds
      <3>2. CASE n \in Added
        <4> DEFINE s == Lookup(n)
        <4>1. s \in 1..cur.inode /\ mem.hashes[s] = n
          BY <1>1, <2>1, <2>2, <3>2, LookupFinds
        <4>2. ASSUME NEW t \in 1..cur.inode, mem.hashes[t] = n
              PROVE  /\ PathIn(mem.inodes[t]) = Chars(n)
                     /\ BlocksIn(mem.inodes[t]) =
                          [k \in 1..Len(dirty_block[n]) |->
                             [block_id |-> k, data |-> BlockBytes(n, k)]]
          <5>1. pc \in Late
            BY <2>1, <2>2
          <5>2. /\ PathIn(mem.inodes[t]) = Chars(mem.hashes[t])
                /\ BlocksIn(mem.inodes[t]) =
                     [k \in 1..Len(dirty_block[mem.hashes[t]]) |->
                        [block_id |-> k, data |-> BlockBytes(mem.hashes[t], k)]]
            BY <1>1, <5>1, WholeReads
          <5> QED BY <4>2, <5>2
        <4> HIDE DEF s
        <4>3. /\ PathIn(mem.inodes[s]) = Chars(n)
              /\ BlocksIn(mem.inodes[s]) =
                   [k \in 1..Len(dirty_block[n]) |->
                      [block_id |-> k, data |-> BlockBytes(n, k)]]
          BY <4>1, <4>2, Zenon
        <4> QED BY <3>2, <4>3 DEF s
      <3> QED BY <3>1, <3>2
    <2>3. ASSUME pc = "done" PROVE Added = {inode_idx[p] : p \in Cached}
      <3>1. pc \in Late /\ ~Busy /\ todo = {} /\ mem.tree.slots = 1..cur.inode
        BY <1>1, <2>3 DEF TInv, Late, Busy, Indexed
      <3>2. {mem.hashes[s] : s \in 1..cur.inode} = {inode_idx[p] : p \in Cached \ todo}
        BY <1>1, <3>1 DEF TInv, Counted
      <3> QED BY <3>1, <3>2 DEF Added
    <2> QED BY <2>0, <2>2, <2>3 DEF CutTreeReadable
  <1> QED BY <1>1, TInvHolds, MappedHolds, PTL

\* At the same points readdir lists every name that was added and, apart from
\* the name being added, no text that is not one.
THEOREM CutTreesListable == Spec => []CutTreeListable
  <1>1. ASSUME TInv PROVE CutTreeListable
    <2> SUFFICES ASSUME Steady
                 PROVE  /\ {Chars(n) : n \in Added} \subseteq Listing
                        /\ Listing \subseteq {Chars(n) : n \in Added \cup ({id} \ {Nil})} \cup {<< >>}
      BY DEF CutTreeListable
    <2>1. pc \in Late /\ pc # "torn"
      BY <1>1 DEF Steady, TInv, Shape, Early, Late
    <2>2. Shape /\ Sized /\ Counted /\ Stored /\ Indexed
      BY <1>1, <2>1 DEF TInv
    <2>3. mem.header.num_inodes = num_ents /\ num_ents \in Nat /\ cur.inode \in Nat
      BY <2>2, Counts, Fields DEF Sized
    <2>4. ASSUME NEW n \in Added PROVE Chars(n) \in Listing
      <3>1. PICK s \in mem.tree.slots : mem.hashes[s] = n
        BY DEF Added
      <3>2. s \in 1..cur.inode
        BY <2>2, <2>3, <3>1 DEF Indexed
      <3>3. s \in 1..num_ents /\ PathIn(mem.inodes[s]) = Chars(n)
        BY <1>1, <2>1, <3>1, <3>2, WholeReads
      <3> QED BY <2>3, <3>3 DEF Listing
    <2>5. ASSUME NEW s \in 1..num_ents
          PROVE  PathIn(mem.inodes[s]) \in
                   {Chars(n) : n \in Added \cup ({id} \ {Nil})} \cup {<< >>}
      <3>1. mem.inodes[s] \in Record
        BY <2>2, Fields DEF Sized
      <3>2. CASE s \in 1..cur.inode
        <4>1. PathIn(mem.inodes[s]) = Chars(mem.hashes[s]) /\ mem.hashes[s] \in Names
          BY <1>1, <2>1, <3>2, WholeReads
        <4>2. mem.hashes[s] \in Added \cup ({id} \ {Nil})
          <5>1. CASE s \in mem.tree.slots
            BY <5>1 DEF Added
          <5>2. CASE s \notin mem.tree.slots
            <6>1. s = cur.inode /\ mem.hashes[s] = id
              BY <2>1, <2>2, <2>3, <3>2, <5>2 DEF Indexed
            <6>2. mem.hashes[s] # Nil
              BY <4>1, TreeFileAssumption
            <6> QED BY <6>1, <6>2
          <5> QED BY <5>1, <5>2
        <4> QED BY <4>1, <4>2
      <3>3. CASE pc = "blocks" /\ s = cur.inode + 1
        <4>1. /\ id \in Names /\ mem.inodes[s].path = cur.path
              /\ mem.inodes[s].path_size = Length[id]
              /\ PathAt(mem, id, cur.path, Len(mem.paths))
          BY <2>2, <3>3 DEF Stored, Busy
        <4>2. PathIn(mem.inodes[s]) = Chars(id)
          BY <2>2, <3>1, <4>1, PathReads
        <4>3. id \in {id} \ {Nil}
          BY <4>1, TreeFileAssumption
        <4> QED BY <4>2, <4>3
      <3>4. CASE s > cur.inode /\ ~(pc = "blocks" /\ s = cur.inode + 1)
        <4>1. mem.inodes[s].path = 0 /\ mem.inodes[s].path_size = 0
          BY <2>2, <2>3, <3>4 DEF Stored
        <4>2. PathIn(mem.inodes[s]) = << >>
          <5>1. mem.paths \in Seq((Names \X Nat) \cup {Nil})
            BY <2>2, Fields
          <5>2. SubSeq(mem.paths, 1, 0) = << >>
            BY <5>1
          <5> QED BY <4>1, <5>2 DEF PathIn
        <4> QED BY <4>2
      <3> QED BY <2>3, <3>2, <3>3, <3>4
    <2> QED BY <2>3, <2>4, <2>5 DEF Listing
  <1> QED BY <1>1, TInvHolds, PTL
-----------------------------------------------------------------------------
(* What has been spent of what was counted.                                *)

\* The entries behind the cursors, and their ids.
Finished == {p \in Cached \ todo : ~(Busy /\ inode_idx[p] = id)}

FinishedIds == {inode_idx[p] : p \in Finished}

\* The dirty blocks that are stored.
StoredBlocks ==
  (UNION {{n} \X (1..Len(dirty_block[n])) : n \in FinishedIds})
    \cup (IF pc = "blocks" THEN {id} \X (1..written) ELSE {})

PathSum(S) == Total([p \in S |-> Length[inode_idx[p]]])

ListSum(S) == Total([n \in S |-> Len(dirty_block[n])])

ByteSum(S) == Total([x \in S |-> dirty_block[x[1]][x[2]]])

Spent ==
  /\ cur.path = PathSum(Finished)
  /\ cur.initial_bd = ListSum(FinishedIds)
  /\ cur.block = ByteSum(StoredBlocks)

AInv == PlainLinks => pc # "overrun" /\ (pc \in Late => Spent)

\* Nothing is a sum of nothing.
LEMMA TotalNone == \A f : Total([x \in {} |-> f[x]]) = 0
  <1> SUFFICES ASSUME NEW f PROVE Total([x \in {} |-> f[x]]) = 0
    OBVIOUS
  <1>1. Pairs({}, f) = {}
    BY DEF Pairs
  <1> QED BY <1>1, TotalPairs, FS_EmptySet

\* The lengths of the names in part of the cache.
LEMMA PathSums ==
  ASSUME Shape, NEW S, S \subseteq Cached
  PROVE  /\ PathSum(S) \in Nat
         /\ PlainLinks => PathSum(S) <= path_size
         /\ \A q \in Cached : q \notin S =>
              PathSum(S \cup {q}) = PathSum(S) + Length[inode_idx[q]]
  <1> DEFINE f == [p \in Cached |-> Length[inode_idx[p]]]
             g == [p \in Cached |-> Length[p]]
  <1>1. IsFiniteSet(Cached) /\ IsFiniteSet(S)
    BY Counts, FS_Subset
  <1>2. \A p \in Cached : inode_idx[p] \in Names /\ p \in Names
    BY DEF Shape, Cached, Names
  <1>3. \A p \in Cached : f[p] \in Nat /\ g[p] \in Nat
    BY <1>2, NameFacts
  <1>4. PathSum(S) = Total([x \in S |-> f[x]]) /\ path_size = Total([x \in Cached |-> g[x]])
    <2>1. [x \in S |-> f[x]] = [p \in S |-> Length[inode_idx[p]]]
      OBVIOUS
    <2>2. [x \in Cached |-> g[x]] = [p \in Cached |-> Length[p]]
      OBVIOUS
    <2> QED BY <2>1, <2>2 DEF PathSum, path_size
  <1>5. PathSum(S) \in Nat
    <2>1. Cardinality(Pairs(S, f)) \in Nat
      <3>1. \A x \in S : f[x] \in Nat
        BY <1>3
      <3> HIDE DEF f
      <3> QED BY <1>1, <3>1, PairsFinite
    <2> QED BY <1>4, <2>1, TotalPairs
  <1>6. ASSUME PlainLinks PROVE PathSum(S) <= path_size
    <2>1. \A p \in S : f[p] \in Nat /\ f[p] <= g[p]
      BY <1>3, <1>6 DEF PlainLinks
    <2> HIDE DEF f, g
    <2>2. Total([x \in S |-> f[x]]) <= Total([x \in Cached |-> g[x]])
      BY <1>1, <1>3, <2>1, TotalLess
    <2> QED BY <1>4, <2>2
  <1>7. ASSUME NEW q \in Cached, q \notin S
        PROVE  PathSum(S \cup {q}) = PathSum(S) + Length[inode_idx[q]]
    <2>1. \A x \in S \cup {q} : f[x] \in Nat
      BY <1>3
    <2>2. Total([x \in S \cup {q} |-> f[x]]) = Total([x \in S |-> f[x]]) + f[q]
      <3> HIDE DEF f
      <3> QED BY <1>1, <1>7, <2>1, TotalAdd
    <2>3. [x \in S \cup {q} |-> f[x]] = [p \in S \cup {q} |-> Length[inode_idx[p]]]
      OBVIOUS
    <2> QED BY <1>4, <2>2, <2>3 DEF PathSum
  <1> QED BY <1>5, <1>6, <1>7

\* The lengths of the lists of some names.
LEMMA ListSums ==
  ASSUME Shape, NEW S, S \subseteq Names
  PROVE  /\ ListSum(S) \in Nat /\ ListSum(S) <= num_blocks
         /\ \A n \in Names : n \notin S =>
              ListSum(S \cup {n}) = ListSum(S) + Len(dirty_block[n])
  <1> DEFINE f == [n \in Names |-> Len(dirty_block[n])]
  <1>1. IsFiniteSet(Names) /\ IsFiniteSet(S)
    BY Counts, FS_Subset
  <1>2. \A n \in Names : f[n] \in Nat
    BY NameFacts
  <1>3. ListSum(S) = Total([x \in S |-> f[x]]) /\ num_blocks = Total([x \in Names |-> f[x]])
    <2>1. [x \in S |-> f[x]] = [n \in S |-> Len(dirty_block[n])]
      OBVIOUS
    <2>2. [x \in Names |-> f[x]] = [n \in Names |-> Len(dirty_block[n])]
      OBVIOUS
    <2> QED BY <2>1, <2>2 DEF ListSum, num_blocks
  <1>4. ListSum(S) \in Nat /\ ListSum(S) <= num_blocks
    <2>1. \A n \in S : f[n] \in Nat /\ f[n] <= f[n]
      BY <1>2
    <2> HIDE DEF f
    <2> QED BY <1>1, <1>2, <1>3, <2>1, TotalLess
  <1>5. ASSUME NEW n \in Names, n \notin S
        PROVE  ListSum(S \cup {n}) = ListSum(S) + Len(dirty_block[n])
    <2>1. \A x \in S \cup {n} : f[x] \in Nat
      BY <1>2
    <2>2. Total([x \in S \cup {n} |-> f[x]]) = Total([x \in S |-> f[x]]) + f[n]
      <3> HIDE DEF f
      <3> QED BY <1>1, <1>5, <2>1, TotalAdd
    <2>3. [x \in S \cup {n} |-> f[x]] = [m \in S \cup {n} |-> Len(dirty_block[m])]
      OBVIOUS
    <2> QED BY <1>3, <2>2, <2>3 DEF ListSum
  <1> QED BY <1>4, <1>5

\* The sizes of some dirty blocks.
LEMMA ByteSums ==
  ASSUME Shape, NEW S, S \subseteq DirtyBlocks
  PROVE  /\ ByteSum(S) \in Nat /\ ByteSum(S) <= block_size
         /\ \A x \in DirtyBlocks : x \notin S =>
              ByteSum(S \cup {x}) = ByteSum(S) + dirty_block[x[1]][x[2]]
  <1> DEFINE f == [x \in DirtyBlocks |-> dirty_block[x[1]][x[2]]]
  <1>1. IsFiniteSet(DirtyBlocks) /\ IsFiniteSet(S)
    BY Counts, FS_Subset
  <1>2. \A x \in DirtyBlocks : f[x] \in Nat
    BY DEF DirtyBlocks, Shape
  <1>3. ByteSum(S) = Total([x \in S |-> f[x]]) /\ block_size = Total([x \in DirtyBlocks |-> f[x]])
    <2>1. [x \in S |-> f[x]] = [x \in S |-> dirty_block[x[1]][x[2]]]
      OBVIOUS
    <2>2. [x \in DirtyBlocks |-> f[x]] = [x \in DirtyBlocks |-> dirty_block[x[1]][x[2]]]
      OBVIOUS
    <2> QED BY <2>1, <2>2 DEF ByteSum, block_size
  <1>4. ByteSum(S) \in Nat /\ ByteSum(S) <= block_size
    <2>1. \A x \in S : f[x] \in Nat /\ f[x] <= f[x]
      BY <1>2
    <2> HIDE DEF f
    <2> QED BY <1>1, <1>2, <1>3, <2>1, TotalLess
  <1>5. ASSUME NEW y \in DirtyBlocks, y \notin S
        PROVE  ByteSum(S \cup {y}) = ByteSum(S) + dirty_block[y[1]][y[2]]
    <2>1. \A x \in S \cup {y} : f[x] \in Nat
      BY <1>2
    <2>2. Total([x \in S \cup {y} |-> f[x]]) = Total([x \in S |-> f[x]]) + f[y]
      <3> HIDE DEF f
      <3> QED BY <1>1, <1>5, <2>1, TotalAdd
    <2>3. [x \in S \cup {y} |-> f[x]] = [x \in S \cup {y} |-> dirty_block[x[1]][x[2]]]
      OBVIOUS
    <2> QED BY <1>3, <2>2, <2>3 DEF ByteSum
  <1> QED BY <1>4, <1>5

\* What is stored was counted.
LEMMA StoredCounted ==
  ASSUME TInv, pc \in Late
  PROVE  /\ Shape /\ Finished \subseteq Cached /\ FinishedIds \subseteq Names
         /\ StoredBlocks \subseteq DirtyBlocks /\ (Busy => id \notin FinishedIds)
  <1>1. Shape /\ Stored
    BY DEF TInv
  <1>2. Finished \subseteq Cached /\ FinishedIds \subseteq Names
    BY <1>1 DEF Shape, Finished, FinishedIds, Cached
  <1>3. \A n \in Names : DOMAIN dirty_block[n] = 1..Len(dirty_block[n]) /\ Len(dirty_block[n]) \in Nat
    BY <1>1, NameFacts
  <1>4. pc = "blocks" => id \in Names /\ \A k \in 1..written : k \in 1..Len(dirty_block[id])
    <2> HAVE pc = "blocks"
    <2>1. id \in Names /\ written <= Len(dirty_block[id])
      BY <1>1 DEF Stored, Busy
    <2>2. written \in Int /\ Len(dirty_block[id]) \in Nat
      BY <1>1, <1>3, <2>1, Fields DEF written
    <2> QED BY <2>1, <2>2
  <1>5. StoredBlocks \subseteq DirtyBlocks
    <2> SUFFICES ASSUME NEW x \in StoredBlocks PROVE x \in DirtyBlocks
      OBVIOUS
    <2>1. CASE \E n \in FinishedIds : x \in {n} \X (1..Len(dirty_block[n]))
      <3>1. PICK n \in FinishedIds : x \in {n} \X (1..Len(dirty_block[n]))
        BY <2>1
      <3>2. n \in Names /\ x \in {n} \X DOMAIN dirty_block[n]
        BY <1>2, <1>3, <3>1
      <3> QED BY <3>2 DEF DirtyBlocks
    <2>2. CASE pc = "blocks" /\ x \in {id} \X (1..written)
      <3>1. id \in Names /\ x \in {id} \X DOMAIN dirty_block[id]
        BY <1>3, <1>4, <2>2
      <3> QED BY <3>1 DEF DirtyBlocks
    <2> QED BY <2>1, <2>2 DEF StoredBlocks
  <1>6. Busy => id \notin FinishedIds
    BY DEF FinishedIds, Finished
  <1> QED BY <1>1, <1>2, <1>5, <1>6

\* The path of the next entry fits.
LEMMA AddPathSpent ==
  ASSUME TInv, PlainLinks, pc \in Late, Spent, NEW p \in Paths, add_path(p)
  PROVE  pc' = "inode" /\ Spent'
  <1> DEFINE n == inode_idx[p]
  <1>1. /\ UNCHANGED cache /\ cur' = cur /\ pc = "path" /\ p \in todo
        /\ todo' = todo \ {p} /\ id' = n /\ ~Busy
        /\ pc' = IF Fits(mem.paths, cur.path, Length[n]) THEN "inode" ELSE "overrun"
    BY DEF add_path, Busy
  <1>2. Shape /\ Sized /\ Finished \subseteq Cached
    BY StoredCounted DEF TInv
  <1>3. Finished = Cached \ todo /\ p \in Cached /\ p \notin Finished
    BY <1>1, <1>2 DEF Finished, Shape
  <1>4. Fits(mem.paths, cur.path, Length[n])
    <2>1. PathSum(Finished \cup {p}) = cur.path + Length[n]
      BY <1>2, <1>3, PathSums DEF Spent
    <2>2. PathSum(Finished \cup {p}) <= path_size
      <3>1. Finished \cup {p} \subseteq Cached
        BY <1>2, <1>3
      <3> QED BY <1>2, <3>1, PathSums
    <2>3. Len(mem.paths) = path_size
      BY <1>2 DEF Sized
    <2> QED BY <2>1, <2>2, <2>3 DEF Fits
  <1>5. pc' = "inode"
    BY <1>1, <1>4
  <1>6. Finished' = Finished
    <2>1. \A q \in Cached \ todo : inode_idx[q] # n
      BY <1>1, <1>3 DEF PlainLinks, DistinctIds
    <2>2. Busy'
      BY <1>5 DEF Busy
    <2>3. Finished' = {q \in Cached \ (todo \ {p}) : inode_idx[q] # n}
      BY <1>1, <2>2, SameCounts DEF Finished
    <2> QED BY <1>3, <2>1, <2>3
  <1>7. FinishedIds' = FinishedIds
    BY <1>1, <1>6, SameCounts DEF FinishedIds
  <1>8. StoredBlocks' = StoredBlocks
    BY <1>1, <1>5, <1>7, SameCounts DEF StoredBlocks
  <1> QED BY <1>1, <1>5, <1>6, <1>7, <1>8, SameCounts DEF Spent, PathSum, ListSum, ByteSum

\* A block fits, and so does its block_data.
LEMMA AddBlockSpent ==
  ASSUME TInv, PlainLinks, pc \in Late, Spent, add_block
  PROVE  pc' = "blocks" /\ Spent'
  <1> DEFINE k == written + 1
             size == dirty_block[id][k]
             y == <<id, k>>
  <1>1. /\ UNCHANGED cache /\ todo' = todo /\ id' = id /\ pc = "blocks" /\ Busy
        /\ written < Len(dirty_block[id])
        /\ pc' = IF Fits(mem.bytes, cur.block, size) /\ Fits(mem.bds, cur.bd, 1)
                   THEN "blocks" ELSE "overrun"
        /\ cur' = [cur EXCEPT !.block = @ + size, !.bd = @ + 1]
    BY DEF add_block, Busy
  <1>2. /\ Shape /\ Sized /\ Stored /\ Finished \subseteq Cached /\ FinishedIds \subseteq Names
        /\ StoredBlocks \subseteq DirtyBlocks /\ id \notin FinishedIds
    BY <1>1, StoredCounted DEF TInv
  <1>3. /\ cur.block \in Nat /\ cur.bd \in Nat /\ cur.initial_bd \in Nat /\ cur.path \in Nat
    BY <1>2, Fields
  <1>4. id \in Names /\ written \in Nat /\ k \in 1..Len(dirty_block[id]) /\ Len(dirty_block[id]) \in Nat
    <2>1. id \in Names
      BY <1>1, <1>2 DEF Stored
    <2>2. written \in Nat
      BY <1>2, <1>3 DEF written, Sized
    <2>3. Len(dirty_block[id]) \in Nat
      BY <1>2, <2>1, NameFacts
    <2> QED BY <1>1, <2>1, <2>2, <2>3
  <1>5. size \in Nat
    BY <1>2, <1>4, NameFacts
  <1>6. y \in DirtyBlocks /\ y \notin StoredBlocks
    <2>1. DOMAIN dirty_block[id] = 1..Len(dirty_block[id])
      BY <1>2, <1>4, NameFacts
    <2>2. y \in DirtyBlocks
      BY <1>4, <2>1 DEF DirtyBlocks
    <2>3. k \notin 1..written
      BY <1>4
    <2> QED BY <1>2, <2>2, <2>3 DEF StoredBlocks
  <1>7. ByteSum(StoredBlocks \cup {y}) = cur.block + size
    BY <1>2, <1>6, ByteSums DEF Spent
  <1>8. Fits(mem.bytes, cur.block, size)
    <2>1. StoredBlocks \cup {y} \subseteq DirtyBlocks
      BY <1>2, <1>6
    <2>2. ByteSum(StoredBlocks \cup {y}) <= block_size
      BY <1>2, <2>1, ByteSums
    <2> QED BY <1>2, <1>7, <2>2 DEF Fits, Sized
  <1>9. Fits(mem.bds, cur.bd, 1)
    <2>1. ListSum(FinishedIds \cup {id}) = cur.initial_bd + Len(dirty_block[id])
      BY <1>2, <1>4, ListSums DEF Spent
    <2>2. ListSum(FinishedIds \cup {id}) <= num_blocks
      <3>1. FinishedIds \cup {id} \subseteq Names
        BY <1>2, <1>4
      <3> QED BY <1>2, <3>1, ListSums
    <2>3. cur.bd = cur.initial_bd + written /\ Len(mem.bds) = num_blocks /\ num_blocks \in Nat
      BY <1>2, <1>3, Counts DEF written, Sized
    <2> QED BY <1>1, <1>3, <1>4, <2>1, <2>2, <2>3 DEF Fits
  <1>10. pc' = "blocks"
    BY <1>1, <1>8, <1>9
  <1>11. Finished' = Finished /\ FinishedIds' = FinishedIds
    <2>1. Busy'
      BY <1>10 DEF Busy
    <2>2. Finished' = Finished
      BY <1>1, <2>1, SameCounts DEF Finished
    <2> QED BY <1>1, <2>2, SameCounts DEF FinishedIds
  <1> HIDE DEF size
  <1>12. /\ cur'.path = cur.path /\ cur'.initial_bd = cur.initial_bd
         /\ cur'.block = cur.block + size /\ cur'.bd = cur.bd + 1
    BY <1>1, <1>2 DEF Shape
  <1>13. StoredBlocks' = StoredBlocks \cup {y}
    <2>1. written' = k
      BY <1>3, <1>12 DEF written
    <2> HIDE DEF k
    <2>2. 1..k = (1..written) \cup {k}
      BY <1>4 DEF k
    <2>3. {id} \X (1..k) = ({id} \X (1..written)) \cup {y}
      BY <2>2
    <2> QED BY <1>1, <1>10, <1>11, <2>1, <2>3, SameCounts DEF StoredBlocks
  <1>14. Spent'
    <2> HIDE DEF y
    <2> QED BY <1>1, <1>7, <1>11, <1>12, <1>13, SameCounts DEF Spent, PathSum, ListSum, ByteSum
  <1> QED BY <1>10, <1>14

\* The entry is behind the cursors.
LEMMA AddBlockListSpent ==
  ASSUME TInv, PlainLinks, pc \in Late, Spent, add_block_list
  PROVE  Spent'
  <1>1. /\ UNCHANGED cache /\ todo' = todo /\ id' = id /\ pc = "blocks" /\ pc' = "insert"
        /\ Busy /\ ~Busy' /\ written = Len(dirty_block[id])
        /\ cur' = [cur EXCEPT !.inode = @ + 1, !.path = @ + Length[id], !.initial_bd = cur.bd]
    BY DEF add_block_list, Busy
  <1>2. /\ Shape /\ Sized /\ Counted /\ Stored /\ Finished \subseteq Cached
        /\ FinishedIds \subseteq Names /\ id \notin FinishedIds
    BY <1>1, StoredCounted DEF TInv
  <1>3. id \in Names
    BY <1>1, <1>2 DEF Stored
  <1>4. PICK q \in Cached \ todo : inode_idx[q] = id
    BY <1>1, <1>2 DEF Counted
  <1>5. q \notin Finished /\ Finished' = Finished \cup {q}
    <2>1. \A x \in Cached : inode_idx[x] = id => x = q
      BY <1>4 DEF PlainLinks, DistinctIds
    <2>2. Finished = {x \in Cached \ todo : inode_idx[x] # id}
      BY <1>1 DEF Finished
    <2>3. Finished' = Cached \ todo
      BY <1>1, SameCounts DEF Finished
    <2> QED BY <1>4, <2>1, <2>2, <2>3
  <1>6. FinishedIds' = FinishedIds \cup {id}
    <2>1. FinishedIds' = {inode_idx[p] : p \in Finished \cup {q}}
      BY <1>1, <1>5, SameCounts DEF FinishedIds
    <2> QED BY <1>4, <2>1 DEF FinishedIds
  <1>7. StoredBlocks' = StoredBlocks
    <2>1. StoredBlocks' = UNION {{n} \X (1..Len(dirty_block[n])) : n \in FinishedIds \cup {id}}
      BY <1>1, <1>6, SameCounts DEF StoredBlocks
    <2>2. StoredBlocks = (UNION {{n} \X (1..Len(dirty_block[n])) : n \in FinishedIds})
                           \cup ({id} \X (1..Len(dirty_block[id])))
      BY <1>1 DEF StoredBlocks
    <2> QED BY <2>1, <2>2
  <1>8. /\ cur'.path = cur.path + Length[id] /\ cur'.initial_bd = cur.bd
        /\ cur'.block = cur.block
    BY <1>1, <1>2 DEF Shape
  <1>9. PathSum(Finished \cup {q}) = cur.path + Length[id]
    <2>1. PathSum(Finished \cup {q}) = PathSum(Finished) + Length[inode_idx[q]]
      BY <1>2, <1>4, <1>5, PathSums
    <2> QED BY <1>4, <2>1 DEF Spent
  <1>10. ListSum(FinishedIds \cup {id}) = cur.bd
    <2>1. ListSum(FinishedIds \cup {id}) = cur.initial_bd + Len(dirty_block[id])
      BY <1>2, <1>3, ListSums DEF Spent
    <2>2. cur.initial_bd + written = cur.bd
      BY <1>2, Fields DEF written
    <2> QED BY <1>1, <2>1, <2>2
  <1>11. cur'.path = PathSum(Finished)'
    BY <1>1, <1>5, <1>8, <1>9, SameCounts DEF PathSum
  <1>12. cur'.initial_bd = ListSum(FinishedIds)'
    BY <1>1, <1>6, <1>8, <1>10, SameCounts DEF ListSum
  <1>13. cur'.block = ByteSum(StoredBlocks)'
    BY <1>1, <1>7, <1>8, SameCounts DEF Spent, ByteSum
  <1> QED BY <1>11, <1>12, <1>13 DEF Spent

\* The steps that spend nothing.
LEMMA QuietSpent ==
  ASSUME Spent, UNCHANGED cache, UNCHANGED todo,
         cur'.path = cur.path, cur'.initial_bd = cur.initial_bd, cur'.block = cur.block,
         Finished' = Finished, StoredBlocks' = StoredBlocks
  PROVE  Spent'
  <1>1. FinishedIds' = FinishedIds
    BY SameCounts DEF FinishedIds
  <1> QED BY <1>1, SameCounts DEF Spent, PathSum, ListSum, ByteSum

\* Nothing is spent when the regions are allocated.
LEMMA RegionsSpent ==
  ASSUME TInv, allocate_regions
  PROVE  Spent'
  <1>1. /\ UNCHANGED cache /\ todo' = todo /\ cur' = cur /\ pc = "regions" /\ pc' = "path"
    BY DEF allocate_regions
  <1>2. Clean
    BY <1>1 DEF TInv, Early
  <1>3. Finished' = {} /\ FinishedIds' = {}
    BY <1>1, <1>2, SameCounts DEF Clean, Finished, FinishedIds
  <1>4. StoredBlocks' = {}
    BY <1>1, <1>3 DEF StoredBlocks
  <1>5. cur'.path = 0 /\ cur'.initial_bd = 0 /\ cur'.block = 0
    BY <1>1, <1>2 DEF Clean
  <1>6. PathSum(Finished)' = 0
    <2> DEFINE f == [p \in {} |-> Length[inode_idx'[p]]]
    <2>1. Total([p \in {} |-> f[p]]) = 0
      BY TotalNone
    <2>2. [p \in {} |-> f[p]] = [p \in {} |-> Length[inode_idx'[p]]]
      OBVIOUS
    <2> QED BY <1>3, <2>1, <2>2 DEF PathSum
  <1>7. ListSum(FinishedIds)' = 0
    <2> DEFINE f == [n \in {} |-> Len(dirty_block'[n])]
    <2>1. Total([n \in {} |-> f[n]]) = 0
      BY TotalNone
    <2>2. [n \in {} |-> f[n]] = [n \in {} |-> Len(dirty_block'[n])]
      OBVIOUS
    <2> QED BY <1>3, <2>1, <2>2 DEF ListSum
  <1>8. ByteSum(StoredBlocks)' = 0
    <2> DEFINE f == [x \in {} |-> dirty_block'[x[1]][x[2]]]
    <2>1. Total([x \in {} |-> f[x]]) = 0
      BY TotalNone
    <2>2. [x \in {} |-> f[x]] = [x \in {} |-> dirty_block'[x[1]][x[2]]]
      OBVIOUS
    <2> QED BY <1>4, <2>1, <2>2 DEF ByteSum
  <1> QED BY <1>5, <1>6, <1>7, <1>8 DEF Spent

\* What is spent stays within what was counted.
LEMMA NextAInv == TInv /\ AInv /\ [Next]_vars => AInv'
  <1> SUFFICES ASSUME TInv, AInv, [Next]_vars, PlainLinks' PROVE pc' # "overrun" /\ (pc' \in Late => Spent')
    BY DEF AInv
  <1>1. UNCHANGED cache
    BY DEF Next, vars, cache, open_file, truncate_file, set_num_inodes, set_root, set_leaf,
           allocate_regions, add_path, add_fields, add_block, add_block_list, insert_begins,
           insert_returns, end
  <1>2. PlainLinks
    BY <1>1, SameCounts DEF PlainLinks, DistinctIds
  <1>3. pc # "overrun" /\ (pc \in Late => Spent)
    BY <1>2 DEF AInv
  <1>4. CASE open_file \/ truncate_file \/ set_num_inodes \/ set_root \/ set_leaf
    BY <1>4 DEF open_file, truncate_file, set_num_inodes, set_root, set_leaf, Late
  <1>5. CASE allocate_regions
    BY <1>5, RegionsSpent DEF allocate_regions
  <1>6. CASE \E p \in Paths : add_path(p)
    <2>1. PICK p \in Paths : add_path(p)
      BY <1>6
    <2>2. pc \in Late
      BY <2>1 DEF add_path, Late
    <2> QED BY <1>2, <1>3, <2>1, <2>2, AddPathSpent
  <1>7. CASE add_fields
    <2>1. /\ pc = "inode" /\ pc' = "blocks" /\ todo' = todo /\ id' = id /\ cur' = cur /\ pc \in Late
      BY <1>7 DEF add_fields, Late
    <2>2. Finished' = Finished
      BY <1>1, <2>1, SameCounts DEF Finished, Busy
    <2>3. StoredBlocks' = StoredBlocks
      <3>1. written' = 0
        <4>1. cur.bd = cur.initial_bd /\ cur.bd \in Nat
          BY <2>1, Fields DEF TInv, Stored
        <4> QED BY <2>1, <4>1 DEF written
      <3>2. {id} \X (1..0) = {}
        OBVIOUS
      <3>3. FinishedIds' = FinishedIds
        BY <1>1, <2>2, SameCounts DEF FinishedIds
      <3> QED BY <1>1, <2>1, <3>1, <3>2, <3>3, SameCounts DEF StoredBlocks
    <2> QED BY <1>1, <1>3, <2>1, <2>2, <2>3, QuietSpent
  <1>8. CASE add_block
    <2>1. pc \in Late
      BY <1>8 DEF add_block, Late
    <2> QED BY <1>2, <1>3, <1>8, <2>1, AddBlockSpent
  <1>9. CASE add_block_list
    <2>1. pc \in Late /\ pc' = "insert"
      BY <1>9 DEF add_block_list, Late
    <2> QED BY <1>2, <1>3, <1>9, <2>1, AddBlockListSpent
  <1>10. CASE insert_begins \/ insert_returns \/ end
    <2>1. /\ pc \in Late /\ pc' \in Late /\ ~Busy /\ ~Busy' /\ pc' # "blocks" /\ pc # "blocks"
          /\ todo' = todo /\ cur' = cur /\ pc' # "overrun"
      BY <1>10 DEF insert_begins, insert_returns, end, Late, Busy
    <2>2. Finished' = Finished
      BY <1>1, <2>1, SameCounts DEF Finished
    <2>3. StoredBlocks' = StoredBlocks
      BY <1>1, <2>1, <2>2, SameCounts DEF StoredBlocks, FinishedIds
    <2> QED BY <1>1, <1>3, <2>1, <2>2, <2>3, QuietSpent
  <1>11. CASE UNCHANGED vars
    <2>1. pc' = pc /\ todo' = todo /\ id' = id /\ cur' = cur
      BY <1>11 DEF vars
    <2>2. Finished' = Finished
      BY <1>1, <2>1, SameCounts DEF Finished, Busy
    <2>3. StoredBlocks' = StoredBlocks
      BY <1>1, <2>1, <2>2, SameCounts DEF StoredBlocks, FinishedIds, written
    <2> QED BY <1>1, <1>3, <2>1, <2>2, <2>3, QuietSpent
  <1> QED BY <1>4, <1>5, <1>6, <1>7, <1>8, <1>9, <1>10, <1>11 DEF Next

\* No store of a flush goes behind the end of its region, whatever is cached,
\* as long as no link is longer than its path and no two entries share a name.
THEOREM RegionsAlwaysHold == Spec => []RegionsHold
  <1>1. Init => AInv
    BY DEF Init, AInv, Late
  <1>2. AInv => RegionsHold
    BY DEF AInv, RegionsHold, overrun
  <1> QED BY <1>1, <1>2, TInvHolds, NextAInv, PTL DEF Spec
=============================================================================
