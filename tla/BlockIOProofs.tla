---------------------------- MODULE BlockIOProofs ----------------------------
(***************************************************************************)
(* The bytes of a file, for every block size, every set of buffers and     *)
(* every length: the loop of BlockCache::write uses up its buffer whatever *)
(* the request, and as long as every request was one the code handles, a   *)
(* read stays inside the blocks and returns what was written last.         *)
(***************************************************************************)
EXTENDS BlockIO, FiniteSetTheorems, WellFoundedInduction, TLAPS

\* Every non-empty set of naturals has a least element.
LEMMA Least ==
  ASSUME NEW T, T \subseteq Nat, T # {}
  PROVE  \E x \in T : \A y \in T : x <= y
  <1> DEFINE R == OpToRel(<, Nat)
  <1>1. IsWellFoundedOn(R, Nat)
    BY NatLessThanWellFounded
  <1>2. \A x, y \in Nat : <<y, x>> \in R <=> y < x
    BY DEF OpToRel
  <1> HIDE DEF R
  <1>3. PICK x \in T : \A y \in T : ~(<<y, x>> \in R)
    BY <1>1, WFMin
  <1>4. x \in Nat /\ \A y \in T : y \in Nat
    BY <1>3
  <1>5. \A y \in T : ~(y < x)
    BY <1>2, <1>3, <1>4
  <1> QED BY <1>3, <1>4, <1>5

\* Every non-empty finite stretch of naturals has a greatest element.
LEMMA Greatest ==
  ASSUME NEW n \in Nat, NEW T, T \subseteq 1..n, T # {}
  PROVE  \E x \in T : \A y \in T : y <= x
  <1> DEFINE U == {n - i : i \in T}
  <1>0. \A i \in T : i \in Nat /\ i <= n /\ n - i \in Nat
    OBVIOUS
  <1>1. U \subseteq Nat /\ U # {}
    BY <1>0
  <1>2. PICK u \in U : \A v \in U : u <= v
    BY <1>1, Least
  <1>3. PICK x \in T : u = n - x
    BY <1>2
  <1>4. ASSUME NEW y \in T PROVE y <= x
    <2>1. n - y \in U
      OBVIOUS
    <2>2. u <= n - y
      BY <1>2, <2>1
    <2>3. x \in 1..n /\ y \in 1..n
      BY <1>3, <1>4
    <2> QED BY <1>3, <2>2, <2>3
  <1> QED BY <1>3, <1>4

-----------------------------------------------------------------------------
(* Blocks and the bytes in them.                                           *)

\* The bounds are numbers.
LEMMA SizeNat == SIZE \in Nat /\ SIZE > 0 /\ MaxLen \in Nat
  BY BlockIOAssumption

\* A byte address is a block and a place in it.
LEMMA DivMod ==
  ASSUME NEW a \in Nat
  PROVE  /\ a \div SIZE \in Nat /\ a % SIZE \in Nat
         /\ a = (a \div SIZE) * SIZE + (a % SIZE)
         /\ a % SIZE < SIZE
  BY SizeNat, Z3

\* Blocks do not overlap.
LEMMA Times ==
  ASSUME NEW p \in Nat, NEW q \in Nat
  PROVE  /\ p * SIZE \in Nat /\ q * SIZE \in Nat
         /\ p < q => p * SIZE + SIZE <= q * SIZE
         /\ p <= q => p * SIZE <= q * SIZE
         /\ (p + 1) * SIZE = p * SIZE + SIZE
  <1>1. p * SIZE \in Nat /\ q * SIZE \in Nat /\ (p + 1) * SIZE = p * SIZE + SIZE
    BY SizeNat
  <1>2. ASSUME p < q PROVE p * SIZE + SIZE <= q * SIZE
    <2>1. q - p - 1 \in Nat /\ (q - p - 1) * SIZE >= 0
      BY <1>2, SizeNat
    <2>2. (q - p - 1) * SIZE = q * SIZE - p * SIZE - SIZE
      BY SizeNat
    <2> QED BY <1>1, <2>1, <2>2, SizeNat
  <1>3. p <= q => p < q \/ p = q
    OBVIOUS
  <1> QED BY <1>1, <1>2, <1>3, SizeNat

\* The block and the place of an address are determined by it.
LEMMA DivModUnique ==
  ASSUME NEW q \in Nat, NEW r \in Nat, r < SIZE
  PROVE  /\ q * SIZE + r \in Nat
         /\ (q * SIZE + r) \div SIZE = q
         /\ (q * SIZE + r) % SIZE = r
  <1> DEFINE a == q * SIZE + r
             d == a \div SIZE
             x == a % SIZE
  <1>1. q * SIZE \in Nat /\ a \in Nat /\ a = q * SIZE + r
    BY Times
  <1> HIDE DEF a
  <1>2. d \in Nat /\ x \in Nat /\ a = d * SIZE + x /\ x < SIZE
    BY <1>1, DivMod
  <1> HIDE DEF d, x
  <1>3. /\ d * SIZE \in Nat
        /\ d < q => d * SIZE + SIZE <= q * SIZE
        /\ q < d => q * SIZE + SIZE <= d * SIZE
    BY <1>2, Times
  <1>4. d = q
    BY <1>1, <1>2, <1>3, SizeNat
  <1>5. x = r
    BY <1>1, <1>2, <1>3, <1>4
  <1> QED BY <1>1, <1>4, <1>5 DEF a, d, x

\* ulong_ceil counts the blocks that start below an address.
LEMMA CeilFacts ==
  ASSUME NEW a \in Nat
  PROVE  /\ ulong_ceil(a, SIZE) \in Nat
         /\ \A k \in Nat : k < ulong_ceil(a, SIZE) <=> k * SIZE < a
  <1> DEFINE d == a \div SIZE
             x == a % SIZE
             n == ulong_ceil(a, SIZE)
  <1>1. d \in Nat /\ x \in Nat /\ a = d * SIZE + x /\ x < SIZE
    BY DivMod
  <1>2. n = IF x = 0 THEN d ELSE d + 1
    BY DEF ulong_ceil
  <1> HIDE DEF d, x, n
  <1>3. ASSUME NEW k \in Nat PROVE k < n <=> k * SIZE < a
    <2>1. /\ k * SIZE \in Nat /\ d * SIZE \in Nat
          /\ k < d => k * SIZE + SIZE <= d * SIZE
          /\ d < k => d * SIZE + SIZE <= k * SIZE
      BY <1>1, Times
    <2> QED BY <1>1, <1>2, <2>1, SizeNat
  <1> QED BY <1>1, <1>2, <1>3 DEF n

\* The blocks of a file that is not longer than MaxLen have an index.
LEMMA IdxFacts ==
  /\ Idx \subseteq Nat
  /\ \A k \in Nat : k \in Idx <=> k * SIZE < MaxLen
  /\ \A j \in Nat, k \in Idx : j <= k => j \in Idx
  /\ \A i \in Nat : i < MaxLen => i \div SIZE \in Idx
  <1> DEFINE n == ulong_ceil(MaxLen, SIZE)
  <1>1. n \in Nat /\ \A k \in Nat : k < n <=> k * SIZE < MaxLen
    BY SizeNat, CeilFacts
  <1>2. Idx = 0..(n - 1)
    BY DEF Idx
  <1> HIDE DEF n
  <1>3. Idx \subseteq Nat /\ \A k \in Nat : k \in Idx <=> k < n
    BY <1>1, <1>2
  <1>4. ASSUME NEW i \in Nat, i < MaxLen PROVE i \div SIZE \in Idx
    <2> DEFINE d == i \div SIZE
    <2>1. d \in Nat /\ i % SIZE \in Nat /\ i = d * SIZE + (i % SIZE)
      BY DivMod
    <2> HIDE DEF d
    <2>2. d * SIZE \in Nat
      BY <2>1, Times
    <2>3. d * SIZE < MaxLen
      BY <1>4, <2>1, <2>2, SizeNat
    <2> QED BY <1>1, <1>3, <2>1, <2>3 DEF d
  <1> QED BY <1>1, <1>3, <1>4

\* g[i] is the first i sequences put together: the recursion of FlattenSeq.
Joins(g, seqs) ==
  g = [i \in 1..Len(seqs) |-> IF i = 1 THEN seqs[i] ELSE g[i - 1] \o seqs[i]]

\* Two solutions of the recursion of FlattenSeq are one.
LEMMA Flatten ==
  ASSUME NEW S, NEW n \in Nat \ {0}, NEW seqs \in Seq(Seq(S)), Len(seqs) = n,
         NEW g, Joins(g, seqs)
  PROVE  FlattenSeq(seqs) = g[n]
  <1> DEFINE Eq(f) == f = [i \in 1..Len(seqs) |-> IF i = 1 THEN seqs[i] ELSE f[i - 1] \o seqs[i]]
             h == CHOOSE f : Eq(f)
             T == {i \in 1..n : h[i] # g[i]}
  <1>1. FlattenSeq(seqs) = h[Len(seqs)]
    BY DEF FlattenSeq
  <1>2. Eq(h)
    <2>1. Eq(g)
      BY DEF Joins
    <2> QED BY <2>1
  <1>3. \A i \in 1..n : /\ h[i] = IF i = 1 THEN seqs[i] ELSE h[i - 1] \o seqs[i]
                        /\ g[i] = IF i = 1 THEN seqs[i] ELSE g[i - 1] \o seqs[i]
    <2> HIDE DEF h
    <2>1. h = [i \in 1..n |-> IF i = 1 THEN seqs[i] ELSE h[i - 1] \o seqs[i]]
      BY <1>2
    <2> QED BY <2>1 DEF Joins
  <1> HIDE DEF h
  <1>4. T = {}
    <2> SUFFICES ASSUME T # {} PROVE FALSE
      OBVIOUS
    <2>1. T \subseteq Nat
      OBVIOUS
    <2>2. PICK x \in T : \A y \in T : x <= y
      BY <2>1, Least
    <2>3. x \in 1..n /\ h[x] # g[x]
      OBVIOUS
    <2> HIDE DEF T
    <2>0. x # 1
      <3>1. 1 \in 1..n => h[1] = seqs[1] /\ g[1] = seqs[1]
        BY <1>3
      <3> QED BY <2>3, <3>1
    <2>4. x \in Nat /\ n \in Nat /\ 1 <= x /\ x <= n /\ x # 1
      BY <2>0, <2>3
    <2>5. x - 1 \in 1..n /\ ~(x <= x - 1)
      BY <2>4
    <2>6. h[x - 1] = g[x - 1]
      BY <2>2, <2>5 DEF T
    <2>7. h[x] = h[x - 1] \o seqs[x] /\ g[x] = g[x - 1] \o seqs[x]
      BY <1>3, <2>3, <2>4
    <2> QED BY <2>3, <2>6, <2>7
  <1>5. n \in 1..n
    OBVIOUS
  <1> QED BY <1>1, <1>4, <1>5
-----------------------------------------------------------------------------
(* Block objects.                                                          *)

\* insert_data makes a Block of a Block.
LEMMA InsertType ==
  ASSUME NEW blk \in Block, NEW data \in Seq(Bytes), NEW n \in Nat, n <= Len(data),
         NEW offset \in Nat
  PROVE  insert_data(blk, data, n, offset) \in Block
  <1> DEFINE bytes == [i \in 0..(SIZE - 1) |->
               IF i >= offset /\ i - offset < n THEN data[i - offset + 1] ELSE blk.data[i]]
             m == IF n + offset > blk.actual_size THEN n + offset ELSE blk.actual_size
  <1>1. blk.data \in [0..(SIZE - 1) -> Bytes] /\ blk.actual_size \in Nat
    BY DEF Block
  <1>2. ASSUME NEW i \in 0..(SIZE - 1), i >= offset, i - offset < n
        PROVE  data[i - offset + 1] \in Bytes
    <2>1. Len(data) \in Nat /\ i \in Int
      BY SizeNat
    <2>2. i - offset + 1 \in 1..Len(data)
      BY <1>2, <2>1
    <2> QED BY <2>2
  <1>3. bytes \in [0..(SIZE - 1) -> Bytes]
    BY <1>1, <1>2
  <1>4. m \in Nat
    BY <1>1
  <1>5. insert_data(blk, data, n, offset) = [data |-> bytes, actual_size |-> m]
    BY DEF insert_data
  <1> HIDE DEF bytes, m
  <1> QED BY <1>3, <1>4, <1>5 DEF Block

\* A new block is one.
LEMMA EmptyType == EmptyBlock \in Block
  BY DEF EmptyBlock, Block, Bytes

\* get_data is a sequence of bytes.
LEMMA GetDataType ==
  ASSUME NEW blk \in Block
  PROVE  get_data(blk) \in Seq(Bytes) /\ Len(get_data(blk)) = blk.actual_size
  <1> DEFINE n == blk.actual_size
  <1>1. n \in Nat /\ blk.data \in [0..(SIZE - 1) -> Bytes]
    BY DEF Block
  <1>2. get_data(blk) = [i \in 1..n |-> IF i <= SIZE THEN blk.data[i - 1] ELSE Junk]
    BY DEF get_data
  <1> HIDE DEF n
  <1>3. \A i \in 1..n : (IF i <= SIZE THEN blk.data[i - 1] ELSE Junk) \in Bytes
    BY <1>1, SizeNat DEF Bytes
  <1> QED BY <1>1, <1>2, <1>3 DEF n

\* What is on disk of a file: the bytes of every block, and the length.
DiskInode == [blocks : [Idx -> Seq(Bytes) \cup {Nil}], size : Nat]

\* What load_from_disk makes is an inode.
LEMMA LoadedInodeType ==
  ASSUME NEW d \in DiskInode
  PROVE  LoadedInode(d) \in Inode
  <1>1. d.blocks \in [Idx -> Seq(Bytes) \cup {Nil}] /\ d.size \in Nat
    BY DEF DiskInode
  <1>2. ASSUME NEW k \in Idx, d.blocks[k] # Nil
        PROVE  insert_data(EmptyBlock, d.blocks[k], Len(d.blocks[k]), 0) \in Block
    <2>1. d.blocks[k] \in Seq(Bytes)
      BY <1>1, <1>2
    <2> QED BY <2>1, EmptyType, InsertType
  <1> QED BY <1>1, <1>2 DEF LoadedInode, Inode

-----------------------------------------------------------------------------
(* What is on disk, and what a load finds of it.                           *)

Tree == [{Id} -> Version \cup {Nil}]

\* The last element.
Newest(S) == CHOOSE x \in S : \A y \in S : y <= x

\* The trees that have the file, and the ones with a version of block k.
WithFile(ts) == {i \in DOMAIN ts : ts[i][Id] # Nil}

WithBlock(ts, k) == {i \in DOMAIN ts : ts[i][Id] # Nil /\ ts[i][Id].blocks[k] # Nil}

\* The last version of every block, and of the length.
DiskOf(ts) ==
  [blocks |-> [k \in Idx |-> IF WithBlock(ts, k) = {} THEN Nil
                             ELSE ts[Newest(WithBlock(ts, k))][Id].blocks[k].data],
   size |-> IF WithFile(ts) = {} THEN 0 ELSE ts[Newest(WithFile(ts))][Id].size]

disk == DiskOf(trees)

\* A version is as new as its tree.
Stamped(ts) ==
  \A i \in DOMAIN ts : ts[i][Id] # Nil =>
    /\ ts[i][Id].mtime = i
    /\ \A k \in Idx : ts[i][Id].blocks[k] # Nil => ts[i][Id].blocks[k].mtime = i

\* The loop meets trees that exist, each once, and all of the ones that were
\* there when it was set up.
Visits(v, ts) ==
  /\ v \in Seq(Nat) /\ Len(v) \in Nat /\ Len(v) <= Len(ts)
  /\ \A i \in 1..Len(v) : v[i] \in 1..Len(v)
  /\ \A i, j \in 1..Len(v) : v[i] = v[j] => i = j
  /\ \A m \in 1..Len(v) : \E i \in 1..Len(v) : v[i] = m

\* Only one element is the last.
LEMMA NewestIs ==
  ASSUME NEW S, S \subseteq Nat, NEW x \in S, \A y \in S : y <= x
  PROVE  Newest(S) = x
  <1>1. Newest(S) \in S /\ \A y \in S : y <= Newest(S)
    BY DEF Newest
  <1>2. Newest(S) <= x /\ x <= Newest(S) /\ Newest(S) \in Nat /\ x \in Nat
    BY <1>1
  <1> QED BY <1>2

\* Among some of the first n places there is a last one.
LEMMA NewestIn ==
  ASSUME NEW n \in Nat, NEW T, T \subseteq 1..n, T # {}
  PROVE  Newest(T) \in T /\ \A y \in T : y <= Newest(T)
  BY Greatest DEF Newest

\* The parts of a tree.
LEMMA TreeFacts ==
  ASSUME NEW ts \in Seq(Tree), NEW i \in DOMAIN ts
  PROVE  /\ ts[i][Id] \in Version \cup {Nil}
         /\ ts[i][Id] # Nil =>
              /\ ts[i][Id].mtime \in Nat /\ ts[i][Id].size \in Nat
              /\ \A k \in Idx : /\ ts[i][Id].blocks[k] # Nil => ts[i][Id].blocks[k].data \in Seq(Bytes)
                                /\ ts[i][Id].blocks[k] # Nil => ts[i][Id].blocks[k].mtime \in Nat
  <1>1. ts[i] \in Tree
    OBVIOUS
  <1>2. ts[i][Id] \in Version \cup {Nil}
    BY <1>1 DEF Tree
  <1> QED BY <1>2 DEF Version

\* What is on disk is well-formed.
LEMMA DiskType ==
  ASSUME NEW ts \in Seq(Tree)
  PROVE  DiskOf(ts) \in DiskInode
  <1> DEFINE n == Len(ts)
  <1>1. n \in Nat /\ DOMAIN ts = 1..n
    OBVIOUS
  <1>2. WithFile(ts) \subseteq 1..n /\ \A k : WithBlock(ts, k) \subseteq 1..n
    BY <1>1 DEF WithFile, WithBlock
  <1> HIDE DEF n
  <1>3. ASSUME NEW k \in Idx, WithBlock(ts, k) # {}
        PROVE  ts[Newest(WithBlock(ts, k))][Id].blocks[k].data \in Seq(Bytes)
    <2> DEFINE l == Newest(WithBlock(ts, k))
    <2>1. l \in WithBlock(ts, k)
      BY <1>1, <1>2, <1>3, NewestIn
    <2> HIDE DEF l
    <2>2. l \in DOMAIN ts /\ ts[l][Id] # Nil /\ ts[l][Id].blocks[k] # Nil
      BY <2>1 DEF WithBlock
    <2>3. ts[l][Id].blocks[k].data \in Seq(Bytes)
      BY <2>2, TreeFacts
    <2> QED BY <2>3 DEF l
  <1>4. ASSUME WithFile(ts) # {} PROVE ts[Newest(WithFile(ts))][Id].size \in Nat
    <2> DEFINE l == Newest(WithFile(ts))
    <2>1. l \in WithFile(ts)
      BY <1>1, <1>2, <1>4, NewestIn
    <2> HIDE DEF l
    <2>2. l \in DOMAIN ts /\ ts[l][Id] # Nil
      BY <2>1 DEF WithFile
    <2>3. ts[l][Id].size \in Nat
      BY <2>2, TreeFacts
    <2> QED BY <2>3 DEF l
  <1> QED BY <1>3, <1>4 DEF DiskOf, DiskInode

\* What one more tree changes.
LEMMA DiskAppend ==
  ASSUME NEW ts \in Seq(Tree), NEW t \in Tree
  PROVE  /\ Append(ts, t) \in Seq(Tree)
         /\ t[Id] = Nil => DiskOf(Append(ts, t)) = DiskOf(ts)
         /\ t[Id] # Nil =>
              /\ DiskOf(Append(ts, t)).size = t[Id].size
              /\ \A k \in Idx : DiskOf(Append(ts, t)).blocks[k] =
                   IF t[Id].blocks[k] # Nil THEN t[Id].blocks[k].data ELSE DiskOf(ts).blocks[k]
  <1> DEFINE n == Len(ts)
             us == Append(ts, t)
  <1>1. /\ n \in Nat /\ DOMAIN ts = 1..n /\ DOMAIN us = 1..(n + 1)
        /\ us \in Seq(Tree) /\ us[n + 1] = t /\ \A i \in 1..n : us[i] = ts[i]
    OBVIOUS
  <1> HIDE DEF n, us
  <1>2. /\ WithFile(ts) \subseteq 1..n /\ WithFile(us) \subseteq 1..(n + 1)
        /\ \A k : WithBlock(ts, k) \subseteq 1..n /\ WithBlock(us, k) \subseteq 1..(n + 1)
    BY <1>1 DEF WithFile, WithBlock
  <1>3. \A i : i \in 1..(n + 1) <=> i \in 1..n \/ i = n + 1
    BY <1>1
  <1>4. /\ t[Id] = Nil => WithFile(us) = WithFile(ts)
        /\ t[Id] # Nil => n + 1 \in WithFile(us)
    BY <1>1, <1>3 DEF WithFile
  <1>5. ASSUME NEW k
        PROVE  /\ (t[Id] = Nil \/ t[Id].blocks[k] = Nil) => WithBlock(us, k) = WithBlock(ts, k)
               /\ (t[Id] # Nil /\ t[Id].blocks[k] # Nil) => n + 1 \in WithBlock(us, k)
    BY <1>1, <1>3 DEF WithBlock
  <1>6. \A i \in 1..(n + 1) : i \in Nat /\ i <= n + 1
    BY <1>1
  <1>7. t[Id] # Nil => Newest(WithFile(us)) = n + 1
    <2>1. WithFile(us) \subseteq Nat /\ \A y \in WithFile(us) : y <= n + 1
      BY <1>2, <1>6
    <2> QED BY <1>4, <2>1, NewestIs
  <1>8. ASSUME NEW k, t[Id] # Nil, t[Id].blocks[k] # Nil PROVE Newest(WithBlock(us, k)) = n + 1
    <2>1. WithBlock(us, k) \subseteq Nat /\ \A y \in WithBlock(us, k) : y <= n + 1
      BY <1>2, <1>6
    <2> QED BY <1>5, <1>8, <2>1, NewestIs
  <1>9. ASSUME NEW k \in Idx
        PROVE  DiskOf(us).blocks[k] = IF t[Id] # Nil /\ t[Id].blocks[k] # Nil
                                        THEN t[Id].blocks[k].data ELSE DiskOf(ts).blocks[k]
    <2>1. DiskOf(us).blocks[k] = IF WithBlock(us, k) = {} THEN Nil
                                 ELSE us[Newest(WithBlock(us, k))][Id].blocks[k].data
      BY DEF DiskOf
    <2>2. DiskOf(ts).blocks[k] = IF WithBlock(ts, k) = {} THEN Nil
                                 ELSE ts[Newest(WithBlock(ts, k))][Id].blocks[k].data
      BY DEF DiskOf
    <2>3. CASE t[Id] # Nil /\ t[Id].blocks[k] # Nil
      <3>1. WithBlock(us, k) # {} /\ Newest(WithBlock(us, k)) = n + 1
        BY <1>5, <1>8, <2>3
      <3> QED BY <1>1, <2>1, <2>3, <3>1
    <2>4. CASE ~(t[Id] # Nil /\ t[Id].blocks[k] # Nil)
      <3>1. WithBlock(us, k) = WithBlock(ts, k)
        BY <1>5, <2>4
      <3>2. WithBlock(ts, k) # {} => Newest(WithBlock(ts, k)) \in 1..n
        BY <1>1, <1>2, NewestIn
      <3> QED BY <1>1, <2>1, <2>2, <2>4, <3>1, <3>2
    <2> QED BY <2>3, <2>4
  <1>10. /\ t[Id] # Nil => DiskOf(us).size = t[Id].size
         /\ t[Id] = Nil => DiskOf(us).size = DiskOf(ts).size
    <2>1. /\ DiskOf(us).size = IF WithFile(us) = {} THEN 0 ELSE us[Newest(WithFile(us))][Id].size
          /\ DiskOf(ts).size = IF WithFile(ts) = {} THEN 0 ELSE ts[Newest(WithFile(ts))][Id].size
      BY DEF DiskOf
    <2>2. WithFile(ts) # {} => Newest(WithFile(ts)) \in 1..n
      BY <1>1, <1>2, NewestIn
    <2> QED BY <1>1, <1>4, <1>7, <2>1, <2>2
  <1>11. ASSUME t[Id] = Nil PROVE DiskOf(us) = DiskOf(ts)
    <2>1. /\ DiskOf(us) \in DiskInode /\ DiskOf(ts) \in DiskInode
          /\ DiskOf(us).size = DiskOf(ts).size
          /\ \A k \in Idx : DiskOf(us).blocks[k] = DiskOf(ts).blocks[k]
      BY <1>1, <1>9, <1>10, <1>11, DiskType
    <2> QED BY <2>1 DEF DiskInode
  <1> QED BY <1>1, <1>9, <1>10, <1>11 DEF us

\* Of some of the places of the loop, one has the newest tree.
LEMMA Winner ==
  ASSUME NEW v, NEW ts, Visits(v, ts), NEW S, S \subseteq 1..Len(v), S # {}
  PROVE  \E i \in S : \A j \in S : v[j] <= v[i] /\ (j # i => v[j] < v[i])
  <1> DEFINE T == {v[i] : i \in S}
  <1>0. /\ Len(v) \in Nat /\ (\A i \in S : v[i] \in 1..Len(v))
        /\ \A i, j \in S : v[i] = v[j] => i = j
    BY DEF Visits
  <1>1. T \subseteq 1..Len(v) /\ T # {}
    BY <1>0
  <1>2. PICK x \in T : \A y \in T : y <= x
    BY <1>0, <1>1, Greatest
  <1>3. PICK i \in S : x = v[i]
    BY <1>2
  <1>4. ASSUME NEW j \in S PROVE v[j] <= v[i] /\ (j # i => v[j] < v[i])
    <2>1. v[j] <= v[i]
      BY <1>2, <1>3
    <2>2. v[j] \in Nat /\ v[i] \in Nat /\ (v[i] = v[j] => i = j)
      BY <1>0, <1>3, <1>4
    <2> QED BY <2>1, <2>2
  <1> QED BY <1>3, <1>4

\* The places that the loop of find_latest_inode reaches.
Met == Loader!Reached(trees, visit, Id, TRUE)

\* The trees are well-formed, and so is the loop over them.
TreesOK(ts) == ts \in Seq(Tree) /\ Stamped(ts)

TreesInv == TreesOK(trees) /\ Visits(visit, trees)

\* What the loop meets is there.
LEMMA MetFacts ==
  ASSUME TreesInv
  PROVE  /\ Met \subseteq 1..Len(visit)
         /\ \A i \in Met : visit[i] \in DOMAIN trees /\ trees[visit[i]][Id] # Nil
  <1>1. Met \subseteq DOMAIN visit /\ \A i \in Met : trees[visit[i]][Id] # Nil
    BY DEF Met, Loader!Reached, Loader!Entry
  <1>2. DOMAIN visit = 1..Len(visit) /\ DOMAIN trees = 1..Len(trees) /\ Len(trees) \in Nat
    BY DEF TreesInv, TreesOK, Visits
  <1>3. \A i \in 1..Len(visit) : visit[i] \in 1..Len(trees)
    BY <1>2 DEF TreesInv, TreesOK, Visits
  <1> QED BY <1>1, <1>2, <1>3

\* A version met is as new as the tree it lies in.
LEMMA StampFacts ==
  ASSUME TreesInv
  PROVE  /\ Len(visit) \in Nat
         /\ \A i \in Met : /\ visit[i] \in Nat /\ trees[visit[i]][Id].mtime = visit[i]
                           /\ \A k \in Idx : trees[visit[i]][Id].blocks[k] # Nil =>
                                trees[visit[i]][Id].blocks[k].mtime = visit[i]
  <1>1. Len(visit) \in Nat /\ Len(trees) \in Nat /\ DOMAIN trees = 1..Len(trees)
    BY DEF TreesInv, TreesOK, Visits
  <1>2. Stamped(trees)
    BY DEF TreesInv, TreesOK
  <1>3. ASSUME NEW i \in Met
        PROVE  /\ visit[i] \in Nat /\ trees[visit[i]][Id].mtime = visit[i]
               /\ \A k \in Idx : trees[visit[i]][Id].blocks[k] # Nil =>
                    trees[visit[i]][Id].blocks[k].mtime = visit[i]
    <2>1. visit[i] \in DOMAIN trees /\ trees[visit[i]][Id] # Nil
      BY MetFacts
    <2>2. visit[i] \in Nat
      BY <1>1, <2>1
    <2> QED BY <1>2, <2>1, <2>2 DEF Stamped
  <1> QED BY <1>1, <1>3

\* The length a load finds: that of the newest tree it meets.
LEMMA MetaFound ==
  ASSUME TreesInv, Met # {}
  PROVE  \E i \in Met : /\ \A j \in Met : visit[j] <= visit[i]
                        /\ Loader!find_latest_inode(trees, visit, Id, TRUE) =
                             [trees[visit[i]][Id] EXCEPT !.blocks =
                                [k \in Idx |-> Loader!LatestBlock(trees, visit, Id, Met, k)]]
  <1> DEFINE di(i) == trees[visit[i]][Id]
             wins(i) == \A j \in Met :
                          di(j).mtime < di(i).mtime \/ (di(j).mtime = di(i).mtime /\ i <= j)
             w == CHOOSE i \in Met : wins(i)
  <1>1. /\ Met \subseteq 1..Len(visit) /\ Len(visit) \in Nat
        /\ \A i \in Met : di(i).mtime = visit[i] /\ visit[i] \in Nat
    BY MetFacts, StampFacts
  <1>2. PICK i \in Met : \A j \in Met : visit[j] <= visit[i] /\ (j # i => visit[j] < visit[i])
    BY <1>1, Winner DEF TreesInv, TreesOK
  <1>3. wins(i)
    BY <1>1, <1>2
  <1>4. w \in Met /\ wins(w)
    BY <1>2, <1>3
  <1>5. w = i
    <2>1. di(i).mtime < di(w).mtime \/ di(i).mtime = di(w).mtime
      BY <1>2, <1>4
    <2> HIDE DEF w, wins
    <2>2. di(i).mtime = visit[i] /\ di(w).mtime = visit[w]
      BY <1>1, <1>2, <1>4
    <2>3. visit[i] \in Nat /\ visit[w] \in Nat /\ (w # i => visit[w] < visit[i])
      BY <1>1, <1>2, <1>4
    <2> HIDE DEF di
    <2>4. ~(visit[w] < visit[i])
      BY <2>1, <2>2, <2>3
    <2> QED BY <2>3, <2>4
  <1>6. Loader!find_latest_inode(trees, visit, Id, TRUE) =
          [di(w) EXCEPT !.blocks = [k \in Idx |-> Loader!LatestBlock(trees, visit, Id, Met, k)]]
    BY DEF Loader!find_latest_inode, Loader!Entry, Met
  <1> QED BY <1>2, <1>5, <1>6

\* The contents a load finds: those of the newest tree it meets that has any.
LEMMA BlockFound ==
  ASSUME TreesInv, NEW k \in Idx
  PROVE  LET held == {i \in Met : trees[visit[i]][Id].blocks[k] # Nil}
         IN  IF held = {} THEN Loader!LatestBlock(trees, visit, Id, Met, k) = Nil
             ELSE \E i \in held :
                    /\ \A j \in held : visit[j] <= visit[i]
                    /\ Loader!LatestBlock(trees, visit, Id, Met, k) = trees[visit[i]][Id].blocks[k].data
  <1> DEFINE blk(i) == trees[visit[i]][Id].blocks[k]
             held == {i \in Met : blk(i) # Nil}
             wins(i) == \A j \in held :
                          blk(j).mtime < blk(i).mtime \/ (blk(j).mtime = blk(i).mtime /\ j <= i)
             w == CHOOSE i \in held : wins(i)
  <1>1. /\ held \subseteq 1..Len(visit) /\ Len(visit) \in Nat
        /\ \A i \in held : blk(i).mtime = visit[i] /\ visit[i] \in Nat
    BY MetFacts, StampFacts
  <1>2. Loader!LatestBlock(trees, visit, Id, Met, k) = IF held = {} THEN Nil ELSE blk(w).data
    BY DEF Loader!LatestBlock, Loader!Entry
  <1>3. ASSUME held # {}
        PROVE  \E i \in held : (\A j \in held : visit[j] <= visit[i]) /\ w = i
    <2> HIDE DEF held
    <2>1. PICK i \in held : \A j \in held : visit[j] <= visit[i] /\ (j # i => visit[j] < visit[i])
      BY <1>1, <1>3, Winner DEF TreesInv, TreesOK
    <2>2. wins(i)
      BY <1>1, <2>1
    <2>3. w \in held /\ wins(w)
      BY <2>1, <2>2
    <2>4. w = i
      <3>1. blk(i).mtime < blk(w).mtime \/ blk(i).mtime = blk(w).mtime
        BY <2>1, <2>3
      <3> HIDE DEF w, wins
      <3>2. blk(i).mtime = visit[i] /\ blk(w).mtime = visit[w]
        BY <1>1, <2>1, <2>3
      <3>3. visit[i] \in Nat /\ visit[w] \in Nat /\ (w # i => visit[w] < visit[i])
        BY <1>1, <2>1, <2>3
      <3> HIDE DEF blk
      <3>4. ~(visit[w] < visit[i])
        BY <3>1, <3>2, <3>3
      <3> QED BY <3>3, <3>4
    <2> QED BY <2>1, <2>4
  <1> QED BY <1>2, <1>3

\* What a load finds is well-formed.
LEMMA LoadedType ==
  ASSUME TreesInv
  PROVE  Loaded \in Inode \cup {Nil}
  <1> DEFINE di == Loader!find_latest_inode(trees, visit, Id, TRUE)
  <1>1. CASE Met = {}
    <2>1. di = Nil
      BY <1>1 DEF Loader!find_latest_inode, Met
    <2> QED BY <2>1 DEF Loaded
  <1>2. CASE Met # {}
    <2> DEFINE found == [k \in Idx |-> Loader!LatestBlock(trees, visit, Id, Met, k)]
    <2>1. PICK i \in Met : di = [trees[visit[i]][Id] EXCEPT !.blocks = found]
      BY <1>2, MetaFound
    <2>2. trees[visit[i]][Id] \in Version
      BY <2>1, MetFacts, TreeFacts DEF TreesInv, TreesOK
    <2>3. ASSUME NEW k \in Idx PROVE Loader!LatestBlock(trees, visit, Id, Met, k) \in Seq(Bytes) \cup {Nil}
      <3> DEFINE held == {j \in Met : trees[visit[j]][Id].blocks[k] # Nil}
      <3>1. CASE held = {}
        BY <3>1, BlockFound
      <3>2. CASE held # {}
        <4>1. PICK j \in held : Loader!LatestBlock(trees, visit, Id, Met, k) = trees[visit[j]][Id].blocks[k].data
          BY <3>2, BlockFound
        <4>2. visit[j] \in DOMAIN trees /\ trees[visit[j]][Id] # Nil /\ trees[visit[j]][Id].blocks[k] # Nil
          BY <4>1, MetFacts
        <4> QED BY <4>1, <4>2, TreeFacts DEF TreesInv, TreesOK
      <3> QED BY <3>1, <3>2
    <2>4. found \in [Idx -> Seq(Bytes) \cup {Nil}]
      BY <2>3
    <2> HIDE DEF found
    <2>5. di \in Merged /\ di # Nil
      BY <2>1, <2>2, <2>4, BlockIONil DEF Version, Merged
    <2> HIDE DEF di
    <2>6. di.blocks \in [Idx -> Seq(Bytes) \cup {Nil}] /\ di.size \in Nat
      BY <2>5 DEF Merged
    <2>7. [blocks |-> di.blocks, size |-> di.size] \in DiskInode
      BY <2>6 DEF DiskInode
    <2>8. LoadedInode(di) = LoadedInode([blocks |-> di.blocks, size |-> di.size])
      BY DEF LoadedInode
    <2>9. LoadedInode(di) \in Inode
      BY <2>7, <2>8, LoadedInodeType
    <2> QED BY <2>5, <2>9 DEF Loaded, di
  <1> QED BY <1>1, <1>2

\* A load that meets every tree finds what is on disk.
LEMMA LoadedIs ==
  ASSUME TreesInv, Complete, trees # << >>
  PROVE  Loaded = LoadedInode(disk) /\ Loaded # Nil
  <1> DEFINE di == Loader!find_latest_inode(trees, visit, Id, TRUE)
             n == Len(trees)
             found == [k \in Idx |-> Loader!LatestBlock(trees, visit, Id, Met, k)]
  <1>1. /\ n \in Nat /\ n >= 1 /\ Len(visit) = n /\ Met = 1..n /\ DOMAIN trees = 1..n
        /\ \A i \in 1..n : visit[i] \in 1..n
        /\ \A m \in 1..n : \E i \in 1..n : visit[i] = m
    <2>1. Len(visit) = n /\ Met = DOMAIN visit
      BY DEF Complete, Met
    <2>2. n \in Nat /\ DOMAIN trees = 1..n /\ n # 0 /\ visit \in Seq(Nat)
      BY DEF TreesInv, TreesOK, Visits
    <2> QED BY <2>1, <2>2 DEF TreesInv, TreesOK, Visits
  <1>2. \A m \in 1..n : trees[m][Id] # Nil
    BY <1>1, MetFacts
  <1>3. 1 \in Met /\ 1..n \subseteq Nat
    BY <1>1
  <1>4. PICK i \in Met : (\A j \in Met : visit[j] <= visit[i])
                         /\ di = [trees[visit[i]][Id] EXCEPT !.blocks = found]
    BY <1>3, MetaFound
  <1>5. di.size = disk.size
    <2>1. WithFile(trees) = 1..n
      BY <1>1, <1>2 DEF WithFile
    <2>2. visit[i] \in 1..n /\ \A m \in 1..n : m <= visit[i]
      BY <1>1, <1>4
    <2>3. Newest(WithFile(trees)) = visit[i]
      BY <1>3, <2>1, <2>2, NewestIs
    <2>4. disk.size = trees[visit[i]][Id].size
      BY <2>1, <2>2, <2>3 DEF disk, DiskOf
    <2>5. trees[visit[i]][Id] \in Version
      BY <1>4, MetFacts, TreeFacts DEF TreesInv, TreesOK
    <2>6. di.size = trees[visit[i]][Id].size
      BY <1>4, <2>5 DEF Version
    <2> QED BY <2>4, <2>6
  <1>6. di.blocks = found
    <2>1. trees[visit[i]][Id] \in Version
      BY <1>4, MetFacts, TreeFacts DEF TreesInv, TreesOK
    <2> QED BY <1>4, <2>1 DEF Version
  <1>7. ASSUME NEW k \in Idx PROVE Loader!LatestBlock(trees, visit, Id, Met, k) = disk.blocks[k]
    <2> DEFINE held == {j \in Met : trees[visit[j]][Id].blocks[k] # Nil}
    <2>1. disk.blocks[k] = IF WithBlock(trees, k) = {} THEN Nil
                           ELSE trees[Newest(WithBlock(trees, k))][Id].blocks[k].data
      BY DEF disk, DiskOf
    <2>2. WithBlock(trees, k) = {m \in 1..n : trees[m][Id].blocks[k] # Nil}
      BY <1>1, <1>2 DEF WithBlock
    <2>3. CASE held = {}
      <3>1. ASSUME NEW m \in 1..n PROVE trees[m][Id].blocks[k] = Nil
        <4>1. PICK j \in 1..n : visit[j] = m
          BY <1>1
        <4> QED BY <1>1, <2>3, <4>1
      <3>2. WithBlock(trees, k) = {}
        BY <2>2, <3>1
      <3> QED BY <2>1, <2>3, <3>2, BlockFound
    <2>4. CASE held # {}
      <3>1. PICK h \in held : (\A j \in held : visit[j] <= visit[h])
              /\ Loader!LatestBlock(trees, visit, Id, Met, k) = trees[visit[h]][Id].blocks[k].data
        BY <2>4, BlockFound
      <3>2. visit[h] \in WithBlock(trees, k) /\ WithBlock(trees, k) \subseteq Nat
        BY <1>1, <1>3, <2>2, <3>1
      <3>3. ASSUME NEW m \in WithBlock(trees, k) PROVE m <= visit[h]
        <4>1. m \in 1..n /\ trees[m][Id].blocks[k] # Nil
          BY <2>2
        <4>2. PICK j \in 1..n : visit[j] = m
          BY <1>1, <4>1
        <4>3. j \in held
          BY <1>1, <4>1, <4>2
        <4> QED BY <3>1, <4>2, <4>3
      <3>4. Newest(WithBlock(trees, k)) = visit[h]
        BY <3>2, <3>3, NewestIs
      <3> QED BY <2>1, <3>1, <3>2, <3>4
    <2> QED BY <2>3, <2>4
  <1>8. disk \in DiskInode
    BY DiskType DEF disk, TreesInv, TreesOK
  <1>9. di.blocks = disk.blocks
    <2>1. disk.blocks \in [Idx -> Seq(Bytes) \cup {Nil}]
      BY <1>8 DEF DiskInode
    <2> QED BY <1>6, <1>7, <2>1
  <1>10. di # Nil
    <2>1. trees[visit[i]][Id] \in Version
      BY <1>4, MetFacts, TreeFacts DEF TreesInv, TreesOK
    <2>2. found \in [Idx -> Seq(Bytes) \cup {Nil}]
      BY <1>6, <1>8, <1>9 DEF DiskInode
    <2> HIDE DEF found
    <2>3. di \in Merged
      BY <1>4, <2>1, <2>2 DEF Version, Merged
    <2> QED BY <2>3, BlockIONil
  <1>11. LoadedInode(di) = LoadedInode(disk)
    <2> HIDE DEF di
    <2> QED BY <1>5, <1>9 DEF LoadedInode
  <1>12. LoadedInode(disk) # Nil
    BY <1>8, LoadedInodeType, BlockIONil
  <1> QED BY <1>10, <1>11, <1>12 DEF Loaded
-----------------------------------------------------------------------------
(* The loop of BlockCache::write.                                          *)

TypeInv ==
  /\ inode \in Inode \cup {Nil}
  /\ dirty \subseteq Idx
  /\ has_changed \in BOOLEAN
  /\ TreesInv
  /\ call \in Call \cup {Nil}
  /\ file \in Seq(Bytes)
  /\ sound \in BOOLEAN

\* What a flush will write is there.
DirtyHeld ==
  IF inode = Nil THEN dirty = {} ELSE \A k \in dirty : inode.blocks[k] # Nil

Used(c) == c.curr_idx + c.block_size

\* The loop has used the bytes of the blocks it has done, as many as there
\* are.
Loop ==
  call # Nil =>
    LET size == Len(call.buf)
        first == call.offset \div SIZE
        done == (call.block_idx - first) * SIZE
    IN  /\ inode # Nil
        /\ call.offset + size <= MaxLen
        /\ first <= call.block_idx
        /\ call.offsetted <=> call.block_idx # first
        /\ Used(call) <= size
        /\ Used(call) = done \/ (Used(call) = size /\ size <= done)

\* A file that is not in the cache, or would be dropped by an unmount, is in
\* a tree.
Begun == trees # << >> \/ (inode # Nil /\ has_changed)

LInv == TypeInv /\ DirtyHeld /\ Begun /\ Loop

\* The inode of the file: the cached one, or the one a complete load makes.
Cur == IF inode # Nil THEN inode ELSE LoadedInode(disk)

\* What is on disk of the file is well-formed.
LEMMA DiskIs ==
  ASSUME TypeInv
  PROVE  disk \in DiskInode
  BY DiskType DEF TypeInv, TreesInv, TreesOK, disk

\* The inode of the file is one.
LEMMA CurType ==
  ASSUME TypeInv
  PROVE  Cur \in Inode /\ Cur # Nil
  BY DiskIs, LoadedInodeType, BlockIONil DEF TypeInv, Cur

\* A request finds an inode, or none.
LEMMA CurrentType ==
  ASSUME TypeInv
  PROVE  Current \in Inode \cup {Nil}
  BY LoadedType DEF TypeInv, Current

\* When the file is in the cache, or a load meets every tree, a request works
\* on the inode of the file.
LEMMA CurrentIs ==
  ASSUME TypeInv, Begun, inode = Nil => Complete
  PROVE  Current = Cur
  <1>1. CASE inode # Nil
    BY <1>1 DEF Current, Cur
  <1>2. CASE inode = Nil
    <2>1. Loaded = LoadedInode(disk)
      BY <1>2, LoadedIs DEF TypeInv, Begun
    <2> QED BY <1>2, <2>1 DEF Current, Cur
  <1> QED BY <1>1, <1>2

\* What a flush writes.
Writable(ino) ==
  /\ ino \in Inode \cup {Nil}
  /\ IF ino = Nil THEN dirty = {} ELSE \A k \in dirty : ino.blocks[k] # Nil

\* A flush writes a well-formed tree with the dirty blocks and the length, or
\* one without the file.
LEMMA FlushType ==
  ASSUME TypeInv, NEW ino, Writable(ino), flush_to_disk(ino)
  PROVE  /\ TreesOK(trees') /\ Len(trees) <= Len(trees') /\ trees' # << >>
         /\ inode' = Nil /\ dirty' = {} /\ disk' \in DiskInode
         /\ ino = Nil => disk' = disk
         /\ ino # Nil =>
              /\ disk'.size = ino.size
              /\ \A k \in Idx : disk'.blocks[k] = IF k \in dirty THEN get_data(ino.blocks[k])
                                                   ELSE disk.blocks[k]
  <1> DEFINE t == [id \in {Id} |-> IF ino = Nil THEN Nil ELSE FlushedInode(ino)]
             n == Len(trees) + 1
  <1>1. trees \in Seq(Tree) /\ Stamped(trees) /\ dirty \subseteq Idx /\ n \in Nat
    BY DEF TypeInv, TreesInv, TreesOK
  <1>2. trees' = Append(trees, t) /\ inode' = Nil /\ dirty' = {}
    BY DEF flush_to_disk
  <1>3. t[Id] = IF ino = Nil THEN Nil ELSE FlushedInode(ino)
    OBVIOUS
  <1>4. ASSUME ino # Nil
        PROVE  /\ FlushedInode(ino) \in Version /\ FlushedInode(ino) # Nil
               /\ FlushedInode(ino).mtime = n /\ FlushedInode(ino).size = ino.size
               /\ \A k \in Idx \ dirty : FlushedInode(ino).blocks[k] = Nil
               /\ \A k \in dirty : /\ FlushedInode(ino).blocks[k] # Nil
                                    /\ FlushedInode(ino).blocks[k].mtime = n
                                    /\ FlushedInode(ino).blocks[k].data = get_data(ino.blocks[k])
    <2> DEFINE blk(k) == [mtime |-> n, data |-> get_data(ino.blocks[k])]
               blks == [k \in Idx |-> IF k \in dirty THEN blk(k) ELSE Nil]
    <2>1. ino \in Inode /\ ino.size \in Nat /\ \A k \in dirty : k \in Idx /\ ino.blocks[k] \in Block
      BY <1>1, <1>4 DEF Writable, Inode
    <2>2. \A k \in dirty : get_data(ino.blocks[k]) \in Seq(Bytes)
      BY <2>1, GetDataType
    <2>3. FlushedInode(ino) = [mtime |-> n, size |-> ino.size, blocks |-> blks]
      BY DEF FlushedInode
    <2>4. \A k \in dirty : blk(k) \in [mtime : Nat, data : Seq(Bytes)] /\ blk(k) # Nil
      BY <1>1, <2>2, BlockIONil
    <2>5. /\ blks \in [Idx -> [mtime : Nat, data : Seq(Bytes)] \cup {Nil}]
          /\ \A k \in Idx \ dirty : blks[k] = Nil
          /\ \A k \in dirty : blks[k] # Nil /\ blks[k].mtime = n /\ blks[k].data = get_data(ino.blocks[k])
      BY <2>1, <2>4
    <2> HIDE DEF blks, n
    <2>6. FlushedInode(ino) \in Version
      BY <1>1, <2>1, <2>3, <2>5 DEF Version
    <2> QED BY <2>3, <2>5, <2>6, BlockIONil
  <1> HIDE DEF t
  <1>5. t \in Tree
    <2>1. t[Id] \in Version \cup {Nil}
      BY <1>3, <1>4
    <2>2. t = [id \in {Id} |-> t[Id]]
      BY DEF t
    <2> QED BY <2>1, <2>2 DEF Tree
  <1>6. trees' \in Seq(Tree) /\ Len(trees) <= Len(trees') /\ trees' # << >>
    BY <1>1, <1>2, <1>5
  <1>7. Stamped(trees')
    <2> SUFFICES ASSUME NEW i \in DOMAIN trees', trees'[i][Id] # Nil
                 PROVE  /\ trees'[i][Id].mtime = i
                        /\ \A k \in Idx : trees'[i][Id].blocks[k] # Nil => trees'[i][Id].blocks[k].mtime = i
      BY DEF Stamped
    <2>1. (i \in DOMAIN trees /\ trees'[i] = trees[i]) \/ (i = n /\ trees'[i] = t)
      BY <1>1, <1>2
    <2>2. CASE i \in DOMAIN trees /\ trees'[i] = trees[i]
      BY <1>1, <2>2 DEF Stamped
    <2>3. CASE i = n /\ trees'[i] = t
      <3>1. ino # Nil /\ t[Id] = FlushedInode(ino)
        BY <1>3, <2>3
      <3> QED BY <1>4, <2>3, <3>1
    <2> QED BY <2>1, <2>2, <2>3
  <1>8. disk' = DiskOf(Append(trees, t)) /\ disk = DiskOf(trees)
    BY <1>2 DEF disk
  <1>9. disk' \in DiskInode
    BY <1>2, <1>6, <1>8, DiskType
  <1>10. ino = Nil => disk' = disk
    BY <1>1, <1>3, <1>5, <1>8, DiskAppend
  <1>11. ASSUME ino # Nil
         PROVE  /\ disk'.size = ino.size
                /\ \A k \in Idx : disk'.blocks[k] = IF k \in dirty THEN get_data(ino.blocks[k])
                                                     ELSE disk.blocks[k]
    <2>1. t[Id] = FlushedInode(ino) /\ t[Id] # Nil
      BY <1>3, <1>4, <1>11
    <2>2. /\ disk'.size = t[Id].size
          /\ \A k \in Idx : disk'.blocks[k] =
               IF t[Id].blocks[k] # Nil THEN t[Id].blocks[k].data ELSE disk.blocks[k]
      BY <1>1, <1>5, <1>8, <2>1, DiskAppend
    <2> QED BY <1>4, <1>11, <2>1, <2>2
  <1> QED BY <1>2, <1>6, <1>7, <1>9, <1>10, <1>11 DEF TreesOK

\* flush_to_shdw keeps the inode or flushes it.
LEMMA ShdwType ==
  ASSUME TypeInv, NEW ino, Writable(ino), flush_to_shdw(ino)
  PROVE  /\ TreesOK(trees') /\ Len(trees) <= Len(trees')
         /\ trees' # << >> \/ (trees' = trees /\ inode' = ino)
         /\ inode' \in Inode \cup {Nil} /\ dirty' \subseteq Idx
         /\ IF inode' = Nil THEN dirty' = {} ELSE \A k \in dirty' : inode'.blocks[k] # Nil
  <1>1. CASE inode' = ino /\ UNCHANGED <<dirty, trees>>
    BY <1>1 DEF TypeInv, TreesInv, TreesOK, Writable
  <1>2. CASE flush_to_disk(ino)
    BY <1>2, FlushType
  <1> QED BY <1>1, <1>2 DEF flush_to_shdw

\* More trees do not disturb the loop over the mapped ones.
LEMMA VisitsStay ==
  ASSUME TreesInv, TreesOK(trees'), Len(trees) <= Len(trees'), visit' = visit
  PROVE  TreesInv'
  <1>1. Len(trees) \in Nat /\ Len(trees') \in Nat
    BY DEF TreesInv, TreesOK
  <1>2. Visits(visit, trees')
    BY <1>1 DEF TreesInv, TreesOK, Visits
  <1> QED BY <1>2 DEF TreesInv, TreesOK

\* A new loop meets every tree once.
LEMMA OrderVisits ==
  ASSUME TreesOK(trees'), visit' \in Orders(Len(trees'))
  PROVE  TreesInv'
  <1> DEFINE n == Len(trees')
             v == visit'
  <1>1. n \in Nat /\ 1..n \subseteq Nat
    BY DEF TreesOK
  <1>2. /\ v \in [1..n -> 1..n]
        /\ \A i, j \in 1..n : v[i] = v[j] => i = j
        /\ \A m \in 1..n : \E i \in 1..n : v[i] = m
    BY DEF Orders, Bijection, Injection, Surjection, IsInjective
  <1> HIDE DEF n
  <1>3. v \in Seq(Nat) /\ Len(v) = n
    <2> HIDE DEF v
    <2> QED BY <1>1, <1>2
  <1>4. Visits(v, trees')
    <2>1. Len(v) <= Len(trees') /\ Len(v) \in Nat
      BY <1>1, <1>3 DEF n
    <2> HIDE DEF v
    <2>2. \A i \in 1..n : v[i] \in 1..n
      BY <1>2
    <2> QED BY <1>2, <1>3, <2>1, <2>2 DEF Visits
  <1> QED BY <1>4 DEF TreesInv, TreesOK

\* Setting the size leaves an inode with the same blocks.
LEMMA SetSize ==
  ASSUME NEW ino \in Inode, NEW n \in Nat
  PROVE  /\ [ino EXCEPT !.size = n] \in Inode
         /\ [ino EXCEPT !.size = n].blocks = ino.blocks
         /\ [ino EXCEPT !.size = n].size = n
  BY DEF Inode

\* Overlay makes a sequence of bytes of one.
LEMMA OverlayFacts ==
  ASSUME NEW bytes \in Seq(Bytes), NEW buf \in Seq(Bytes), NEW offset \in Nat
  PROVE  LET o == Overlay(bytes, buf, offset)
             end == offset + Len(buf)
         IN  /\ o \in Seq(Bytes)
             /\ Len(o) = IF Len(bytes) > end THEN Len(bytes) ELSE end
             /\ \A i \in 1..Len(o) : o[i] = IF i > offset /\ i <= end THEN buf[i - offset]
                                            ELSE IF i <= Len(bytes) THEN bytes[i] ELSE Zero
  <1> DEFINE end == offset + Len(buf)
             n == IF Len(bytes) > end THEN Len(bytes) ELSE end
             val(i) == IF i > offset /\ i <= end THEN buf[i - offset]
                       ELSE IF i <= Len(bytes) THEN bytes[i] ELSE Zero
  <1>1. n \in Nat
    OBVIOUS
  <1>2. Overlay(bytes, buf, offset) = [i \in 1..n |-> val(i)]
    BY DEF Overlay
  <1>3. \A i \in 1..n : val(i) \in Bytes
    BY DEF Bytes
  <1> HIDE DEF n, val
  <1>4. [i \in 1..n |-> val(i)] \in Seq(Bytes) /\ Len([i \in 1..n |-> val(i)]) = n
    BY <1>1, <1>3
  <1> QED BY <1>2, <1>4 DEF n, val

\* A buffer is a sequence of at least one byte.
LEMMA BufFacts ==
  ASSUME NEW buf \in Bufs
  PROVE  buf \in Seq(Bytes) /\ Len(buf) \in Nat /\ Len(buf) >= 1
  <1>1. buf \in Seq(Bytes) /\ buf # << >>
    BY BlockIOAssumption
  <1> QED BY <1>1

\* The locals of the loop for the next block.
next_curr == call.curr_idx + call.block_size

next_size ==
  IF Len(call.buf) < next_curr + SIZE THEN Len(call.buf) - next_curr ELSE SIZE

next_amt == IF call.offsetted THEN 0 ELSE call.offset % SIZE

\* The block that the loop stores next.
next_block ==
  LET old == inode.blocks[call.block_idx]
  IN  IF old # Nil THEN insert_data(old, call.buf, next_size, next_amt)
      ELSE insert_data(EmptyBlock, SubSeq(call.buf, next_curr + 1, Len(call.buf)), next_size, 0)

\* What one turn of the loop does.
LEMMA TurnFacts ==
  ASSUME LInv, write_block
  PROVE  /\ call \in Call /\ inode \in Inode /\ call.block_idx \in Idx
         /\ call.block_idx < write_num_blocks
         /\ call.block_idx * SIZE < Len(call.buf) + call.offset
         /\ next_curr \in Nat /\ next_curr <= Len(call.buf)
         /\ next_size \in Nat /\ next_size <= SIZE /\ next_curr + next_size <= Len(call.buf)
         /\ next_amt \in Nat
         /\ next_block \in Block
         /\ inode' = [inode EXCEPT !.blocks = [@ EXCEPT ![call.block_idx] = next_block]]
         /\ inode' \in Inode
         /\ dirty' = dirty \cup {call.block_idx}
         /\ call' = [buf |-> call.buf, offset |-> call.offset, block_idx |-> call.block_idx + 1,
                     curr_idx |-> next_curr, block_size |-> next_size, offsetted |-> TRUE]
         /\ UNCHANGED <<has_changed, trees, visit, file, sound>>
  <1> DEFINE k == call.block_idx
             s == Len(call.buf)
  <1>1. call \in Call /\ inode \in Inode /\ call # Nil
    BY DEF LInv, TypeInv, Loop, write_block
  <1>2. /\ call.buf \in Bufs /\ call.offset \in Nat /\ k \in Nat /\ call.curr_idx \in Nat
        /\ call.block_size \in Nat /\ call.offsetted \in BOOLEAN
    BY <1>1 DEF Call
  <1>3. call.buf \in Seq(Bytes) /\ s \in Nat /\ s >= 1
    BY <1>2, BufFacts
  <1>4. next_curr \in Nat /\ next_curr <= s /\ call.offset + s <= MaxLen
    BY <1>1, <1>2 DEF LInv, Loop, Used, next_curr
  <1>5. next_size \in Nat /\ next_size <= SIZE /\ next_curr + next_size <= s
    BY <1>3, <1>4, SizeNat DEF next_size
  <1>6. next_amt \in Nat
    BY <1>2, DivMod DEF next_amt
  <1>7. k < write_num_blocks /\ k * SIZE < s + call.offset
    <2>1. s + call.offset \in Nat /\ k < write_num_blocks
      BY <1>2, <1>3 DEF write_block
    <2> QED BY <1>2, <2>1, CeilFacts DEF write_num_blocks
  <1>8. k \in Idx
    <2>1. k * SIZE \in Nat
      BY <1>2, Times
    <2>2. k * SIZE < MaxLen
      BY <1>2, <1>3, <1>4, <1>7, <2>1, SizeNat
    <2> QED BY <1>2, <2>2, IdxFacts
  <1>9. next_block \in Block
    <2>1. inode.blocks[k] \in Block \cup {Nil}
      BY <1>1, <1>8 DEF Inode
    <2>2. CASE inode.blocks[k] # Nil
      <3>1. next_size <= s
        BY <1>3, <1>4, <1>5
      <3> QED BY <1>3, <1>5, <1>6, <2>1, <2>2, <3>1, InsertType DEF next_block
    <2>3. CASE inode.blocks[k] = Nil
      <3> DEFINE rest == SubSeq(call.buf, next_curr + 1, s)
      <3>1. rest \in Seq(Bytes) /\ Len(rest) = s - next_curr
        BY <1>3, <1>4
      <3>2. next_size <= Len(rest)
        BY <1>3, <1>4, <1>5, <3>1
      <3>3. next_block = insert_data(EmptyBlock, rest, next_size, 0)
        BY <2>3 DEF next_block
      <3> HIDE DEF rest
      <3> QED BY <1>5, <3>1, <3>2, <3>3, EmptyType, InsertType
    <2> QED BY <2>2, <2>3
  <1>10. /\ inode' = [inode EXCEPT !.blocks[k] = next_block]
         /\ dirty' = dirty \cup {k}
         /\ call' = [call EXCEPT !.block_idx = k + 1, !.curr_idx = next_curr,
                                 !.block_size = next_size, !.offsetted = TRUE]
         /\ UNCHANGED <<has_changed, trees, visit, file, sound>>
    BY DEF write_block, next_block, next_size, next_curr, next_amt, has_block
  <1>11. call' = [buf |-> call.buf, offset |-> call.offset, block_idx |-> k + 1,
                  curr_idx |-> next_curr, block_size |-> next_size, offsetted |-> TRUE]
    BY <1>1, <1>10 DEF Call
  <1>12. inode' = [inode EXCEPT !.blocks = [@ EXCEPT ![k] = next_block]] /\ inode' \in Inode
    BY <1>1, <1>8, <1>9, <1>10 DEF Inode
  <1> QED BY <1>1, <1>4, <1>5, <1>6, <1>7, <1>8, <1>9, <1>10, <1>11, <1>12

\* One turn of the loop of write takes what the block holds of the buffer.
LEMMA LoopTurn ==
  ASSUME LInv, write_block
  PROVE  LInv'
  <1> DEFINE k == call.block_idx
             s == Len(call.buf)
             f == call.offset \div SIZE
  <1>1. /\ call \in Call /\ inode \in Inode /\ k \in Idx
        /\ next_curr \in Nat /\ next_curr <= Len(call.buf)
        /\ next_size \in Nat /\ next_size <= SIZE /\ next_curr + next_size <= Len(call.buf)
        /\ next_block \in Block
        /\ inode' = [inode EXCEPT !.blocks = [@ EXCEPT ![k] = next_block]]
        /\ inode' \in Inode
        /\ dirty' = dirty \cup {k}
        /\ call' = [buf |-> call.buf, offset |-> call.offset, block_idx |-> k + 1,
                    curr_idx |-> next_curr, block_size |-> next_size, offsetted |-> TRUE]
        /\ UNCHANGED <<has_changed, trees, visit, file, sound>>
    BY TurnFacts
  <1>2. call.buf \in Bufs /\ call.offset \in Nat /\ k \in Nat /\ s \in Nat /\ f \in Nat
    BY <1>1, BufFacts, DivMod DEF Call
  <1>3. inode # Nil /\ inode' # Nil /\ call # Nil /\ next_block # Nil
    BY <1>1, BlockIONil
  <1>4. TypeInv'
    BY <1>1, <1>2 DEF LInv, TypeInv, TreesInv, Call
  <1>5. DirtyHeld'
    <2>1. \A x \in dirty : inode.blocks[x] # Nil /\ x \in Idx
      BY <1>3 DEF LInv, DirtyHeld, TypeInv
    <2>2. \A x \in Idx : inode'.blocks[x] = IF x = k THEN next_block ELSE inode.blocks[x]
      BY <1>1 DEF Inode
    <2> QED BY <1>1, <1>3, <2>1, <2>2 DEF DirtyHeld
  <1>6. Loop'
    <2>1. /\ call.offset + s <= MaxLen /\ f <= k
          /\ next_curr = (k - f) * SIZE \/ (next_curr = s /\ s <= (k - f) * SIZE)
      BY <1>3 DEF LInv, Loop, Used, next_curr
    <2>2. (k - f) * SIZE \in Nat /\ (k + 1 - f) * SIZE = (k - f) * SIZE + SIZE
      <3>1. k - f \in Nat /\ k + 1 - f = (k - f) + 1
        BY <1>2, <2>1
      <3> QED BY <3>1, Times
    <2>3. \/ next_curr + next_size = (k + 1 - f) * SIZE
          \/ next_curr + next_size = s /\ s <= (k + 1 - f) * SIZE
      <3> DEFINE n == (k - f) * SIZE
                 m == (k + 1 - f) * SIZE
      <3> HIDE DEF n, m, s
      <3>1. n \in Nat /\ m = n + SIZE /\ (next_curr = n \/ (next_curr = s /\ s <= n))
        BY <2>1, <2>2 DEF n, m
      <3>2. next_size = IF s < next_curr + SIZE THEN s - next_curr ELSE SIZE
        BY DEF next_size, s
      <3>3. next_curr + next_size = m \/ (next_curr + next_size = s /\ s <= m)
        BY <1>1, <1>2, <3>1, <3>2, SizeNat
      <3> QED BY <3>3 DEF m
    <2>4. /\ call'.buf = call.buf /\ call'.offset = call.offset /\ call'.block_idx = k + 1
          /\ call'.curr_idx = next_curr /\ call'.block_size = next_size /\ call'.offsetted = TRUE
      BY <1>1
    <2>5. f <= k + 1 /\ k + 1 # f
      BY <1>2, <2>1
    <2>6. next_curr + next_size <= s
      BY <1>1
    <2> HIDE DEF k
    <2>7. call'.block_idx - (call'.offset \div SIZE) = k + 1 - f
      BY <1>2, <2>4, SizeNat
    <2>8. Used(call)' = next_curr + next_size /\ Len(call'.buf) = s /\ call'.offset \div SIZE = f
      BY <2>4 DEF Used
    <2> HIDE DEF f, s
    <2> QED BY <1>3, <2>1, <2>3, <2>4, <2>5, <2>6, <2>7, <2>8 DEF Loop
  <1>7. Begun'
    BY <1>1, <1>3 DEF LInv, Begun
  <1> QED BY <1>4, <1>5, <1>6, <1>7 DEF LInv

\* A new inode has no blocks and no bytes.
LEMMA NewInodeType ==
  /\ NewInode \in Inode /\ NewInode \in DiskInode
  /\ \A k \in Idx : NewInode.blocks[k] = Nil
  /\ NewInode.size = 0
  BY DEF NewInode, Inode, DiskInode

\* A new write: the loop is about to do its first block.
LEMMA LoopBegin ==
  ASSUME LInv, NEW buf \in Bufs, NEW offset \in 0..MaxLen, zippyfs_write(buf, offset)
  PROVE  /\ LInv'
         /\ inode' \in Inode /\ inode'.blocks = Current.blocks
         /\ inode'.size = IF Current.size < offset + Len(buf) THEN offset + Len(buf)
                          ELSE Current.size
         /\ call' \in Call
  <1> DEFINE end == Len(buf) + offset
             n == IF Current.size < end THEN end ELSE Current.size
             f == offset \div SIZE
  <1>1. Current \in Inode /\ Current # Nil /\ Current.size \in Nat
    BY CurrentType DEF LInv, Inode, zippyfs_write
  <1>2. buf \in Seq(Bytes) /\ Len(buf) \in Nat /\ Len(buf) >= 1 /\ offset \in Nat /\ f \in Nat
    BY BufFacts, DivMod, SizeNat
  <1>3. n \in Nat /\ end = offset + Len(buf) /\ end <= MaxLen
    BY <1>1, <1>2, SizeNat DEF zippyfs_write
  <1>4. /\ inode' = [Current EXCEPT !.size = n]
        /\ call' = [buf |-> buf, offset |-> offset, block_idx |-> f,
                    curr_idx |-> 0, block_size |-> 0, offsetted |-> FALSE]
        /\ file' = Overlay(file, buf, offset)
        /\ UNCHANGED <<dirty, has_changed, trees, visit>>
        /\ sound' = (sound /\ (inode = Nil => Complete) /\ Handled(Current, Len(buf), offset))
    BY DEF zippyfs_write
  <1>5. inode' \in Inode /\ inode'.blocks = Current.blocks /\ inode'.size = n /\ inode' # Nil
    <2> HIDE DEF n
    <2> QED BY <1>1, <1>3, <1>4, SetSize, BlockIONil
  <1>6. call' \in Call /\ call' # Nil
    <2>1. call' \in Call
      <3> HIDE DEF f
      <3> QED BY <1>2, <1>4 DEF Call
    <2> QED BY <2>1, BlockIONil
  <1>7. sound' \in BOOLEAN
    BY <1>4
  <1>8. TypeInv'
    BY <1>2, <1>4, <1>5, <1>6, <1>7, OverlayFacts DEF LInv, TypeInv, TreesInv
  <1>9. DirtyHeld'
    <2>1. \A k \in dirty : Current.blocks[k] # Nil
      BY DEF LInv, DirtyHeld, Current
    <2> QED BY <1>4, <1>5, <2>1 DEF DirtyHeld
  <1>10. Loop'
    <2>1. /\ call'.buf = buf /\ call'.offset = offset /\ call'.block_idx = f
          /\ call'.offsetted = FALSE /\ Used(call)' = 0
      BY <1>4 DEF Used
    <2>2. (f - f) * SIZE = 0
      BY <1>2, SizeNat
    <2>3. call'.block_idx - (call'.offset \div SIZE) = f - f
      BY <1>2, <2>1, SizeNat
    <2>4. call'.offset \div SIZE = f
      BY <2>1
    <2> HIDE DEF f
    <2> QED BY <1>2, <1>3, <1>5, <1>6, <2>1, <2>2, <2>3, <2>4 DEF Loop
  <1>11. Begun'
    BY <1>4, <1>5 DEF LInv, Begun
  <1> QED BY <1>3, <1>5, <1>6, <1>8, <1>9, <1>10, <1>11 DEF LInv

\* What the other requests leave.
LEMMA LoopIdle ==
  ASSUME LInv,
         \/ write_return \/ (\E n \in 0..MaxLen : zippyfs_truncate(n))
         \/ (\E buf \in Bufs, offset \in 0..MaxLen : write_unloaded(buf, offset))
         \/ zippyfs_open \/ flush_by_others \/ zippyfs_readdir \/ remount
  PROVE  LInv' /\ call' = Nil
  <1> USE DEF LInv
  <1>0. Writable(inode) /\ dirty \subseteq Idx
    BY DEF TypeInv, DirtyHeld, Writable
  <1>1. ASSUME call' = Nil, TreesInv', Begun', has_changed' \in BOOLEAN,
               inode' \in Inode \cup {Nil}, dirty' \subseteq Idx,
               IF inode' = Nil THEN dirty' = {} ELSE \A k \in dirty' : inode'.blocks[k] # Nil,
               file' \in Seq(Bytes), sound' \in BOOLEAN
        PROVE  LInv' /\ call' = Nil
    BY <1>1 DEF TypeInv, DirtyHeld, Loop
  <1>2. CASE write_return
    <2>1. flush_to_shdw(inode) /\ visit' = visit /\ has_changed' = TRUE /\ call' = Nil
          /\ UNCHANGED <<file, sound>> /\ inode # Nil
      BY <1>2 DEF write_return, Loop
    <2>2. /\ TreesOK(trees') /\ Len(trees) <= Len(trees')
          /\ trees' # << >> \/ (trees' = trees /\ inode' = inode)
          /\ inode' \in Inode \cup {Nil} /\ dirty' \subseteq Idx
          /\ IF inode' = Nil THEN dirty' = {} ELSE \A k \in dirty' : inode'.blocks[k] # Nil
      BY <1>0, <2>1, ShdwType
    <2>3. TreesInv'
      BY <2>1, <2>2, VisitsStay DEF TypeInv
    <2> QED BY <1>1, <2>1, <2>2, <2>3 DEF TypeInv, Begun
  <1>3. ASSUME NEW n \in 0..MaxLen, zippyfs_truncate(n) PROVE LInv' /\ call' = Nil
    <2>1. n \in Nat
      BY SizeNat
    <2>2. file' \in Seq(Bytes)
      <3>1. << >> \in Seq(Bytes) /\ file \in Seq(Bytes)
        BY DEF LInv, TypeInv
      <3>2. Overlay(file, << >>, n) \in Seq(Bytes) /\ Len(Overlay(file, << >>, n)) >= n
        <4> DEFINE e == << >>
        <4>1. e \in Seq(Bytes) /\ Len(e) = 0
          OBVIOUS
        <4> HIDE DEF e
        <4>2. /\ Overlay(file, e, n) \in Seq(Bytes)
              /\ Len(Overlay(file, e, n)) = IF Len(file) > n + Len(e) THEN Len(file) ELSE n + Len(e)
          BY <2>1, <3>1, <4>1, OverlayFacts, Zenon
        <4>3. n + Len(e) = n /\ Len(file) \in Nat
          BY <2>1, <3>1, <4>1
        <4> QED BY <2>1, <4>2, <4>3 DEF e
      <3> DEFINE o == Overlay(file, << >>, n)
      <3>3. file' = SubSeq(o, 1, n)
        BY <1>3 DEF zippyfs_truncate
      <3> HIDE DEF o
      <3>4. o \in Seq(Bytes) /\ Len(o) >= n
        BY <3>2 DEF o
      <3>5. SubSeq(o, 1, n) \in Seq(Bytes)
        BY <2>1, <3>4
      <3> QED BY <3>3, <3>5
    <2>3. call' = Nil /\ sound' \in BOOLEAN
      BY <1>3 DEF zippyfs_truncate, Ready
    <2>4. Begun' /\ TreesInv' /\ has_changed' \in BOOLEAN
          /\ inode' \in Inode \cup {Nil} /\ dirty' \subseteq Idx
          /\ IF inode' = Nil THEN dirty' = {} ELSE \A k \in dirty' : inode'.blocks[k] # Nil
      <3> DEFINE cut == IF inode = Nil THEN Nil ELSE [inode EXCEPT !.size = n]
      <3>1. Writable(cut) /\ (cut = Nil <=> inode = Nil)
        <4>1. CASE inode = Nil
          BY <1>0, <4>1 DEF Writable
        <4>2. CASE inode # Nil
          <5> DEFINE new == [inode EXCEPT !.size = n]
          <5>1. new \in Inode /\ new.blocks = inode.blocks /\ new # Nil
            BY <1>0, <2>1, <4>2, SetSize, BlockIONil DEF Writable
          <5>2. cut = new
            BY <4>2
          <5> HIDE DEF new, cut
          <5> QED BY <1>0, <4>2, <5>1, <5>2 DEF Writable
        <4> QED BY <4>1, <4>2
      <3>2. /\ flush_to_shdw(cut) /\ visit' = visit
            /\ has_changed' = (has_changed \/ inode # Nil)
        BY <1>3 DEF zippyfs_truncate
      <3> HIDE DEF cut
      <3>3. /\ TreesOK(trees') /\ Len(trees) <= Len(trees')
            /\ trees' # << >> \/ (trees' = trees /\ inode' = cut)
            /\ inode' \in Inode \cup {Nil} /\ dirty' \subseteq Idx
            /\ IF inode' = Nil THEN dirty' = {} ELSE \A k \in dirty' : inode'.blocks[k] # Nil
        BY <3>1, <3>2, ShdwType
      <3>4. TreesInv'
        BY <3>2, <3>3, VisitsStay DEF TypeInv
      <3> QED BY <3>1, <3>2, <3>3, <3>4 DEF TypeInv, Begun
    <2> QED BY <1>1, <2>2, <2>3, <2>4
  <1>4. ASSUME NEW buf \in Bufs, NEW offset \in 0..MaxLen, write_unloaded(buf, offset)
        PROVE  LInv' /\ call' = Nil
    <2>1. inode = Nil /\ call' = Nil /\ sound' = FALSE /\ flush_to_shdw(Nil)
          /\ UNCHANGED <<has_changed, visit>> /\ file' = Overlay(file, buf, offset)
      BY <1>4 DEF write_unloaded, Ready, Current
    <2>2. /\ TreesOK(trees') /\ Len(trees) <= Len(trees')
          /\ trees' # << >> \/ (trees' = trees /\ inode' = Nil)
          /\ inode' \in Inode \cup {Nil} /\ dirty' \subseteq Idx
          /\ IF inode' = Nil THEN dirty' = {} ELSE \A k \in dirty' : inode'.blocks[k] # Nil
      BY <1>0, <2>1, ShdwType
    <2>3. TreesInv'
      BY <2>1, <2>2, VisitsStay DEF TypeInv
    <2>4. file' \in Seq(Bytes)
      <3>1. buf \in Seq(Bytes) /\ offset \in Nat /\ file \in Seq(Bytes)
        BY BufFacts, SizeNat DEF TypeInv
      <3> QED BY <2>1, <3>1, OverlayFacts
    <2>5. Begun'
      BY <2>1, <2>2 DEF Begun
    <2> QED BY <1>1, <2>1, <2>2, <2>3, <2>4, <2>5 DEF TypeInv
  <1>5. CASE zippyfs_open
    <2>1. inode = Nil /\ inode' = Loaded /\ call' = Nil /\ sound' \in BOOLEAN
          /\ UNCHANGED <<dirty, has_changed, trees, visit, file>>
      BY <1>5 DEF zippyfs_open, Ready
    <2>2. Loaded \in Inode \cup {Nil} /\ dirty = {}
      BY <2>1, LoadedType DEF TypeInv, DirtyHeld
    <2>3. TreesInv' /\ Begun'
      BY <2>1 DEF TypeInv, TreesInv, Begun
    <2> QED BY <1>1, <2>1, <2>2, <2>3 DEF TypeInv
  <1>6. CASE flush_by_others
    <2>1. flush_to_disk(inode) /\ call' = Nil /\ UNCHANGED <<has_changed, visit, file, sound>>
      BY <1>6 DEF flush_by_others, Ready
    <2>2. /\ TreesOK(trees') /\ Len(trees) <= Len(trees') /\ trees' # << >>
          /\ inode' = Nil /\ dirty' = {}
      BY <1>0, <2>1, FlushType
    <2>3. TreesInv'
      BY <2>1, <2>2, VisitsStay DEF TypeInv
    <2> QED BY <1>1, <2>1, <2>2, <2>3 DEF TypeInv, Begun
  <1>7. CASE zippyfs_readdir
    <2>1. /\ call' = Nil /\ visit' \in Orders(Len(trees))
          /\ UNCHANGED <<inode, dirty, has_changed, trees, file, sound>>
      BY <1>7 DEF zippyfs_readdir, Ready
    <2>2. TreesInv'
      BY <2>1, OrderVisits DEF TypeInv, TreesInv
    <2> QED BY <1>0, <1>1, <2>1, <2>2 DEF TypeInv, Begun, DirtyHeld
  <1>8. CASE remount
    <2>1. /\ call' = Nil /\ has_changed' = FALSE /\ UNCHANGED <<file, sound>>
          /\ visit' \in Orders(Len(trees'))
          /\ \/ flush_to_disk(inode)
             \/ (inode # Nil => ~has_changed) /\ inode' = Nil /\ dirty' = {} /\ trees' = trees
      BY <1>8 DEF remount, Ready
    <2>2. TreesOK(trees') /\ trees' # << >> /\ inode' = Nil /\ dirty' = {}
      <3>1. CASE flush_to_disk(inode)
        BY <1>0, <3>1, FlushType
      <3>2. CASE (inode # Nil => ~has_changed) /\ inode' = Nil /\ dirty' = {} /\ trees' = trees
        BY <3>2 DEF TypeInv, TreesInv, Begun
      <3> QED BY <2>1, <3>1, <3>2
    <2>3. TreesInv'
      BY <2>1, <2>2, OrderVisits
    <2> QED BY <1>1, <2>1, <2>2, <2>3 DEF TypeInv, Begun
  <1> QED BY <1>2, <1>3, <1>4, <1>5, <1>6, <1>7, <1>8

\* The file is made empty.
LEMMA InitLInv == Init => LInv
  <1> SUFFICES ASSUME Init PROVE LInv
    OBVIOUS
  <1>1. TreesInv
    <2>1. trees = << >> /\ visit = << >>
      BY DEF Init
    <2>2. TreesOK(trees)
      BY <2>1 DEF TreesOK, Stamped
    <2>3. Visits(visit, trees)
      BY <2>1 DEF Visits
    <2> QED BY <2>2, <2>3 DEF TreesInv
  <1> QED BY <1>1, NewInodeType, BlockIONil DEF Init, LInv, TypeInv, DirtyHeld, Begun, Loop

\* Every request and every turn of the loop keeps the invariant of the loop.
LEMMA NextLInv == LInv /\ [Next]_vars => LInv'
  <1> SUFFICES ASSUME LInv, [Next]_vars PROVE LInv'
    OBVIOUS
  <1>1. CASE UNCHANGED vars
    BY <1>1 DEF vars, LInv, TypeInv, TreesInv, DirtyHeld, Begun, Loop, Used
  <1>2. CASE Next
    BY <1>2, LoopBegin, LoopTurn, LoopIdle DEF Next
  <1> QED BY <1>1, <1>2

\* When the loop is done it has done enough blocks for the whole buffer.
LEMMA LoopEnds == LInv => WriteUsesBuffer
  <1> SUFFICES ASSUME LInv, call # Nil, call.block_idx >= write_num_blocks
               PROVE  Used(call) = Len(call.buf)
    BY DEF WriteUsesBuffer, Used
  <1> DEFINE k == call.block_idx
             s == Len(call.buf)
             f == call.offset \div SIZE
             o == call.offset
             n == k - f
  <1>1. call \in Call
    BY DEF LInv, TypeInv
  <1>2. call.buf \in Bufs /\ o \in Nat /\ k \in Nat /\ s \in Nat
    BY <1>1, BufFacts DEF Call
  <1>3. f \in Nat /\ o % SIZE \in Nat /\ o = f * SIZE + (o % SIZE) /\ o % SIZE < SIZE
    BY <1>2, DivMod
  <1>4. /\ f <= k /\ Used(call) \in Nat /\ Used(call) <= s
        /\ Used(call) = n * SIZE \/ (Used(call) = s /\ s <= n * SIZE)
    BY <1>1 DEF LInv, Loop, Used, Call
  <1>5. s + o <= k * SIZE
    <2>1. s + o \in Nat /\ ~(k < ulong_ceil(s + o, SIZE))
      <3> HIDE DEF s, o
      <3>1. s + o \in Nat
        BY <1>2
      <3>2. ulong_ceil(s + o, SIZE) \in Nat
        BY <3>1, CeilFacts
      <3> QED BY <1>2, <3>1, <3>2 DEF write_num_blocks, s, o
    <2>2. ~(k * SIZE < s + o)
      BY <1>2, <2>1, CeilFacts
    <2>3. k * SIZE \in Nat
      BY <1>2, Times
    <2> QED BY <2>1, <2>2, <2>3
  <1>6. n \in Nat /\ n * SIZE \in Nat /\ f * SIZE \in Nat /\ k * SIZE = n * SIZE + f * SIZE
    <2>1. n \in Nat /\ k = n + f
      BY <1>2, <1>3, <1>4
    <2> HIDE DEF n, f, k
    <2> QED BY <1>3, <2>1, SizeNat
  <1>7. s <= n * SIZE
    <2> HIDE DEF n, f, k, s, o
    <2> QED BY <1>2, <1>3, <1>5, <1>6
  <1> HIDE DEF n, s
  <1> QED BY <1>2, <1>4, <1>6, <1>7 DEF s

\* For every block size, every buffer and every offset, handled or not, the
\* loop of BlockCache::write uses exactly the bytes of the buffer: its
\* assertion at block_cache.cpp:240 never fails.
THEOREM WriteUsesItsBuffer == Spec => []WriteUsesBuffer
  BY InitLInv, NextLInv, LoopEnds, PTL DEF Spec
-----------------------------------------------------------------------------
(* What the blocks hold.                                                   *)

\* The bytes in use of every block.
Content(ino) == [k \in Idx |-> IF ino.blocks[k] = Nil THEN Nil ELSE get_data(ino.blocks[k])]

Contents == [Idx -> Seq(Bytes) \cup {Nil}]

\* The byte at address i.
Held(c, i) ==
  /\ i \div SIZE \in Idx
  /\ c[i \div SIZE] # Nil /\ i % SIZE < Len(c[i \div SIZE])

Byte(c, i) == c[i \div SIZE][(i % SIZE) + 1]

\* Every block but the last is there and full, and none is longer than its
\* array.
Full(c) == \A j, k \in Idx : j < k /\ c[k] # Nil => c[j] # Nil /\ Len(c[j]) = SIZE

Fits(c) == \A k \in Idx : c[k] # Nil => Len(c[k]) <= SIZE

\* The byte at address i is still to be stored.
Pending(i) ==
  /\ call # Nil
  /\ call.offset <= i /\ i < call.offset + Len(call.buf)
  /\ call.block_idx <= i \div SIZE

\* The blocks hold the bytes of the file.
Stored(c, size) ==
  /\ size = Len(file)
  /\ \A i \in 0..(size - 1) : Pending(i) \/ (Held(c, i) /\ Byte(c, i) = file[i + 1])

\* What is not dirty is on disk as it is in the cache.
Agrees == inode # Nil => \A k \in Idx \ dirty : disk.blocks[k] = Content(inode)[k]

\* What the request still has to do is something the loop handles.
Ahead ==
  call # Nil =>
    /\ call.offset + Len(call.buf) <= Len(file)
    /\ \A i \in 1..Len(call.buf) : file[call.offset + i] = call.buf[i]
    /\ \/ call.block_idx >= write_num_blocks
       \/ ~call.offsetted /\ (call.offset % SIZE) + Len(call.buf) <= SIZE
       \/ /\ call.offset % SIZE = 0
          /\ \A k \in Idx :
               k > call.offset \div SIZE /\ k >= call.block_idx /\ k < write_num_blocks
                 => inode.blocks[k] = Nil

\* What an unmount would drop is on disk as it is.
Steady == call = Nil /\ inode # Nil /\ ~has_changed => dirty = {} /\ disk.size = inode.size

Kept ==
  /\ Full(Content(Cur)) /\ Fits(Content(Cur))
  /\ Stored(Content(Cur), Cur.size)
  /\ Agrees /\ Steady /\ Ahead

SInv == LInv /\ (sound => Kept)

\* The contents of an inode, block by block.
LEMMA ContentFacts ==
  ASSUME NEW ino \in Inode
  PROVE  /\ Content(ino) \in Contents
         /\ \A k \in Idx :
              /\ Content(ino)[k] = Nil <=> ino.blocks[k] = Nil
              /\ ino.blocks[k] # Nil => /\ Content(ino)[k] = get_data(ino.blocks[k])
                                        /\ Len(Content(ino)[k]) = ino.blocks[k].actual_size
  <1>1. \A k \in Idx : ino.blocks[k] \in Block \cup {Nil}
    BY DEF Inode
  <1>2. \A k \in Idx : ino.blocks[k] # Nil =>
          /\ get_data(ino.blocks[k]) \in Seq(Bytes) /\ get_data(ino.blocks[k]) # Nil
          /\ Len(get_data(ino.blocks[k])) = ino.blocks[k].actual_size
    BY <1>1, GetDataType, BlockIONil
  <1> QED BY <1>2 DEF Content, Contents

\* What insert_data makes of the bytes of a block.
LEMMA InsertData ==
  ASSUME NEW blk \in Block, NEW data \in Seq(Bytes), NEW n \in Nat, n <= Len(data),
         NEW offset \in Nat, n + offset <= SIZE, blk.actual_size <= SIZE
  PROVE  LET new == get_data(insert_data(blk, data, n, offset))
             old == get_data(blk)
         IN  /\ Len(new) = IF n + offset > Len(old) THEN n + offset ELSE Len(old)
             /\ Len(new) <= SIZE
             /\ \A x \in Nat :
                  /\ x >= offset /\ x - offset < n => new[x + 1] = data[x - offset + 1]
                  /\ x < Len(old) /\ ~(x >= offset /\ x - offset < n) => new[x + 1] = old[x + 1]
  <1> DEFINE b == insert_data(blk, data, n, offset)
             new == get_data(b)
             old == get_data(blk)
  <1>1. b \in Block
    BY InsertType
  <1>2. /\ Len(new) = b.actual_size /\ Len(old) = blk.actual_size /\ blk.actual_size \in Nat
        /\ \A i \in 1..b.actual_size : new[i] = IF i <= SIZE THEN b.data[i - 1] ELSE Junk
        /\ \A i \in 1..blk.actual_size : old[i] = IF i <= SIZE THEN blk.data[i - 1] ELSE Junk
    BY <1>1, GetDataType DEF get_data, Block
  <1>3. /\ b.actual_size = IF n + offset > blk.actual_size THEN n + offset ELSE blk.actual_size
        /\ \A i \in 0..(SIZE - 1) :
             b.data[i] = IF i >= offset /\ i - offset < n THEN data[i - offset + 1] ELSE blk.data[i]
    BY DEF insert_data
  <1> HIDE DEF b, new, old
  <1>4. ASSUME NEW x \in Nat, x >= offset, x - offset < n PROVE new[x + 1] = data[x - offset + 1]
    <2>1. x \in 0..(SIZE - 1) /\ x + 1 \in 1..b.actual_size /\ x + 1 <= SIZE /\ (x + 1) - 1 = x
      BY <1>2, <1>3, <1>4, SizeNat
    <2>2. new[x + 1] = b.data[(x + 1) - 1]
      BY <1>2, <2>1
    <2> QED BY <1>3, <1>4, <2>1, <2>2
  <1>5. ASSUME NEW x \in Nat, x < Len(old), ~(x >= offset /\ x - offset < n)
        PROVE  new[x + 1] = old[x + 1]
    <2>1. /\ x \in 0..(SIZE - 1) /\ x + 1 \in 1..b.actual_size /\ x + 1 \in 1..blk.actual_size
          /\ x + 1 <= SIZE /\ (x + 1) - 1 = x
      BY <1>2, <1>3, <1>5, SizeNat
    <2>2. new[x + 1] = b.data[(x + 1) - 1] /\ old[x + 1] = blk.data[(x + 1) - 1]
      BY <1>2, <2>1
    <2> QED BY <1>3, <1>5, <2>1, <2>2
  <1>6. Len(new) = (IF n + offset > Len(old) THEN n + offset ELSE Len(old)) /\ Len(new) <= SIZE
    BY <1>2, <1>3, SizeNat
  <1> QED BY <1>4, <1>5, <1>6 DEF new, old, b

\* Loading gives back the bytes that were flushed, if they fit.
LEMMA LoadContent ==
  ASSUME NEW d \in DiskInode
  PROVE  /\ LoadedInode(d) \in Inode /\ LoadedInode(d).size = d.size
         /\ Fits(Content(LoadedInode(d))) => Content(LoadedInode(d)) = d.blocks
         /\ Fits(d.blocks) => Content(LoadedInode(d)) = d.blocks
  <1> DEFINE c == Content(LoadedInode(d))
             loaded(k) == insert_data(EmptyBlock, d.blocks[k], Len(d.blocks[k]), 0)
  <1>1. d.blocks \in Contents /\ d.size \in Nat
    BY DEF DiskInode, Contents
  <1>2. ASSUME NEW k \in Idx, d.blocks[k] # Nil
        PROVE  d.blocks[k] \in Seq(Bytes) /\ loaded(k) \in Block /\ loaded(k) # Nil
    <2>1. d.blocks[k] \in Seq(Bytes)
      BY <1>1, <1>2 DEF Contents
    <2>2. loaded(k) \in Block
      BY <2>1, EmptyType, InsertType
    <2> QED BY <2>1, <2>2, BlockIONil
  <1>3. \A k \in Idx : LoadedInode(d).blocks[k] = IF d.blocks[k] = Nil THEN Nil ELSE loaded(k)
    BY DEF LoadedInode
  <1> HIDE DEF loaded
  <1>4. LoadedInode(d) \in Inode /\ LoadedInode(d).size = d.size
    BY <1>1, <1>2 DEF LoadedInode, Inode, loaded
  <1>5. c \in Contents /\ \A k \in Idx : c[k] = IF d.blocks[k] = Nil THEN Nil ELSE get_data(loaded(k))
    BY <1>2, <1>3, <1>4, ContentFacts
  <1>6. ASSUME NEW k \in Idx, d.blocks[k] # Nil
        PROVE  /\ Len(c[k]) = Len(d.blocks[k])
               /\ Len(d.blocks[k]) <= SIZE => c[k] = d.blocks[k]
    <2> DEFINE bytes == d.blocks[k]
    <2>1. bytes \in Seq(Bytes) /\ Len(bytes) \in Nat /\ loaded(k) \in Block
      BY <1>2, <1>6
    <2>2. loaded(k).actual_size = Len(bytes)
      BY <2>1 DEF loaded, insert_data, EmptyBlock
    <2>3. c[k] = get_data(loaded(k)) /\ c[k] \in Seq(Bytes) /\ Len(c[k]) = Len(bytes)
      BY <1>5, <1>6, <2>1, <2>2, GetDataType
    <2>4. ASSUME Len(bytes) <= SIZE, NEW i \in 1..Len(bytes) PROVE c[k][i] = bytes[i]
      <3>1. i - 1 \in 0..(SIZE - 1) /\ i <= SIZE /\ i - 1 >= 0 /\ (i - 1) - 0 < Len(bytes)
            /\ (i - 1) - 0 + 1 = i
        BY <2>1, <2>4, SizeNat
      <3>2. c[k][i] = loaded(k).data[i - 1]
        BY <2>2, <2>3, <2>4, <3>1 DEF get_data
      <3>3. loaded(k).data[i - 1] = bytes[(i - 1) - 0 + 1]
        BY <3>1 DEF loaded, insert_data
      <3> QED BY <3>1, <3>2, <3>3
    <2>5. Len(bytes) <= SIZE => c[k] = bytes
      <3> HIDE DEF c, bytes
      <3> QED BY <2>1, <2>3, <2>4
    <2> QED BY <2>3, <2>5
  <1> HIDE DEF c
  <1>7. ASSUME \A k \in Idx : d.blocks[k] # Nil => Len(d.blocks[k]) <= SIZE PROVE c = d.blocks
    <2>1. \A k \in Idx : c[k] = d.blocks[k]
      BY <1>5, <1>6, <1>7
    <2> QED BY <1>1, <1>5, <2>1 DEF Contents
  <1>8. \A k \in Idx : d.blocks[k] # Nil => c[k] # Nil
    BY <1>2, <1>5, GetDataType, BlockIONil
  <1>9. Fits(c) => c = d.blocks
    BY <1>6, <1>7, <1>8 DEF Fits
  <1>10. Fits(d.blocks) => c = d.blocks
    BY <1>7 DEF Fits
  <1> QED BY <1>4, <1>9, <1>10 DEF c

\* A flush keeps the bytes of every block, dirty or not, and the length.
LEMMA FlushKeeps ==
  ASSUME TypeInv, NEW ino \in Inode, \A k \in dirty : ino.blocks[k] # Nil, flush_to_disk(ino),
         Fits(Content(ino)), \A k \in Idx \ dirty : disk.blocks[k] = Content(ino)[k]
  PROVE  /\ inode' = Nil
         /\ Cur' \in Inode /\ Content(Cur') = Content(ino) /\ Cur'.size = ino.size
  <1>0. Writable(ino) /\ ino # Nil
    BY BlockIONil DEF Writable
  <1>1. /\ disk' \in DiskInode /\ inode' = Nil /\ disk'.size = ino.size
        /\ \A k \in Idx : disk'.blocks[k] = IF k \in dirty THEN get_data(ino.blocks[k])
                                             ELSE disk.blocks[k]
    BY <1>0, FlushType
  <1>2. disk'.blocks = Content(ino)
    <2>1. Content(ino) \in Contents /\ \A k \in dirty : k \in Idx /\ Content(ino)[k] = get_data(ino.blocks[k])
      BY ContentFacts DEF TypeInv
    <2>2. \A k \in Idx : disk'.blocks[k] = Content(ino)[k]
      BY <1>1, <2>1
    <2>3. disk'.blocks \in Contents
      BY <1>1 DEF DiskInode, Contents
    <2> QED BY <2>1, <2>2, <2>3 DEF Contents
  <1>3. Cur' = LoadedInode(disk')
    BY <1>1 DEF Cur
  <1> QED BY <1>1, <1>2, <1>3, LoadContent

\* So does the end of a request, flushing or not.
LEMMA ShdwKeeps ==
  ASSUME TypeInv, NEW ino \in Inode, \A k \in dirty : ino.blocks[k] # Nil, flush_to_shdw(ino),
         Fits(Content(ino)), \A k \in Idx \ dirty : disk.blocks[k] = Content(ino)[k]
  PROVE  /\ Content(Cur') = Content(ino) /\ Cur'.size = ino.size
         /\ Agrees'
  <1>1. CASE inode' = ino /\ UNCHANGED <<dirty, trees>>
    <2>1. Cur' = ino /\ inode' # Nil /\ disk' = disk
      BY <1>1, BlockIONil DEF Cur, disk
    <2> QED BY <1>1, <2>1 DEF Agrees
  <1>2. CASE flush_to_disk(ino)
    BY <1>2, FlushKeeps DEF Agrees
  <1> QED BY <1>1, <1>2 DEF flush_to_shdw

\* The bytes of a file that is not in the cache are the ones on disk.
LEMMA UncachedContent ==
  ASSUME TypeInv, inode = Nil, Fits(Content(Cur))
  PROVE  Content(Cur) = disk.blocks /\ Cur.size = disk.size
  <1>1. Cur = LoadedInode(disk) /\ disk \in DiskInode
    BY DiskIs DEF Cur
  <1> QED BY <1>1, LoadContent

\* Between requests: what has to hold of the blocks and the file.
LEMMA KeptIdle ==
  ASSUME call' = Nil, NEW c, Content(Cur') = c, Full(c), Fits(c), Agrees', Steady',
         Cur'.size = Len(file'),
         \A i \in 0..(Len(file') - 1) : Held(c, i) /\ Byte(c, i) = file'[i + 1]
  PROVE  Kept'
  <1>1. Full(Content(Cur))' /\ Fits(Content(Cur))'
    BY DEF Full, Fits, Content
  <1>2. Stored(Content(Cur), Cur.size)'
    BY DEF Stored, Held, Byte, Content
  <1>3. Ahead'
    BY DEF Ahead
  <1> QED BY <1>1, <1>2, <1>3 DEF Kept

\* The loop ends when no byte is left to be stored.
LEMMA NoneLeft ==
  ASSUME LInv, call # Nil, call.block_idx >= write_num_blocks, NEW i \in Nat
  PROVE  ~Pending(i)
  <1> SUFFICES ASSUME Pending(i) PROVE FALSE
    OBVIOUS
  <1> DEFINE n == Len(call.buf) + call.offset
             d == i \div SIZE
  <1>1. n \in Nat /\ call.block_idx \in Nat /\ i < n /\ call.block_idx <= d
    BY BufFacts DEF LInv, TypeInv, Call, Pending
  <1>2. d \in Nat /\ i % SIZE \in Nat /\ i = d * SIZE + (i % SIZE)
    BY DivMod
  <1>3. write_num_blocks = ulong_ceil(n, SIZE)
    BY DEF write_num_blocks
  <1> HIDE DEF n, d
  <1>4. write_num_blocks \in Nat /\ (d < write_num_blocks <=> d * SIZE < n)
    BY <1>1, <1>2, <1>3, CeilFacts
  <1>5. d * SIZE \in Nat
    BY <1>2, Times
  <1> QED BY <1>1, <1>2, <1>4, <1>5

\* The requests between which nothing is left to be stored.
LEMMA KeptReturn ==
  ASSUME SInv, sound', write_return
  PROVE  Kept'
  <1>1. /\ LInv /\ TypeInv /\ Kept /\ call # Nil /\ inode # Nil /\ inode \in Inode /\ Cur = inode
        /\ file' = file /\ call' = Nil /\ flush_to_shdw(inode)
        /\ \A k \in dirty : inode.blocks[k] # Nil
    BY DEF SInv, write_return, LInv, TypeInv, Loop, Cur, DirtyHeld
  <1>2. /\ Full(Content(inode)) /\ Fits(Content(inode)) /\ inode.size = Len(file)
        /\ \A k \in Idx \ dirty : disk.blocks[k] = Content(inode)[k]
    BY <1>1 DEF Kept, Stored, Agrees
  <1>3. Len(file) \in Nat
    BY <1>1 DEF TypeInv
  <1>4. \A i \in 0..(Len(file) - 1) : Held(Content(inode), i) /\ Byte(Content(inode), i) = file[i + 1]
    <2>1. \A i \in 0..(Len(file) - 1) : i \in Nat
      BY <1>3
    <2>2. call.block_idx >= write_num_blocks
      BY DEF write_return
    <2> QED BY <1>1, <1>2, <2>1, <2>2, NoneLeft DEF Kept, Stored
  <1>5. Content(Cur') = Content(inode) /\ Cur'.size = inode.size /\ Agrees'
    BY <1>1, <1>2, ShdwKeeps
  <1>6. Steady'
    BY DEF write_return, Steady
  <1> QED BY <1>1, <1>2, <1>4, <1>5, <1>6, KeptIdle

\* A handled truncate keeps the file and its inode together.
LEMMA KeptTruncate ==
  ASSUME SInv, sound', NEW n \in 0..MaxLen, zippyfs_truncate(n)
  PROVE  Kept'
  <1> DEFINE cut == [inode EXCEPT !.size = n]
             o == Overlay(file, << >>, n)
  <1>1. /\ LInv /\ TypeInv /\ Kept /\ call = Nil /\ inode # Nil /\ inode \in Inode /\ Cur = inode
        /\ call' = Nil /\ flush_to_shdw(cut) /\ n <= inode.size /\ file' = SubSeq(o, 1, n)
        /\ \A k \in dirty : inode.blocks[k] # Nil
    BY DEF SInv, zippyfs_truncate, Ready, LInv, TypeInv, Cur, DirtyHeld
  <1>2. /\ Full(Content(inode)) /\ Fits(Content(inode)) /\ inode.size = Len(file)
        /\ \A k \in Idx \ dirty : disk.blocks[k] = Content(inode)[k]
        /\ \A i \in 0..(Len(file) - 1) : Held(Content(inode), i) /\ Byte(Content(inode), i) = file[i + 1]
    BY <1>1 DEF Kept, Stored, Agrees, Pending
  <1>3. n \in Nat /\ file \in Seq(Bytes) /\ Len(file) \in Nat /\ n <= Len(file)
    BY <1>1, <1>2, SizeNat DEF TypeInv
  <1>4. cut \in Inode /\ cut.blocks = inode.blocks /\ cut.size = n
    BY <1>1, <1>3, SetSize
  <1> HIDE DEF cut
  <1>5. Content(cut) = Content(inode)
    BY <1>4 DEF Content
  <1>6. Content(Cur') = Content(inode) /\ Cur'.size = n /\ Agrees'
    BY <1>1, <1>2, <1>4, <1>5, ShdwKeeps
  <1>7. Len(file') = n /\ \A i \in 1..n : file'[i] = file[i]
    <2> DEFINE e == << >>
    <2>1. e \in Seq(Bytes) /\ Len(e) = 0
      OBVIOUS
    <2> HIDE DEF e
    <2>2. /\ Overlay(file, e, n) \in Seq(Bytes)
          /\ Len(Overlay(file, e, n)) = IF Len(file) > n + Len(e) THEN Len(file) ELSE n + Len(e)
          /\ \A i \in 1..Len(Overlay(file, e, n)) :
               Overlay(file, e, n)[i] = IF i > n /\ i <= n + Len(e) THEN e[i - n]
                                        ELSE IF i <= Len(file) THEN file[i] ELSE Zero
      BY <1>3, <2>1, OverlayFacts, Zenon
    <2>3. o \in Seq(Bytes) /\ Len(o) = Len(file) /\ \A i \in 1..n : o[i] = file[i]
      <3>1. n + Len(e) = n
        BY <1>3, <2>1
      <3> QED BY <1>3, <2>2, <3>1 DEF e
    <2> HIDE DEF o
    <2>4. Len(SubSeq(o, 1, n)) = n /\ \A i \in 1..n : SubSeq(o, 1, n)[i] = o[i]
      BY <1>3, <2>3
    <2> QED BY <1>1, <2>3, <2>4
  <1>8. \A i \in 0..(n - 1) : i \in 0..(Len(file) - 1) /\ i + 1 \in 1..n
    BY <1>3
  <1>9. \A i \in 0..(Len(file') - 1) : Held(Content(inode), i) /\ Byte(Content(inode), i) = file'[i + 1]
    BY <1>2, <1>7, <1>8
  <1>10. Steady'
    BY <1>1 DEF zippyfs_truncate, Steady
  <1> QED BY <1>1, <1>2, <1>6, <1>7, <1>9, <1>10, KeptIdle

\* So do a reload, a listing, a flush that somebody else causes, and an
\* unmount.
LEMMA KeptOpen ==
  ASSUME SInv, sound', zippyfs_open \/ flush_by_others \/ zippyfs_readdir \/ remount
  PROVE  Kept'
  <1>1. /\ LInv /\ TypeInv /\ Kept /\ call = Nil /\ call' = Nil /\ file' = file /\ Cur \in Inode
    BY CurType DEF SInv, LInv, zippyfs_open, flush_by_others, zippyfs_readdir, remount, Ready
  <1>2. /\ Full(Content(Cur)) /\ Fits(Content(Cur)) /\ Cur.size = Len(file)
        /\ \A i \in 0..(Len(file) - 1) :
             Held(Content(Cur), i) /\ Byte(Content(Cur), i) = file[i + 1]
    BY <1>1 DEF Kept, Stored, Pending
  <1>3. ASSUME flush_to_disk(inode)
        PROVE  Content(Cur') = Content(Cur) /\ Cur'.size = Cur.size /\ inode' = Nil
    <2>1. CASE inode # Nil
      <3>1. /\ inode \in Inode /\ Cur = inode /\ \A k \in dirty : inode.blocks[k] # Nil
        BY <1>1, <2>1 DEF Cur, LInv, TypeInv, DirtyHeld
      <3>2. \A k \in Idx \ dirty : disk.blocks[k] = Content(inode)[k]
        BY <1>1, <2>1 DEF Kept, Agrees
      <3> QED BY <1>1, <1>2, <1>3, <3>1, <3>2, FlushKeeps
    <2>2. CASE inode = Nil
      <3>1. Writable(inode)
        BY <1>1, <2>2 DEF Writable, LInv, DirtyHeld
      <3>2. disk' = disk /\ inode' = Nil
        BY <1>1, <1>3, <2>2, <3>1, FlushType
      <3> QED BY <2>2, <3>2 DEF Cur
    <2> QED BY <2>1, <2>2
  <1>4. Content(Cur') = Content(Cur) /\ Cur'.size = Cur.size /\ Agrees' /\ Steady'
    <2>1. CASE zippyfs_open
      <3>1. inode = Nil /\ inode' = Loaded /\ trees' = trees /\ dirty' = dirty /\ Complete /\ dirty = {}
        BY <1>1, <2>1 DEF zippyfs_open, LInv, DirtyHeld
      <3>2. Loaded = LoadedInode(disk) /\ Loaded # Nil
        BY <1>1, <3>1, LoadedIs DEF LInv, TypeInv, Begun
      <3>3. Cur = LoadedInode(disk) /\ Cur' = Cur /\ inode' = Cur /\ disk' = disk
        BY <3>1, <3>2 DEF Cur, disk
      <3>4. Content(Cur) = disk.blocks /\ Cur.size = disk.size
        BY <1>1, <1>2, <3>1, UncachedContent
      <3> QED BY <3>1, <3>3, <3>4 DEF Agrees, Steady
    <2>2. CASE flush_by_others
      <3>1. flush_to_disk(inode)
        BY <2>2 DEF flush_by_others
      <3> QED BY <1>3, <3>1 DEF Agrees, Steady
    <2>3. CASE zippyfs_readdir
      <3>1. UNCHANGED <<inode, dirty, has_changed, trees, call>>
        BY <2>3 DEF zippyfs_readdir
      <3>2. disk' = disk
        BY <3>1 DEF disk
      <3> QED BY <1>1, <3>1, <3>2 DEF Cur, Kept, Agrees, Steady, Content
    <2>4. CASE remount
      <3>1. CASE flush_to_disk(inode)
        BY <1>3, <3>1 DEF Agrees, Steady
      <3>2. CASE (inode # Nil => ~has_changed) /\ inode' = Nil /\ dirty' = {} /\ trees' = trees
        <4>1. disk' = disk /\ Cur' = LoadedInode(disk) /\ disk \in DiskInode
          BY <1>1, <3>2, DiskIs DEF Cur, disk
        <4>2. Agrees' /\ Steady'
          BY <3>2 DEF Agrees, Steady
        <4>3. CASE inode = Nil
          BY <4>1, <4>2, <4>3 DEF Cur
        <4>4. CASE inode # Nil
          <5>1. Cur = inode /\ inode \in Inode
            BY <1>1, <4>4 DEF Cur, TypeInv
          <5>2. dirty = {} /\ disk.size = inode.size /\ \A k \in Idx : disk.blocks[k] = Content(inode)[k]
            BY <1>1, <3>2, <4>4 DEF Kept, Agrees, Steady
          <5>3. disk.blocks \in Contents /\ Content(inode) \in Contents
            BY <4>1, <5>1, ContentFacts DEF DiskInode, Contents
          <5>4. disk.blocks = Content(inode)
            BY <5>2, <5>3 DEF Contents
          <5> QED BY <1>2, <4>1, <4>2, <5>1, <5>2, <5>4, LoadContent
        <4> QED BY <4>3, <4>4
      <3> QED BY <2>4, <3>1, <3>2 DEF remount
    <2> QED BY <2>1, <2>2, <2>3, <2>4
  <1> QED BY <1>1, <1>2, <1>4, KeptIdle

\* A request that the loop handles: its bytes are those left to be stored.
LEMMA KeptBegin ==
  ASSUME SInv, sound', NEW buf \in Bufs, NEW offset \in 0..MaxLen, zippyfs_write(buf, offset)
  PROVE  Kept'
  <1> DEFINE c == Content(Cur)
             f == offset \div SIZE
             s == Len(buf)
             n == Len(file)
  <1>1. /\ LInv /\ TypeInv /\ Kept /\ call = Nil /\ Cur \in Inode
        /\ Handled(Cur, s, offset) /\ dirty' = dirty /\ disk' = disk /\ Current = Cur
        /\ file' = Overlay(file, buf, offset)
        /\ call' = [buf |-> buf, offset |-> offset, block_idx |-> f,
                    curr_idx |-> 0, block_size |-> 0, offsetted |-> FALSE]
    <2>1. LInv /\ TypeInv /\ Begun /\ (inode = Nil => Complete)
      BY DEF SInv, LInv, zippyfs_write
    <2>2. Current = Cur
      BY <2>1, CurrentIs
    <2>3. Handled(Current, s, offset) /\ UNCHANGED <<dirty, trees>>
      BY DEF zippyfs_write
    <2> QED BY <2>1, <2>2, <2>3, CurType DEF SInv, zippyfs_write, Ready, disk
  <1>2. /\ Full(c) /\ Fits(c) /\ Cur.size = n
        /\ \A i \in 0..(n - 1) : Held(c, i) /\ Byte(c, i) = file[i + 1]
    BY <1>1 DEF Kept, Stored, Pending
  <1>3. buf \in Seq(Bytes) /\ s \in Nat /\ s >= 1 /\ offset \in Nat /\ file \in Seq(Bytes) /\ n \in Nat
    BY <1>1, BufFacts, SizeNat DEF TypeInv
  <1>4. /\ inode' \in Inode /\ inode'.blocks = Cur.blocks
        /\ inode'.size = IF n < offset + s THEN offset + s ELSE n
        /\ inode' # Nil /\ Cur' = inode' /\ call' # Nil
    BY <1>1, <1>2, LoopBegin, BlockIONil DEF Cur
  <1>5. Content(Cur') = c
    BY <1>4 DEF Content
  <1>6. offset <= n
    BY <1>1, <1>2 DEF Handled
  <1> DEFINE m == Len(file')
  <1>7. /\ m = IF n > offset + s THEN n ELSE offset + s
        /\ \A i \in 1..m : file'[i] = IF i > offset /\ i <= offset + s THEN buf[i - offset]
                                      ELSE IF i <= n THEN file[i] ELSE Zero
    BY <1>1, <1>3, OverlayFacts, Zenon
  <1>8. Cur'.size = m
    <2>1. Cur'.size = inode'.size
      BY <1>4
    <2> HIDE DEF n, m, s
    <2>2. inode'.size = IF n < offset + s THEN offset + s ELSE n
      BY <1>4
    <2>3. m = IF n > offset + s THEN n ELSE offset + s
      BY <1>7
    <2>4. n \in Nat /\ offset \in Nat /\ s \in Nat
      BY <1>3
    <2>5. (IF n < offset + s THEN offset + s ELSE n) = IF n > offset + s THEN n ELSE offset + s
      BY <2>4
    <2> QED BY <2>1, <2>2, <2>3, <2>5
  <1>9. ASSUME NEW i \in 0..(m - 1)
        PROVE  Pending(i)' \/ (Held(c, i) /\ Byte(c, i) = file'[i + 1])
    <2>1. i \in Nat /\ i + 1 \in 1..m /\ i < m /\ m \in Nat
      BY <1>3, <1>7
    <2>2. CASE offset <= i /\ i < offset + s
      <3>1. f <= i \div SIZE
        <4> DEFINE d == i \div SIZE
        <4>1. /\ f \in Nat /\ offset % SIZE \in Nat /\ offset = f * SIZE + (offset % SIZE)
              /\ d \in Nat /\ i % SIZE \in Nat /\ i = d * SIZE + (i % SIZE) /\ i % SIZE < SIZE
          BY <1>3, <2>1, DivMod
        <4> HIDE DEF f, d
        <4>2. /\ f * SIZE \in Nat /\ d * SIZE \in Nat
              /\ d < f => d * SIZE + SIZE <= f * SIZE
          BY <4>1, Times
        <4>3. ~(d < f)
          BY <1>3, <2>1, <2>2, <4>1, <4>2, SizeNat
        <4> QED BY <4>1, <4>3 DEF d
      <3>2. call'.block_idx = f /\ call'.offset = offset /\ call'.buf = buf
        BY <1>1
      <3> HIDE DEF f
      <3> QED BY <1>4, <2>2, <3>1, <3>2 DEF Pending
    <2>3. CASE ~(offset <= i /\ i < offset + s)
      <3> HIDE DEF n, m, s, c
      <3>1. i \in 0..(n - 1) /\ i + 1 <= n /\ ~(i + 1 > offset /\ i + 1 <= offset + s)
        BY <1>3, <1>6, <1>7, <2>1, <2>3
      <3>2. file'[i + 1] = file[i + 1]
        BY <1>7, <2>1, <3>1
      <3> QED BY <1>2, <3>1, <3>2
    <2> QED BY <2>2, <2>3
  <1>10. Stored(Content(Cur), Cur.size)'
    <2> HIDE DEF c, m
    <2> QED BY <1>5, <1>8, <1>9 DEF Stored, Held, Byte, m
  <1>11. Agrees'
    <2>1. CASE inode = Nil
      BY <1>1, <1>2, <1>4, <1>5, <2>1, UncachedContent DEF Agrees
    <2>2. CASE inode # Nil
      <3>1. Cur = inode
        BY <2>2 DEF Cur
      <3> QED BY <1>1, <1>4, <1>5, <2>2, <3>1 DEF Agrees, Kept
    <2> QED BY <2>1, <2>2
  <1>12. Ahead'
    <2>1. /\ call'.buf = buf /\ call'.offset = offset /\ call'.offsetted = FALSE /\ call'.block_idx = f
          /\ write_num_blocks' = ulong_ceil(s + offset, SIZE)
      BY <1>1 DEF write_num_blocks
    <2>2. offset + s <= m /\ \A i \in 1..s : file'[offset + i] = buf[i]
      <3>1. offset + s <= m /\ m \in Nat
        <4> HIDE DEF n, m, s
        <4> QED BY <1>3, <1>7
      <3>2. ASSUME NEW i \in 1..s PROVE file'[offset + i] = buf[i]
        <4> HIDE DEF m
        <4>1. offset + i \in 1..m /\ offset + i > offset /\ offset + i <= offset + s /\ (offset + i) - offset = i
          BY <1>3, <3>1
        <4> QED BY <1>7, <4>1
      <3> QED BY <3>1, <3>2
    <2>3. s + offset = offset + s
      BY <1>3
    <2>4. \/ (offset % SIZE) + s <= SIZE
          \/ /\ offset % SIZE = 0
             /\ \A k \in Idx : k > f /\ k < ulong_ceil(offset + s, SIZE) => Cur.blocks[k] = Nil
      BY <1>1 DEF Handled, has_block
    <2> HIDE DEF f, s, m
    <2>5. \/ ~call'.offsetted /\ (call'.offset % SIZE) + Len(call'.buf) <= SIZE
          \/ /\ call'.offset % SIZE = 0
             /\ \A k \in Idx :
                  k > call'.offset \div SIZE /\ k >= call'.block_idx /\ k < write_num_blocks'
                    => inode'.blocks[k] = Nil
      BY <1>4, <2>1, <2>3, <2>4 DEF s, f
    <2>6. call'.offset + Len(call'.buf) <= Len(file') /\ \A i \in 1..Len(call'.buf) : file'[call'.offset + i] = call'.buf[i]
      BY <2>1, <2>2 DEF s, m
    <2> QED BY <2>5, <2>6 DEF Ahead
  <1>13. Full(Content(Cur))' /\ Fits(Content(Cur))'
    BY <1>2, <1>5 DEF Full, Fits
  <1>14. Steady'
    BY <1>4 DEF Steady
  <1> QED BY <1>10, <1>11, <1>12, <1>13, <1>14 DEF Kept

\* What the turn of the loop for block k has to do: no bytes behind the
\* array, those of the buffer where they belong, and no other byte changed.
GoodTurn(c, d, k) ==
  /\ d # Nil /\ Len(d) <= SIZE
  /\ c[k] # Nil => Len(c[k]) <= Len(d)
  /\ c[k] = Nil => \A j \in Idx : j < k => c[j] # Nil /\ Len(c[j]) = SIZE
  /\ \A x \in Nat :
       LET i == k * SIZE + x
           new == call.offset <= i /\ i < call.offset + Len(call.buf)
       IN  /\ x < SIZE /\ new => x < Len(d) /\ d[x + 1] = call.buf[i - call.offset + 1]
           /\ ~new /\ c[k] # Nil /\ x < Len(c[k]) => d[x + 1] = c[k][x + 1]

\* A block the file has is the first of the request, and gets the bytes from
\* the start of the buffer at the request's place in it.
LEMMA TurnInPlace ==
  ASSUME SInv, sound, write_block, inode.blocks[call.block_idx] # Nil
  PROVE  GoodTurn(Content(inode), get_data(next_block), call.block_idx)
  <1> DEFINE k == call.block_idx
             o == call.offset
             s == Len(call.buf)
             f == o \div SIZE
             r == o % SIZE
             old == inode.blocks[k]
             c == Content(inode)
             d == get_data(next_block)
  <1>1. /\ LInv /\ Kept /\ call \in Call /\ inode \in Inode /\ k \in Idx /\ k < write_num_blocks
        /\ next_size \in Nat /\ next_size <= SIZE /\ next_curr + next_size <= s
        /\ next_curr \in Nat /\ next_block \in Block /\ call # Nil /\ Cur = inode
    BY TurnFacts, BlockIONil DEF SInv, Cur
  <1>2. call.buf \in Bufs /\ call.buf \in Seq(Bytes) /\ o \in Nat /\ k \in Nat /\ s \in Nat /\ s >= 1
    BY <1>1, BufFacts DEF Call
  <1>3. f \in Nat /\ r \in Nat /\ o = f * SIZE + r /\ r < SIZE /\ f * SIZE \in Nat
    BY <1>2, DivMod, Times
  <1>4. old \in Block /\ c[k] = get_data(old) /\ c[k] # Nil /\ Len(c[k]) = old.actual_size
    BY <1>1, ContentFacts DEF Inode
  <1>5. old.actual_size <= SIZE
    BY <1>1, <1>4 DEF Kept, Fits
  <1>6. f <= k /\ (call.offsetted <=> k # f) /\ call.offsetted \in BOOLEAN
    BY <1>1 DEF LInv, Loop, Call
  <1>7. k = f /\ ~call.offsetted /\ (r + s <= SIZE \/ r = 0)
    <2>1. write_num_blocks \in Nat
      <3>1. s + o \in Nat
        BY <1>2
      <3> QED BY <3>1, CeilFacts DEF write_num_blocks
    <2>2. ~(k >= write_num_blocks)
      <3> HIDE DEF k
      <3> QED BY <1>1, <1>2, <2>1
    <2>3. \/ ~call.offsetted /\ r + s <= SIZE
          \/ r = 0 /\ ~(k > f /\ k >= k /\ k < write_num_blocks)
      BY <1>1, <2>2 DEF Kept, Ahead
    <2> HIDE DEF k, f, r, s
    <2> QED BY <1>1, <1>2, <1>3, <1>6, <2>3
  <1>8. next_curr = 0 /\ next_amt = r
    <2>1. k - f = 0 /\ 0 * SIZE = 0
      BY <1>2, <1>7, SizeNat
    <2>2. next_curr = (k - f) * SIZE \/ (next_curr = s /\ s <= (k - f) * SIZE)
      BY <1>1 DEF LInv, Loop, Used, next_curr
    <2>3. next_curr = 0
      <3> HIDE DEF k, f, s
      <3> QED BY <1>2, <2>1, <2>2
    <2> QED BY <1>7, <2>3 DEF next_amt
  <1>9. next_size = IF s < SIZE THEN s ELSE SIZE
    <2>1. next_size = IF s < 0 + SIZE THEN s - 0 ELSE SIZE
      BY <1>8 DEF next_size
    <2> HIDE DEF s
    <2> QED BY <1>2, <2>1, SizeNat
  <1>10. next_size + r <= SIZE /\ next_size <= s
    <2> HIDE DEF s, r, o, f, k
    <2>1. next_size \in Nat /\ next_size <= SIZE /\ next_size <= s
      BY <1>1, <1>2, <1>9, SizeNat
    <2>2. CASE r = 0
      BY <2>1, <2>2, SizeNat
    <2>3. CASE r + s <= SIZE
      BY <1>2, <1>3, <2>1, <2>3, SizeNat
    <2> QED BY <1>7, <2>1, <2>2, <2>3
  <1>11. next_block = insert_data(old, call.buf, next_size, r)
    BY <1>8 DEF next_block
  <1>12. /\ Len(d) = IF next_size + r > Len(c[k]) THEN next_size + r ELSE Len(c[k])
         /\ Len(d) <= SIZE
         /\ \A x \in Nat :
              /\ x >= r /\ x - r < next_size => d[x + 1] = call.buf[x - r + 1]
              /\ x < Len(c[k]) /\ ~(x >= r /\ x - r < next_size) => d[x + 1] = c[k][x + 1]
    <2> HIDE DEF r, k, s, old, c
    <2>1. LET new == get_data(insert_data(old, call.buf, next_size, r))
          IN  /\ Len(new) = IF next_size + r > Len(get_data(old)) THEN next_size + r
                            ELSE Len(get_data(old))
              /\ Len(new) <= SIZE
              /\ \A x \in Nat :
                   /\ x >= r /\ x - r < next_size => new[x + 1] = call.buf[x - r + 1]
                   /\ x < Len(get_data(old)) /\ ~(x >= r /\ x - r < next_size)
                        => new[x + 1] = get_data(old)[x + 1]
      <3>1. /\ old \in Block /\ call.buf \in Seq(Bytes) /\ next_size \in Nat /\ r \in Nat
            /\ next_size <= Len(call.buf) /\ next_size + r <= SIZE /\ old.actual_size <= SIZE
        BY <1>1, <1>2, <1>3, <1>4, <1>5, <1>10 DEF s
      <3> HIDE DEF d, f
      <3> QED BY <3>1, InsertData, ZenonT(60)
    <2> QED BY <1>4, <1>11, <2>1, Zenon
  <1>13. d # Nil /\ Len(c[k]) \in Nat
    BY <1>1, <1>4, GetDataType, BlockIONil DEF Block
  <1>14. ASSUME NEW x \in Nat
         PROVE  LET i == k * SIZE + x
                    new == o <= i /\ i < o + s
                IN  /\ x < SIZE /\ new => x < Len(d) /\ d[x + 1] = call.buf[i - o + 1]
                    /\ ~new /\ c[k] # Nil /\ x < Len(c[k]) => d[x + 1] = c[k][x + 1]
    <2> DEFINE i == k * SIZE + x
               y == f * SIZE
    <2>1. i = y + x /\ o = y + r /\ y \in Nat
      BY <1>3, <1>7
    <2> HIDE DEF k, o, s, f, r, old, c, d, i, y
    <2>2. (o <= i <=> x >= r) /\ (i < o + s <=> x - r < s) /\ i - o = x - r
      BY <1>2, <1>3, <2>1
    <2>3. ASSUME x < SIZE, o <= i, i < o + s
          PROVE  x < Len(d) /\ d[x + 1] = call.buf[i - o + 1]
      <3>1. x >= r /\ x - r < next_size
        BY <1>2, <1>3, <1>9, <2>2, <2>3, SizeNat
      <3>2. x < Len(d)
        BY <1>1, <1>3, <1>12, <1>13, <3>1
      <3> QED BY <1>12, <2>2, <3>1, <3>2
    <2>4. ASSUME ~(o <= i /\ i < o + s), x < Len(c[k]) PROVE d[x + 1] = c[k][x + 1]
      <3>1. ~(x >= r /\ x - r < next_size)
        BY <1>1, <1>2, <1>3, <1>10, <2>2, <2>4
      <3> QED BY <1>12, <2>4, <3>1
    <2> QED BY <2>3, <2>4 DEF i
  <1>15. Len(c[k]) <= Len(d)
    <2> HIDE DEF c, d, r, k
    <2> QED BY <1>1, <1>3, <1>12, <1>13
  <1> HIDE DEF c, d
  <1> QED BY <1>4, <1>12, <1>13, <1>14, <1>15, Zenon DEF GoodTurn, c, d

\* A block the file does not have: the request starts on a block boundary
\* and the blocks before are full, so that the bytes from curr_idx on belong
\* at its start.
LEMMA TurnNewBlock ==
  ASSUME SInv, sound, write_block, inode.blocks[call.block_idx] = Nil
  PROVE  GoodTurn(Content(inode), get_data(next_block), call.block_idx)
  <1> DEFINE k == call.block_idx
             o == call.offset
             s == Len(call.buf)
             f == o \div SIZE
             r == o % SIZE
             c == Content(inode)
             d == get_data(next_block)
             rest == SubSeq(call.buf, next_curr + 1, s)
  <1>1. /\ LInv /\ Kept /\ call \in Call /\ inode \in Inode /\ k \in Idx /\ k < write_num_blocks
        /\ k * SIZE < s + o
        /\ next_size \in Nat /\ next_size <= SIZE /\ next_curr + next_size <= s
        /\ next_curr \in Nat /\ next_curr <= s /\ next_block \in Block /\ call # Nil /\ Cur = inode
    BY TurnFacts, BlockIONil DEF SInv, Cur
  <1>2. call.buf \in Bufs /\ call.buf \in Seq(Bytes) /\ o \in Nat /\ k \in Nat /\ s \in Nat /\ s >= 1
    BY <1>1, BufFacts DEF Call
  <1>3. /\ f \in Nat /\ r \in Nat /\ o = f * SIZE + r /\ r < SIZE /\ f * SIZE \in Nat
        /\ k * SIZE \in Nat
    BY <1>2, DivMod, Times
  <1>4. c[k] = Nil /\ c \in Contents
    BY <1>1, ContentFacts
  <1>5. f <= k /\ (call.offsetted <=> k # f) /\ call.offsetted \in BOOLEAN
    BY <1>1 DEF LInv, Loop, Call
  <1>6. /\ o + s <= Len(file) /\ Len(file) \in Nat /\ inode.size = Len(file)
        /\ \A i \in 0..(Len(file) - 1) : Pending(i) \/ Held(c, i)
    BY <1>1 DEF Kept, Ahead, Stored, LInv, TypeInv
  <1>7. r = 0
    <2>1. CASE k = f
      <3> SUFFICES ASSUME r # 0 PROVE FALSE
        OBVIOUS
      <3> DEFINE x == r - 1
                 i == f * SIZE + x
      <3>1. x \in Nat /\ x < SIZE /\ i \in Nat /\ i = o - 1
        <4> DEFINE y == f * SIZE
        <4>1. y \in Nat /\ o = y + r /\ r \in Nat /\ r < SIZE /\ r # 0 /\ i = y + x
          BY <1>3
        <4>2. x = r - 1
          OBVIOUS
        <4> HIDE DEF r, f, o, y, x, i
        <4> QED BY <1>2, <4>1, <4>2, SizeNat
      <3>2. i \div SIZE = f
        <4> HIDE DEF f, x
        <4> QED BY <1>3, <3>1, DivModUnique
      <3>3. i \in 0..(Len(file) - 1) /\ ~(o <= i)
        <4> HIDE DEF i, o, s
        <4> QED BY <1>2, <1>6, <3>1
      <3>4. Held(c, i)
        <4> HIDE DEF i, c
        <4> QED BY <1>6, <3>3 DEF Pending
      <3>5. c[f] # Nil
        <4> HIDE DEF i, c, f
        <4> QED BY <3>2, <3>4 DEF Held
      <3> QED BY <1>4, <2>1, <3>5
    <2>2. CASE k # f
      <3>1. s + o \in Nat
        BY <1>2
      <3>2. write_num_blocks \in Nat
        BY <3>1, CeilFacts DEF write_num_blocks
      <3>3. ~(k >= write_num_blocks)
        <4> HIDE DEF k
        <4> QED BY <1>1, <1>2, <3>2
      <3> QED BY <1>1, <1>5, <2>2, <3>3 DEF Kept, Ahead
    <2> QED BY <2>1, <2>2
  <1>8. next_curr = (k - f) * SIZE /\ (k - f) * SIZE = k * SIZE - o
    <2>1. k - f \in Nat /\ k = (k - f) + f
      BY <1>2, <1>3, <1>5
    <2>2. (k - f) * SIZE \in Nat /\ (k - f) * SIZE = k * SIZE - f * SIZE
      <3> HIDE DEF k, f
      <3> QED BY <1>2, <1>3, <2>1, SizeNat
    <2>3. next_curr = (k - f) * SIZE \/ (next_curr = s /\ s <= (k - f) * SIZE)
      BY <1>1 DEF LInv, Loop, Used, next_curr
    <2> DEFINE n == (k - f) * SIZE
               m == k * SIZE
               y == f * SIZE
    <2> HIDE DEF n, m, y, k, f, s, o, r
    <2>4. n \in Nat /\ n = m - y /\ o = y + r /\ (next_curr = n \/ (next_curr = s /\ s <= n)) /\ m < s + o
          /\ y \in Nat /\ m \in Nat
      BY <1>1, <1>3, <2>2, <2>3 DEF n, m, y
    <2>5. next_curr = n /\ n = m - o
      BY <1>2, <1>7, <2>4
    <2> QED BY <2>5 DEF n, m
  <1>9. rest \in Seq(Bytes) /\ Len(rest) = s - next_curr /\ \A x \in 1..(s - next_curr) : rest[x] = call.buf[next_curr + x]
    <2>1. next_curr + 1 \in 1..(s + 1)
      <3> HIDE DEF s
      <3> QED BY <1>1, <1>2
    <2> QED BY <1>1, <1>2, <2>1
  <1>10. next_size = IF s < next_curr + SIZE THEN s - next_curr ELSE SIZE
    BY DEF next_size
  <1>11. next_block = insert_data(EmptyBlock, rest, next_size, 0)
    BY DEF next_block
  <1>12. EmptyBlock \in Block /\ EmptyBlock.actual_size = 0 /\ Len(get_data(EmptyBlock)) = 0
    BY EmptyType, GetDataType DEF EmptyBlock
  <1> HIDE DEF rest
  <1>13. /\ Len(d) = next_size
         /\ \A x \in Nat : x < next_size => d[x + 1] = rest[x + 1]
    <2> DEFINE e == EmptyBlock
    <2>1. /\ e \in Block /\ rest \in Seq(Bytes) /\ next_size \in Nat /\ 0 \in Nat
          /\ next_size <= Len(rest) /\ next_size + 0 <= SIZE /\ e.actual_size <= SIZE
      <3> HIDE DEF s
      <3> QED BY <1>1, <1>2, <1>9, <1>12, SizeNat
    <2> DEFINE z == 0
    <2>2. z \in Nat /\ next_size + z <= SIZE /\ z = 0
      BY <2>1
    <2> HIDE DEF e, k, o, f, r, c, s, d, z
    <2>5. LET new == get_data(insert_data(e, rest, next_size, z))
          IN  /\ Len(new) = IF next_size + z > Len(get_data(e)) THEN next_size + z
                            ELSE Len(get_data(e))
              /\ Len(new) <= SIZE
              /\ \A x \in Nat :
                   /\ x >= z /\ x - z < next_size => new[x + 1] = rest[x - z + 1]
                   /\ x < Len(get_data(e)) /\ ~(x >= z /\ x - z < next_size)
                        => new[x + 1] = get_data(e)[x + 1]
      <3>1. /\ e \in Block /\ rest \in Seq(Bytes) /\ next_size \in Nat /\ z \in Nat
            /\ next_size <= Len(rest) /\ next_size + z <= SIZE /\ e.actual_size <= SIZE
        BY <2>1, <2>2
      <3> HIDE DEF d, f
      <3> QED BY <3>1, InsertData, ZenonT(60)
    <2>6. d = get_data(insert_data(e, rest, next_size, z)) /\ Len(get_data(e)) = 0
      BY <1>11, <1>12, <2>2 DEF d, e
    <2>3. \A x \in Nat : x < next_size => d[x + 1] = rest[x + 1]
      <3> SUFFICES ASSUME NEW x \in Nat, x < next_size PROVE d[x + 1] = rest[x + 1]
        OBVIOUS
      <3>1. x >= z /\ x - z < next_size /\ x - z + 1 = x + 1
        BY <1>1, <2>2
      <3>2. d[x + 1] = rest[x - z + 1]
        BY <2>5, <2>6, <3>1, Zenon
      <3> QED BY <3>1, <3>2
    <2>4. Len(d) = IF next_size + z > 0 THEN next_size + z ELSE 0
      BY <2>5, <2>6, Zenon
    <2> QED BY <1>1, <2>2, <2>3, <2>4
  <1>14. d # Nil /\ Len(d) <= SIZE
    BY <1>1, <1>13, GetDataType, BlockIONil
  <1>15. ASSUME NEW j \in Idx, j < k PROVE c[j] # Nil /\ Len(c[j]) = SIZE
    <2> DEFINE x == SIZE - 1
               i == j * SIZE + x
    <2>1. j \in Nat /\ x \in Nat /\ x < SIZE
      BY IdxFacts, SizeNat
    <2>2. i \in Nat /\ i \div SIZE = j /\ i % SIZE = x
      <3> HIDE DEF x
      <3> QED BY <2>1, DivModUnique
    <2>3. j * SIZE \in Nat /\ j * SIZE + SIZE <= k * SIZE
      <3> HIDE DEF k
      <3> QED BY <1>2, <1>15, <2>1, Times
    <2>4. i \in 0..(Len(file) - 1)
      <3> DEFINE m == k * SIZE
                 y == j * SIZE
      <3>1. i = y + SIZE - 1 /\ y \in Nat /\ m \in Nat /\ y + SIZE <= m /\ m < s + o
        BY <1>1, <1>3, <2>3, SizeNat
      <3> HIDE DEF m, y, i, s, o
      <3> QED BY <1>2, <1>6, <2>2, <3>1, SizeNat
    <2>5. ~Pending(i)
      <3>1. ~(k <= j)
        <4> HIDE DEF k
        <4> QED BY <1>2, <1>15, <2>1
      <3> HIDE DEF i
      <3> QED BY <2>2, <3>1 DEF Pending
    <2>6. c[j] # Nil /\ x < Len(c[j])
      <3> HIDE DEF i, c, x
      <3> QED BY <1>6, <2>2, <2>4, <2>5 DEF Held
    <2>7. Len(c[j]) <= SIZE /\ c[j] \in Seq(Bytes)
      BY <1>1, <1>4, <2>6 DEF Kept, Fits, Contents
    <2>8. Len(c[j]) \in Nat
      <3> HIDE DEF c
      <3> QED BY <2>7
    <2> HIDE DEF c
    <2> QED BY <2>6, <2>7, <2>8, SizeNat
  <1>16. ASSUME NEW x \in Nat, x < SIZE, o <= k * SIZE + x, k * SIZE + x < o + s
         PROVE  x < Len(d) /\ d[x + 1] = call.buf[(k * SIZE + x) - o + 1]
    <2> DEFINE m == k * SIZE
    <2> HIDE DEF m, k, o, s, d
    <2>1. m \in Nat /\ next_curr = m - o /\ o <= m + x /\ m + x < o + s
      BY <1>3, <1>8, <1>16 DEF m
    <2>2. x < next_size /\ x + 1 \in 1..(s - next_curr) /\ next_curr + (x + 1) = (m + x) - o + 1
      BY <1>1, <1>2, <1>10, <1>16, <2>1, SizeNat
    <2>3. d[x + 1] = rest[x + 1] /\ rest[x + 1] = call.buf[next_curr + (x + 1)]
      BY <1>9, <1>13, <2>2
    <2> QED BY <1>13, <2>2, <2>3 DEF m
  <1> HIDE DEF c, d, k, o, s
  <1>17. GoodTurn(c, d, k)
    <2>1. \A x \in Nat :
            LET i == k * SIZE + x
                new == call.offset <= i /\ i < call.offset + Len(call.buf)
            IN  /\ x < SIZE /\ new => x < Len(d) /\ d[x + 1] = call.buf[i - call.offset + 1]
                /\ ~new /\ c[k] # Nil /\ x < Len(c[k]) => d[x + 1] = c[k][x + 1]
      <3> SUFFICES ASSUME NEW x \in Nat
                   PROVE  LET i == k * SIZE + x
                              new == o <= i /\ i < o + s
                          IN  /\ x < SIZE /\ new => x < Len(d) /\ d[x + 1] = call.buf[i - o + 1]
                              /\ ~new /\ c[k] # Nil /\ x < Len(c[k]) => d[x + 1] = c[k][x + 1]
        BY Zenon DEF o, s
      <3> QED BY <1>4, <1>16, Zenon
    <2> QED BY <1>4, <1>14, <1>15, <2>1, Zenon DEF GoodTurn
  <1> QED BY <1>17 DEF c, d, k

\* One turn of the loop stores the bytes of its block and no others.
LEMMA KeptTurn ==
  ASSUME SInv, sound', write_block
  PROVE  Kept'
  <1> DEFINE k == call.block_idx
             o == call.offset
             s == Len(call.buf)
             c == Content(inode)
             d == get_data(next_block)
             e == Content(inode')
  <1>1. /\ LInv /\ TypeInv /\ Kept /\ call \in Call /\ inode \in Inode /\ inode' \in Inode
        /\ k \in Idx /\ next_block \in Block /\ call # Nil /\ Cur = inode /\ Cur' = inode'
        /\ sound /\ dirty' = dirty \cup {k} /\ inode # Nil /\ inode' # Nil
        /\ disk' = disk /\ file' = file /\ k < write_num_blocks
        /\ inode' = [inode EXCEPT !.blocks = [@ EXCEPT ![call.block_idx] = next_block]]
        /\ call' = [buf |-> call.buf, offset |-> call.offset, block_idx |-> call.block_idx + 1,
                    curr_idx |-> next_curr, block_size |-> next_size, offsetted |-> TRUE]
        /\ call' \in Call /\ call' # Nil
    <2>1. LInv /\ TypeInv /\ sound /\ Kept /\ call # Nil
      BY DEF SInv, LInv, write_block
    <2>2. LInv'
      BY <2>1, LoopTurn
    <2>3. inode # Nil /\ Cur = inode
      BY <2>1 DEF LInv, Loop, Cur
    <2>4. inode' \in Inode /\ call' \in Call
      <3>1. inode' \in Inode
        BY <2>1, TurnFacts
      <3>2. call' \in Call
        <4>1. /\ call.buf \in Bufs /\ call.offset \in Nat /\ call.block_idx + 1 \in Nat
              /\ next_curr \in Nat /\ next_size \in Nat
          BY <2>1, TurnFacts DEF Call
        <4>2. call' = [buf |-> call.buf, offset |-> call.offset, block_idx |-> call.block_idx + 1,
                       curr_idx |-> next_curr, block_size |-> next_size, offsetted |-> TRUE]
          BY <2>1, TurnFacts
        <4> QED BY <4>1, <4>2 DEF Call
      <3> QED BY <3>1, <3>2
    <2>5. inode' # Nil /\ Cur' = inode' /\ call' # Nil
      BY <2>4, BlockIONil DEF Cur
    <2>6. disk' = disk
      BY <2>1, TurnFacts DEF disk
    <2> QED BY <2>1, <2>3, <2>4, <2>5, <2>6, TurnFacts
  <1>2. call.buf \in Bufs /\ call.buf \in Seq(Bytes) /\ o \in Nat /\ k \in Nat /\ s \in Nat /\ s >= 1
    BY <1>1, BufFacts DEF Call
  <1>3. GoodTurn(c, d, k)
    BY <1>1, TurnInPlace, TurnNewBlock
  <1>4. c \in Contents /\ e \in Contents /\ e[k] = d /\ \A j \in Idx : j # k => e[j] = c[j]
    <2>1. inode'.blocks[k] = next_block /\ \A j \in Idx : j # k => inode'.blocks[j] = inode.blocks[j]
      BY <1>1 DEF Inode
    <2>2. next_block # Nil
      BY <1>1, BlockIONil
    <2>3. c \in Contents /\ e \in Contents
      BY <1>1, ContentFacts
    <2>4. e[k] = d
      BY <1>1, <2>1, <2>2 DEF Content
    <2>5. \A j \in Idx : j # k => e[j] = c[j]
      BY <1>1, <2>1 DEF Content
    <2> QED BY <2>3, <2>4, <2>5
  <1>5. d \in Seq(Bytes) /\ Len(d) \in Nat
    BY <1>1, GetDataType DEF Block
  <1>6. Full(c) /\ Fits(c) /\ Stored(c, inode.size) /\ Agrees /\ Ahead
    BY <1>1 DEF Kept
  <1>7. call'.block_idx = k + 1 /\ call'.offset = o /\ call'.buf = call.buf /\ call'.offsetted
    BY <1>1
  <1>8. write_num_blocks' = write_num_blocks
    BY <1>7 DEF write_num_blocks
  <1>9. inode'.size = inode.size
    BY <1>1 DEF Inode
  <1> HIDE DEF k, o, s, c, d, e
  <1>10. d # Nil /\ Len(d) <= SIZE /\ (c[k] # Nil => Len(c[k]) <= Len(d))
         /\ (c[k] = Nil => \A j \in Idx : j < k => c[j] # Nil /\ Len(c[j]) = SIZE)
    BY <1>3 DEF GoodTurn
  <1>11. Full(e)
    <2> SUFFICES ASSUME NEW i \in Idx, NEW j \in Idx, i < j, e[j] # Nil
                 PROVE  e[i] # Nil /\ Len(e[i]) = SIZE
      BY DEF Full
    <2>1. i \in Nat /\ j \in Nat /\ i # j
      BY IdxFacts
    <2>2. CASE i = k
      <3>1. c[k] # Nil /\ Len(c[k]) = SIZE
        BY <1>4, <1>6, <2>1, <2>2 DEF Full
      <3> QED BY <1>4, <1>5, <1>10, <2>2, <3>1, SizeNat
    <2>3. CASE i # k
      <3>1. c[i] # Nil /\ Len(c[i]) = SIZE
        <4>1. CASE c[j] # Nil
          BY <1>6, <4>1 DEF Full
        <4>2. CASE c[j] = Nil
          <5>1. j = k
            BY <1>4, <4>2
          <5> QED BY <1>10, <4>2, <5>1
        <4> QED BY <4>1, <4>2
      <3> QED BY <1>4, <2>3, <3>1
    <2> QED BY <2>2, <2>3
  <1>12. Fits(e)
    BY <1>4, <1>6, <1>10 DEF Fits
  <1>13. Agrees'
    <2> SUFFICES ASSUME NEW j \in Idx, j \notin dirty' PROVE disk.blocks[j] = e[j]
      BY <1>1 DEF Agrees, e
    <2>1. j \in Idx \ dirty /\ j # k
      BY <1>1 DEF k
    <2> QED BY <1>1, <1>4, <1>6, <2>1 DEF Agrees, c
  <1>14. inode'.size = Len(file') /\ Len(file) \in Nat /\ o + s <= Len(file)
         /\ \A i \in 1..s : file[o + i] = call.buf[i]
    BY <1>1, <1>6, <1>9 DEF Stored, Ahead, TypeInv, o, s
  <1>15. ASSUME NEW i \in 0..(Len(file) - 1)
         PROVE  Pending(i)' \/ (Held(e, i) /\ Byte(e, i) = file[i + 1])
    <2> DEFINE q == i \div SIZE
               x == i % SIZE
    <2>1. i \in Nat /\ i < Len(file)
      BY <1>14
    <2>2. q \in Nat /\ x \in Nat /\ i = q * SIZE + x /\ x < SIZE
      BY <2>1, DivMod
    <2>3. Pending(i) \/ (Held(c, i) /\ Byte(c, i) = file[i + 1])
      BY <1>1, <1>6, <1>9, <1>14 DEF Stored
    <2>4. Pending(i) <=> o <= i /\ i < o + s /\ k <= q
      BY <1>1 DEF Pending, o, s, k
    <2>5. Pending(i)' <=> o <= i /\ i < o + s /\ k + 1 <= q
      BY <1>1, <1>7 DEF Pending, o, s
    <2>6. Held(e, i) <=> q \in Idx /\ e[q] # Nil /\ x < Len(e[q])
      BY DEF Held
    <2>7. Held(c, i) <=> q \in Idx /\ c[q] # Nil /\ x < Len(c[q])
      BY DEF Held
    <2>8. Byte(c, i) = c[q][x + 1] /\ Byte(e, i) = e[q][x + 1]
      BY DEF Byte
    <2>9. /\ x < SIZE /\ q = k /\ o <= i /\ i < o + s
               => x < Len(d) /\ d[x + 1] = call.buf[i - o + 1]
          /\ q = k /\ ~(o <= i /\ i < o + s) /\ c[k] # Nil /\ x < Len(c[k]) => d[x + 1] = c[k][x + 1]
      BY <1>3, <2>2, Zenon DEF GoodTurn, o, s
    <2> HIDE DEF q, x
    <2>10. CASE q # k
      BY <1>2, <1>4, <2>2, <2>3, <2>4, <2>5, <2>6, <2>7, <2>8, <2>10
    <2>11. CASE q = k /\ o <= i /\ i < o + s
      <3>1. i - o + 1 \in 1..s /\ o + (i - o + 1) = i + 1
        BY <1>2, <2>1, <2>11
      <3>2. file[i + 1] = call.buf[i - o + 1]
        BY <1>14, <3>1
      <3> QED BY <1>1, <1>4, <1>10, <2>2, <2>6, <2>8, <2>9, <2>11, <3>2 DEF k
    <2>12. CASE q = k /\ ~(o <= i /\ i < o + s)
      <3>1. Held(c, i) /\ Byte(c, i) = file[i + 1]
        BY <2>3, <2>4, <2>12
      <3>2. q \in Idx /\ c[k] # Nil /\ x < Len(c[k])
        BY <2>7, <2>12, <3>1
      <3>3. c[k] \in Seq(Bytes) /\ Len(c[k]) \in Nat
        BY <1>4, <2>12, <3>2 DEF Contents
      <3>4. d[x + 1] = c[k][x + 1] /\ x < Len(d)
        BY <1>5, <1>10, <2>2, <2>9, <2>12, <3>2, <3>3
      <3> QED BY <1>4, <1>10, <2>6, <2>8, <2>12, <3>1, <3>2, <3>4
    <2> QED BY <2>10, <2>11, <2>12
  <1>16. Stored(Content(Cur), Cur.size)'
    <2>1. Cur'.size = Len(file') /\ Content(Cur') = e
      BY <1>1, <1>14 DEF e
    <2> QED BY <1>1, <1>14, <1>15, <2>1 DEF Stored, Held, Byte
  <1>17. Ahead'
    <2>1. s + o \in Nat /\ write_num_blocks = ulong_ceil(s + o, SIZE)
      BY <1>2 DEF write_num_blocks, s, o
    <2>2. write_num_blocks \in Nat /\ ~(k >= write_num_blocks)
      <3>1. write_num_blocks \in Nat
        BY <2>1, CeilFacts
      <3> QED BY <1>1, <1>2, <3>1
    <2>3. \/ ~call.offsetted /\ (o % SIZE) + s <= SIZE
          \/ /\ o % SIZE = 0
             /\ \A j \in Idx : j > o \div SIZE /\ j >= k /\ j < write_num_blocks => inode.blocks[j] = Nil
      BY <1>1, <1>6, <2>2 DEF Ahead, k, o, s
    <2>4. call'.offset + Len(call'.buf) <= Len(file') /\ \A i \in 1..Len(call'.buf) : file'[call'.offset + i] = call'.buf[i]
      BY <1>1, <1>7, <1>14 DEF s
    <2>5. CASE ~call.offsetted /\ (o % SIZE) + s <= SIZE
      <3> DEFINE f == o \div SIZE
                 r == o % SIZE
      <3>1. f \in Nat /\ r \in Nat /\ o = f * SIZE + r
        BY <1>2, DivMod
      <3>2. k = f
        BY <1>1, <2>5 DEF LInv, Loop, k, o
      <3> HIDE DEF f, r
      <3>3. f * SIZE \in Nat /\ (f + 1) * SIZE = f * SIZE + SIZE
        BY <3>1, Times
      <3>4. ~((f + 1) * SIZE < s + o)
        <4> DEFINE y == f * SIZE
        <4>1. y \in Nat /\ o = y + r /\ r + s <= SIZE
          BY <2>5, <3>1, <3>3 DEF r
        <4> HIDE DEF y
        <4>2. ~(y + SIZE < s + o)
          BY <1>2, <3>1, <4>1, SizeNat
        <4> QED BY <3>3, <4>2 DEF y
      <3>5. f + 1 \in Nat /\ ~(f + 1 < write_num_blocks)
        BY <2>1, <3>1, <3>4, CeilFacts
      <3>6. call'.block_idx >= write_num_blocks'
        BY <1>7, <1>8, <2>2, <3>2, <3>5
      <3> QED BY <2>4, <3>6 DEF Ahead
    <2>6. CASE /\ o % SIZE = 0
               /\ \A j \in Idx : j > o \div SIZE /\ j >= k /\ j < write_num_blocks => inode.blocks[j] = Nil
      <3>1. ASSUME NEW j \in Idx, j > o \div SIZE, j >= k + 1, j < write_num_blocks
            PROVE  inode'.blocks[j] = Nil
        <4>1. j \in Nat /\ j # k /\ j >= k
          BY <1>2, <3>1, IdxFacts
        <4>2. inode'.blocks[j] = inode.blocks[j]
          BY <1>1, <4>1 DEF Inode, k
        <4> QED BY <2>6, <3>1, <4>1, <4>2
      <3> QED BY <1>7, <1>8, <2>4, <2>6, <3>1 DEF Ahead
    <2> QED BY <2>3, <2>5, <2>6
  <1>18. Full(Content(Cur))' /\ Fits(Content(Cur))'
    BY <1>1, <1>11, <1>12 DEF Full, Fits, e
  <1>19. Steady'
    BY <1>1 DEF Steady
  <1> QED BY <1>13, <1>16, <1>17, <1>18, <1>19 DEF Kept

\* The empty file is the empty inode.
LEMMA InitSInv == Init => SInv
  <1> SUFFICES ASSUME Init PROVE SInv
    OBVIOUS
  <1>1. LInv /\ inode = NewInode /\ inode \in Inode /\ inode # Nil /\ trees = << >>
        /\ call = Nil /\ file = << >> /\ has_changed
    BY InitLInv, NewInodeType, BlockIONil DEF Init
  <1>2. Cur = inode
    BY <1>1 DEF Cur
  <1>3. \A k \in Idx : Content(inode)[k] = Nil /\ disk.blocks[k] = Nil
    BY <1>1 DEF Content, NewInode, disk, DiskOf, WithBlock
  <1>4. Full(Content(inode)) /\ Fits(Content(inode)) /\ Agrees /\ Steady /\ Ahead
    BY <1>1, <1>3 DEF Full, Fits, Agrees, Steady, Ahead
  <1>5. Stored(Content(inode), inode.size)
    BY <1>1 DEF Stored, NewInode
  <1> QED BY <1>1, <1>2, <1>4, <1>5 DEF SInv, Kept

\* The inductive invariant.
LEMMA NextSInv == SInv /\ [Next]_vars => SInv'
  <1> SUFFICES ASSUME SInv, [Next]_vars PROVE SInv'
    OBVIOUS
  <1>1. LInv'
    BY NextLInv DEF SInv
  <1>2. ASSUME sound' PROVE Kept'
    <2>1. CASE UNCHANGED vars
      <3>1. Cur' = Cur /\ Content(Cur)' = Content(Cur)
        BY <2>1 DEF vars, Cur, disk, Content
      <3>2. \A i : Pending(i)' <=> Pending(i)
        BY <2>1 DEF vars, Pending
      <3>3. Kept /\ UNCHANGED <<inode, dirty, has_changed, call, file, sound>> /\ disk' = disk
        BY <1>2, <2>1 DEF SInv, vars, disk
      <3>4. Stored(Content(Cur), Cur.size)'
        BY <3>1, <3>2, <3>3 DEF Kept, Stored, Held, Byte
      <3>5. Agrees' /\ Steady' /\ Ahead'
        BY <3>3 DEF Kept, Agrees, Steady, Ahead, Content, write_num_blocks
      <3>6. Full(Content(Cur))' /\ Fits(Content(Cur))'
        BY <3>1, <3>3 DEF Kept, Full, Fits
      <3> QED BY <3>4, <3>5, <3>6 DEF Kept
    <2>2. CASE Next
      <3>1. ASSUME NEW buf \in Bufs, NEW offset \in 0..MaxLen PROVE ~write_unloaded(buf, offset)
        BY <1>2 DEF write_unloaded
      <3> QED BY <1>2, <2>2, <3>1, KeptBegin, KeptTurn, KeptReturn, KeptTruncate, KeptOpen DEF Next
    <2> QED BY <2>1, <2>2
  <1> QED BY <1>1, <1>2 DEF SInv
-----------------------------------------------------------------------------
(* Reading.                                                                *)

\* The blocks there are are the first num_blocks.
LEMMA BlocksPresent ==
  ASSUME NEW ino \in Inode, Full(Content(ino))
  PROVE  /\ num_blocks(ino) \in Nat
         /\ \A k \in Nat : k < num_blocks(ino) <=> k \in Idx /\ ino.blocks[k] # Nil
  <1> DEFINE P == {k \in Idx : has_block(ino, k)}
             n == num_blocks(ino)
  <1>1. IsFiniteSet(P)
    <2>1. ulong_ceil(MaxLen, SIZE) \in Nat
      BY SizeNat, CeilFacts
    <2>2. IsFiniteSet(Idx)
      <3> DEFINE b == ulong_ceil(MaxLen, SIZE) - 1
      <3>1. b \in Int /\ 0 \in Int
        BY <2>1
      <3> HIDE DEF b
      <3>2. IsFiniteSet(0..b)
        BY <3>1, FS_Interval
      <3> QED BY <3>2 DEF Idx, b
    <2> QED BY <2>2, FS_Subset
  <1>2. n = Cardinality(P) /\ n \in Nat
    BY <1>1, FS_CardinalityType DEF num_blocks
  <1>3. \A j \in Nat, k \in Idx : j < k /\ ino.blocks[k] # Nil => j \in Idx /\ ino.blocks[j] # Nil
    <2>1. \A j \in Nat, k \in Idx : j < k => j \in Idx
      BY IdxFacts
    <2> QED BY <2>1, ContentFacts DEF Full
  <1>4. P \subseteq Nat /\ \A k \in Nat : k \in P <=> k \in Idx /\ ino.blocks[k] # Nil
    BY IdxFacts DEF has_block
  <1>5. \A j \in Nat, k \in P : j < k => j \in P
    BY <1>3, <1>4
  <1> HIDE DEF P, n
  <1>6. 0..(n - 1) \subseteq P
    <2> SUFFICES ASSUME NEW k \in 0..(n - 1), k \notin P PROVE FALSE
      OBVIOUS
    <2>1. k \in Nat /\ k < n /\ k - 1 \in Int /\ 0 \in Int
      BY <1>2
    <2>2. \A j \in P : j < k
      BY <1>4, <1>5, <2>1
    <2>3. P \subseteq 0..(k - 1)
      BY <1>4, <2>1, <2>2
    <2>4. IsFiniteSet(0..(k - 1)) /\ Cardinality(0..(k - 1)) = k
      <3>1. /\ IsFiniteSet(0..(k - 1))
            /\ Cardinality(0..(k - 1)) = IF 0 > k - 1 THEN 0 ELSE (k - 1) - 0 + 1
        BY <2>1, FS_Interval
      <3> QED BY <2>1, <3>1
    <2>5. Cardinality(P) <= k
      BY <2>3, <2>4, FS_Subset
    <2> QED BY <1>2, <2>1, <2>5
  <1>7. P = 0..(n - 1)
    <2>1. n - 1 \in Int /\ 0 \in Int
      BY <1>2
    <2>2. Cardinality(0..(n - 1)) = IF 0 > n - 1 THEN 0 ELSE (n - 1) - 0 + 1
      BY <2>1, FS_Interval
    <2>3. Cardinality(0..(n - 1)) = n
      BY <1>2, <2>2
    <2> QED BY <1>1, <1>2, <1>6, <2>3, FS_Subset
  <1>8. \A k \in Nat : k < n <=> k \in P
    <2>1. \A k \in Nat : k < n <=> k \in 0..(n - 1)
      BY <1>2
    <2> QED BY <1>7, <2>1
  <1> QED BY <1>2, <1>4, <1>8 DEF n

\* No read and no flush leaves the blocks.
LEMMA KeptInBounds == SInv => ReadsInBounds
  <1> SUFFICES ASSUME SInv, sound, Loadable PROVE ReadsInBounds
    BY DEF ReadsInBounds
  <1>0. Current = Cur /\ Cur # Nil
    BY CurrentIs, CurType DEF SInv, LInv, Loadable
  <1>1. Cur \in Inode /\ Full(Content(Cur)) /\ Fits(Content(Cur))
    BY CurType DEF SInv, LInv, Kept
  <1>2. /\ num_blocks(Cur) \in Nat
        /\ \A k \in Nat : k < num_blocks(Cur) <=> k \in Idx /\ Cur.blocks[k] # Nil
    BY <1>1, BlocksPresent
  <1>3. Missing(Cur) = {}
    BY <1>2 DEF Missing, has_block
  <1>4. \A k \in Idx : has_block(Cur, k) => Cur.blocks[k].actual_size <= SIZE
    BY <1>1, ContentFacts DEF Fits, has_block
  <1> QED BY <1>0, <1>3, <1>4 DEF ReadsInBounds

\* While every request so far was one the code handles, and the file is cached
\* or a load would meet every tree, a read, in the middle of a write too,
\* finds every block it dereferences, and neither a read nor a flush copies
\* bytes from behind the array of a block.
THEOREM ReadsStayInBounds == Spec => []ReadsInBounds
  BY InitSInv, NextSInv, KeptInBounds, PTL DEF Spec

\* The bytes of a block by their addresses.
LEMMA BlockByte ==
  ASSUME NEW c, Fits(c), NEW k \in Idx, c[k] \in Seq(Bytes), c[k] # Nil,
         NEW x \in Nat, x < Len(c[k])
  PROVE  Byte(c, k * SIZE + x) = c[k][x + 1]
  <1>1. k \in Nat /\ Len(c[k]) \in Nat /\ Len(c[k]) <= SIZE
    BY IdxFacts DEF Fits
  <1>2. x < SIZE
    BY <1>1, SizeNat
  <1>3. (k * SIZE + x) \div SIZE = k /\ (k * SIZE + x) % SIZE = x
    BY <1>1, <1>2, DivModUnique
  <1> QED BY <1>3 DEF Byte

\* A sequence without its first r elements, and one after another.
LEMMA Parts ==
  ASSUME NEW S, NEW a \in Seq(S), NEW b \in Seq(S), NEW r \in Nat, r <= Len(b)
  PROVE  /\ SubSeq(b, r + 1, Len(b)) \in Seq(S) /\ Len(SubSeq(b, r + 1, Len(b))) = Len(b) - r
         /\ \A i \in 1..(Len(b) - r) : SubSeq(b, r + 1, Len(b))[i] = b[r + i]
         /\ a \o b \in Seq(S) /\ Len(a \o b) = Len(a) + Len(b)
         /\ \A i \in 1..(Len(a) + Len(b)) :
              (a \o b)[i] = IF i <= Len(a) THEN a[i] ELSE b[i - Len(a)]
  <1>1. SubSeq(b, r + 1, Len(b)) \in Seq(S) /\ Len(SubSeq(b, r + 1, Len(b))) = Len(b) - r
    OBVIOUS
  <1>2. \A i \in 1..(Len(b) - r) : SubSeq(b, r + 1, Len(b))[i] = b[r + i]
    OBVIOUS
  <1>3. a \o b \in Seq(S) /\ Len(a \o b) = Len(a) + Len(b)
    OBVIOUS
  <1>4. \A i \in 1..(Len(a) + Len(b)) :
          (a \o b)[i] = IF i <= Len(a) THEN a[i] ELSE b[i - Len(a)]
    OBVIOUS
  <1> QED BY <1>1, <1>2, <1>3, <1>4

\* Inode::read puts together the bytes at consecutive addresses: after j
\* blocks it has those up to the end of the j-th.
LEMMA ReadBytes ==
  ASSUME NEW ino \in Inode, NEW c, c = Content(ino), Full(c), Fits(c),
         NEW n \in Nat, NEW offset \in Nat, Held(c, offset),
         NEW last \in Nat, Held(c, last), offset + n <= last + 1
  PROVE  read(ino, n, offset) = [i \in 1..n |-> Byte(c, offset + i - 1)]
  <1> DEFINE N == num_blocks(ino)
             first == offset \div SIZE
             r == offset % SIZE
             q == N - first
             chunk(k) == LET bytes == get_data(ino.blocks[k])
                         IN  IF k = first THEN SubSeq(bytes, r + 1, Len(bytes)) ELSE bytes
             seqs == [i \in 1..q |-> chunk(first + i - 1)]
             End(j) == (first + j - 1) * SIZE + Len(c[first + j - 1])
             g == [j \in 1..q |-> [i \in 1..(End(j) - offset) |-> Byte(c, offset + i - 1)]]
  <1>1. /\ N \in Nat /\ \A k \in Nat : k < N <=> k \in Idx /\ ino.blocks[k] # Nil
        /\ \A k \in Nat : k < N => /\ k \in Idx /\ c[k] = get_data(ino.blocks[k]) /\ c[k] # Nil
                                   /\ c[k] \in Seq(Bytes) /\ Len(c[k]) \in Nat /\ Len(c[k]) <= SIZE
    <2>1. N \in Nat /\ \A k \in Nat : k < N <=> k \in Idx /\ ino.blocks[k] # Nil
      BY BlocksPresent
    <2>2. c \in Contents /\ \A k \in Idx : ino.blocks[k] # Nil => c[k] = get_data(ino.blocks[k]) /\ c[k] # Nil
      BY ContentFacts
    <2> HIDE DEF N
    <2>3. \A k \in Idx : ino.blocks[k] # Nil => c[k] \in Seq(Bytes) /\ Len(c[k]) \in Nat /\ Len(c[k]) <= SIZE
      BY <2>2 DEF Contents, Fits
    <2> QED BY <2>1, <2>2, <2>3
  <1>2. first \in Nat /\ r \in Nat /\ offset = first * SIZE + r /\ r < SIZE /\ first * SIZE \in Nat
    BY DivMod, Times
  <1>3. first < N /\ r < Len(c[first])
    <2>1. first \in Idx /\ c[first] # Nil /\ r < Len(c[first])
      BY DEF Held
    <2>2. ino.blocks[first] # Nil
      BY <2>1, ContentFacts
    <2> QED BY <1>1, <1>2, <2>1, <2>2
  <1> HIDE DEF N, first, r
  <1>4. q \in Nat \ {0} /\ N = first + q
    BY <1>1, <1>2, <1>3
  <1>5. ASSUME NEW j \in 1..q
        PROVE  first + j - 1 \in Nat /\ first + j - 1 < N /\ (first + j - 1 = first <=> j = 1)
    BY <1>1, <1>2, <1>4
  <1>6. read(ino, n, offset) = [i \in 1..n |-> IF i <= Len(FlattenSeq(seqs)) THEN FlattenSeq(seqs)[i] ELSE Junk]
    BY DEF read, N, first, r
  <1>7. \A j \in 1..q : seqs[j] = IF j = 1 THEN SubSeq(c[first], r + 1, Len(c[first])) ELSE c[first + j - 1]
    <2> SUFFICES ASSUME NEW j \in 1..q
                 PROVE  seqs[j] = IF j = 1 THEN SubSeq(c[first], r + 1, Len(c[first])) ELSE c[first + j - 1]
      OBVIOUS
    <2>1. seqs[j] = chunk(first + j - 1)
      OBVIOUS
    <2> HIDE DEF q
    <2> QED BY <1>1, <1>5, <2>1
  <1>8. seqs \in Seq(Seq(Bytes)) /\ Len(seqs) = q
    <2>1. \A j \in 1..q : seqs[j] \in Seq(Bytes)
      <3>1. \A j \in 1..q : c[first + j - 1] \in Seq(Bytes)
        BY <1>1, <1>5
      <3>2. c[first] \in Seq(Bytes) /\ Len(c[first]) \in Nat
        BY <1>1, <1>2, <1>3
      <3>3. SubSeq(c[first], r + 1, Len(c[first])) \in Seq(Bytes)
        BY <1>2, <1>3, <3>2
      <3> HIDE DEF seqs, q
      <3> QED BY <1>7, <3>1, <3>3
    <2> HIDE DEF q, chunk
    <2> QED BY <1>4, <2>1
  <1> HIDE DEF seqs, q, chunk
  <1>9. \A j \in 1..q : seqs[j] \in Seq(Bytes)
    BY <1>8
  <1>10. ASSUME NEW j \in 1..q
         PROVE  /\ End(j) \in Nat /\ End(j) - offset \in Nat
                /\ g[j] = [i \in 1..(End(j) - offset) |-> Byte(c, offset + i - 1)]
                /\ g[j] = IF j = 1 THEN seqs[j] ELSE g[j - 1] \o seqs[j]
    <2> DEFINE k == first + j - 1
               y == k * SIZE
    <2>1. k \in Nat /\ k < N /\ k \in Idx /\ c[k] # Nil /\ c[k] \in Seq(Bytes) /\ Len(c[k]) \in Nat
          /\ Len(c[k]) <= SIZE
      BY <1>1, <1>5
    <2>2. y \in Nat /\ End(j) = y + Len(c[k])
      <3>1. y \in Nat
        <4> HIDE DEF k
        <4> QED BY <2>1, Times
      <3> QED BY <3>1
    <2>3. \A x \in Nat : x < Len(c[k]) => Byte(c, y + x) = c[k][x + 1]
      <3> HIDE DEF k
      <3> QED BY <2>1, BlockByte
    <2>4. CASE j = 1
      <3> DEFINE l == Len(c[k])
                 t == SubSeq(c[k], r + 1, l)
      <3>1. k = first /\ offset = y + r /\ r < l
        <4>1. k = first
          BY <1>5, <2>4
        <4> QED BY <1>2, <1>3, <4>1
      <3>2. seqs[j] = t
        BY <1>7, <2>4, <3>1
      <3> HIDE DEF k, y
      <3>3. /\ End(j) - offset = l - r /\ l - r \in Nat /\ End(j) \in Nat
            /\ t \in Seq(Bytes) /\ Len(t) = l - r /\ \A i \in 1..(l - r) : t[i] = c[k][r + i]
        <4>1. /\ l \in Nat /\ y \in Nat /\ r \in Nat /\ End(j) = y + l
          BY <1>2, <2>1, <2>2
        <4>2. t \in Seq(Bytes) /\ Len(t) = l - r /\ \A i \in 1..(l - r) : t[i] = c[k][r + i]
          <5>1. c[k] \in Seq(Bytes) /\ r \in Nat /\ r <= Len(c[k])
            BY <1>2, <2>1, <3>1
          <5> QED BY <5>1, Parts
        <4> HIDE DEF End, l, t
        <4> QED BY <3>1, <4>1, <4>2
      <3> HIDE DEF End, l, t
      <3>4. \A i \in 1..(l - r) : t[i] = Byte(c, offset + i - 1)
        <4> SUFFICES ASSUME NEW i \in 1..(l - r) PROVE t[i] = Byte(c, offset + i - 1)
          OBVIOUS
        <4>1. r + i - 1 \in Nat /\ r + i - 1 < l /\ y + (r + i - 1) = offset + i - 1
              /\ (r + i - 1) + 1 = r + i
          <5>1. l \in Nat /\ r \in Nat /\ y \in Nat /\ offset = y + r
            BY <1>2, <2>1, <2>2, <3>1 DEF l
          <5>2. i \in Nat /\ 1 <= i /\ i <= l - r
            BY <5>1
          <5> QED BY <5>1, <5>2
        <4> QED BY <2>3, <3>3, <4>1 DEF l
      <3>5. t = [i \in 1..(l - r) |-> Byte(c, offset + i - 1)]
        BY <3>3, <3>4
      <3>6. g[j] = [i \in 1..(End(j) - offset) |-> Byte(c, offset + i - 1)]
        OBVIOUS
      <3> HIDE DEF g
      <3> QED BY <2>4, <3>2, <3>3, <3>5, <3>6
    <2>5. CASE j # 1
      <3> DEFINE p == k - 1
                 m == y - offset
                 l == Len(c[k])
                 a == g[j - 1]
                 T == Bytes \cup {Byte(c, i) : i \in Nat}
      <3>1. /\ j - 1 \in 1..q /\ p = first + (j - 1) - 1 /\ p \in Nat /\ p < k /\ k = p + 1
            /\ first <= p /\ p < N
        BY <1>2, <1>4, <2>1, <2>5
      <3>2. seqs[j] = c[k]
        BY <1>7, <2>5
      <3>3. p \in Idx /\ Len(c[p]) = SIZE
        <4>1. p \in Idx
          BY <1>1, <3>1
        <4> HIDE DEF p, k
        <4> QED BY <2>1, <3>1, <4>1 DEF Full
      <3>4. End(j - 1) = p * SIZE + SIZE
        <4>1. End(j - 1) = (first + (j - 1) - 1) * SIZE + Len(c[first + (j - 1) - 1])
          OBVIOUS
        <4> HIDE DEF End, p
        <4> QED BY <3>1, <3>3, <4>1
      <3>5. /\ p * SIZE \in Nat /\ first * SIZE <= p * SIZE /\ (p + 1) * SIZE = p * SIZE + SIZE
        <4> HIDE DEF p, k
        <4> QED BY <1>2, <3>1, Times
      <3>6. End(j - 1) = y
        <4>1. y = (p + 1) * SIZE
          BY <3>1
        <4> HIDE DEF End, y, p
        <4> QED BY <3>4, <3>5, <4>1
      <3>7. m \in Nat
        <4> DEFINE z == p * SIZE
                   w == first * SIZE
        <4>1. y = z + SIZE /\ w <= z /\ offset = w + r /\ z \in Nat /\ w \in Nat
          BY <1>2, <3>1, <3>5
        <4> HIDE DEF z, w, y
        <4> QED BY <1>2, <2>2, <4>1, SizeNat
      <3>8. a = [i \in 1..m |-> Byte(c, offset + i - 1)]
        <4>1. g[j - 1] = [i \in 1..(End(j - 1) - offset) |-> Byte(c, offset + i - 1)]
          BY <3>1
        <4> HIDE DEF g, End, y
        <4> QED BY <3>6, <4>1
      <3>9. g[j] = [i \in 1..(End(j) - offset) |-> Byte(c, offset + i - 1)]
        OBVIOUS
      <3> HIDE DEF k, y, g
      <3>10. End(j) - offset = m + l /\ l \in Nat /\ m + l \in Nat /\ End(j) \in Nat
        <4>1. l \in Nat /\ End(j) = y + l
          BY <2>1, <2>2
        <4> HIDE DEF End, l
        <4> QED BY <2>2, <3>7, <4>1
      <3> HIDE DEF m, l, a, End, p
      <3>11. a \in Seq(T) /\ c[k] \in Seq(T) /\ Len(a) = m
        <4>1. \A i \in 1..m : Byte(c, offset + i - 1) \in T
          <5>1. \A i \in 1..m : offset + i - 1 \in Nat
            BY <3>7
          <5> QED BY <5>1
        <4>2. Bytes \subseteq T
          OBVIOUS
        <4> HIDE DEF T
        <4>3. a \in Seq(T) /\ Len(a) = m
          BY <3>7, <3>8, <4>1
        <4> QED BY <2>1, <4>2, <4>3
      <3> HIDE DEF T
      <3>12. /\ a \o c[k] \in Seq(T) /\ Len(a \o c[k]) = m + l
             /\ \A i \in 1..(m + l) : (a \o c[k])[i] = IF i <= m THEN a[i] ELSE c[k][i - m]
        <4>1. 0 \in Nat /\ 0 <= Len(c[k])
          BY <3>10 DEF l
        <4> DEFINE b == c[k]
        <4>2. b \in Seq(T) /\ a \in Seq(T) /\ Len(a) = m /\ Len(b) = l /\ 0 <= Len(b)
          BY <3>11, <4>1 DEF l
        <4> HIDE DEF b
        <4>3. /\ a \o b \in Seq(T) /\ Len(a \o b) = Len(a) + Len(b)
              /\ \A i \in 1..(Len(a) + Len(b)) :
                   (a \o b)[i] = IF i <= Len(a) THEN a[i] ELSE b[i - Len(a)]
          BY <4>1, <4>2, Parts
        <4> QED BY <4>2, <4>3 DEF b
      <3>13. \A i \in 1..(m + l) : (a \o c[k])[i] = Byte(c, offset + i - 1)
        <4> SUFFICES ASSUME NEW i \in 1..(m + l) PROVE (a \o c[k])[i] = Byte(c, offset + i - 1)
          OBVIOUS
        <4>1. CASE i <= m
          <5>1. i \in 1..m
            BY <3>7, <3>10, <4>1
          <5> QED BY <3>8, <3>12, <4>1, <5>1
        <4>2. CASE ~(i <= m)
          <5>1. i - m - 1 \in Nat /\ i - m - 1 < l /\ y + (i - m - 1) = offset + i - 1
                /\ (i - m - 1) + 1 = i - m
            BY <2>2, <3>7, <3>10, <4>2 DEF m
          <5>2. c[k][i - m] = Byte(c, offset + i - 1)
            BY <2>3, <5>1 DEF l
          <5> QED BY <3>12, <4>2, <5>2
        <4> QED BY <4>1, <4>2
      <3>14. a \o c[k] = [i \in 1..(m + l) |-> Byte(c, offset + i - 1)]
        <4> DEFINE u == a \o c[k]
        <4>1. u \in Seq(T) /\ Len(u) = m + l /\ \A i \in 1..(m + l) : u[i] = Byte(c, offset + i - 1)
          BY <3>12, <3>13
        <4> HIDE DEF u
        <4>2. u = [i \in 1..(m + l) |-> Byte(c, offset + i - 1)]
          BY <3>10, <4>1
        <4> QED BY <4>2 DEF u
      <3>15. g[j] = g[j - 1] \o seqs[j]
        BY <3>2, <3>9, <3>10, <3>14 DEF a
      <3>16. m + l \in Nat /\ End(j) - offset \in Nat
        BY <3>10
      <3> QED BY <2>5, <3>9, <3>10, <3>15, <3>16
    <2> QED BY <2>4, <2>5
  <1>11. FlattenSeq(seqs) = g[q]
    <2>1. g = [j \in 1..q |-> IF j = 1 THEN seqs[j] ELSE g[j - 1] \o seqs[j]]
      <3> DEFINE h == [j \in 1..q |-> IF j = 1 THEN seqs[j] ELSE g[j - 1] \o seqs[j]]
      <3>1. \A j \in 1..q : g[j] = h[j]
        <4> HIDE DEF g
        <4> QED BY <1>10
      <3>2. g = [j \in 1..q |-> g[j]] /\ h = [j \in 1..q |-> h[j]]
        BY DEF g, h
      <3> HIDE DEF g, h
      <3>3. g = h
        BY <3>1, <3>2
      <3> QED BY <3>3 DEF h
    <2>2. Joins(g, seqs)
      BY <1>8, <2>1, Zenon DEF Joins
    <2> HIDE DEF g
    <2> QED BY <1>4, <1>8, <2>2, Flatten
  <1>12. last < End(q)
    <2> DEFINE b == N - 1
               w == last \div SIZE
               x == last % SIZE
    <2>1. b \in Nat /\ b < N /\ b = first + q - 1
      BY <1>1, <1>2, <1>4
    <2>2. w \in Nat /\ x \in Nat /\ last = w * SIZE + x /\ x < SIZE
      BY DivMod
    <2>3. w < N /\ x < Len(c[w])
      <3>1. w \in Idx /\ c[w] # Nil /\ x < Len(c[w])
        BY DEF Held
      <3>2. ino.blocks[w] # Nil
        BY <3>1, ContentFacts
      <3> QED BY <1>1, <2>2, <3>1, <3>2
    <2>4. End(q) = b * SIZE + Len(c[b])
      <3>1. End(q) = (first + q - 1) * SIZE + Len(c[first + q - 1])
        OBVIOUS
      <3> HIDE DEF End, b
      <3> QED BY <2>1, <3>1
    <2> HIDE DEF b, w, x, End
    <2>5. Len(c[b]) \in Nat /\ w * SIZE \in Nat /\ b * SIZE \in Nat /\ (w < b => w * SIZE + SIZE <= b * SIZE)
      BY <1>1, <2>1, <2>2, Times
    <2>6. CASE w = b
      BY <2>2, <2>3, <2>4, <2>5, <2>6
    <2>7. CASE w < b
      BY <2>2, <2>4, <2>5, <2>7, SizeNat
    <2>8. w = b \/ w < b
      BY <1>1, <2>1, <2>2, <2>3 DEF b
    <2> QED BY <2>6, <2>7, <2>8
  <1>13. Len(g[q]) = End(q) - offset /\ \A i \in 1..(End(q) - offset) : g[q][i] = Byte(c, offset + i - 1)
    <2>1. q \in 1..q
      BY <1>4
    <2>2. g[q] = [i \in 1..(End(q) - offset) |-> Byte(c, offset + i - 1)] /\ End(q) - offset \in Nat
      BY <1>10, <2>1
    <2> HIDE DEF g, End
    <2> QED BY <2>2
  <1>14. End(q) \in Nat
    <2>1. q \in 1..q
      BY <1>4
    <2> HIDE DEF End
    <2> QED BY <1>10, <2>1
  <1> HIDE DEF g, End
  <1>15. \A i \in 1..n : (IF i <= Len(g[q]) THEN g[q][i] ELSE Junk) = Byte(c, offset + i - 1)
    <2> SUFFICES ASSUME NEW i \in 1..n
                 PROVE  (IF i <= Len(g[q]) THEN g[q][i] ELSE Junk) = Byte(c, offset + i - 1)
      OBVIOUS
    <2>1. i <= End(q) - offset /\ i \in 1..(End(q) - offset)
      BY <1>12, <1>14
    <2> QED BY <1>13, <2>1
  <1> QED BY <1>6, <1>11, <1>15

\* What a read returns is what the file holds.
LEMMA KeptReadsBack == SInv => ReadsBack
  <1> SUFFICES ASSUME SInv, call = Nil, sound, Loadable PROVE ReadsBack
    BY DEF ReadsBack
  <1>0. Current = Cur /\ Cur # Nil
    BY CurrentIs, CurType DEF SInv, LInv, Loadable
  <1> DEFINE c == Content(Cur)
  <1>1. Cur \in Inode /\ Kept /\ file \in Seq(Bytes) /\ Len(file) \in Nat
    BY CurType DEF SInv, LInv, TypeInv
  <1>2. /\ Full(c) /\ Fits(c) /\ Cur.size = Len(file)
        /\ \A i \in 0..(Len(file) - 1) : Held(c, i) /\ Byte(c, i) = file[i + 1]
    BY <1>1 DEF Kept, Stored, Pending
  <1> HIDE DEF c
  <1>3. ASSUME NEW offset \in 0..(Len(file) - 1), NEW n \in 1..(Len(file) - offset)
        PROVE  read(Cur, n, offset) = SubSeq(file, offset + 1, offset + n)
    <2> DEFINE last == Len(file) - 1
    <2>1. /\ n \in Nat /\ offset \in Nat /\ last \in Nat /\ offset + n <= last + 1
          /\ last \in 0..(Len(file) - 1)
      BY <1>1
    <2>2. Held(c, offset) /\ Held(c, last)
      BY <1>2, <2>1
    <2> HIDE DEF last
    <2>3. read(Cur, n, offset) = [i \in 1..n |-> Byte(c, offset + i - 1)]
      BY <1>1, <1>2, <2>1, <2>2, ReadBytes DEF c
    <2>4. \A i \in 1..n : Byte(c, offset + i - 1) = file[offset + i]
      <3> SUFFICES ASSUME NEW i \in 1..n PROVE Byte(c, offset + i - 1) = file[offset + i]
        OBVIOUS
      <3>1. offset + i - 1 \in 0..(Len(file) - 1) /\ (offset + i - 1) + 1 = offset + i
        BY <1>1, <2>1
      <3> QED BY <1>2, <3>1
    <2>5. SubSeq(file, offset + 1, offset + n) = [i \in 1..n |-> file[offset + i]]
      <3> DEFINE t == SubSeq(file, offset + 1, offset + n)
      <3>1. t \in Seq(Bytes) /\ Len(t) = n /\ \A i \in 1..n : t[i] = file[offset + i]
        BY <1>1, <2>1
      <3> HIDE DEF t
      <3>2. t = [i \in 1..n |-> file[offset + i]]
        BY <2>1, <3>1
      <3> QED BY <3>2 DEF t
    <2> QED BY <2>3, <2>4, <2>5
  <1> QED BY <1>0, <1>2, <1>3 DEF ReadsBack

\* Under the same condition a read of any part of the file returns the bytes
\* written there last, for every block size, every order of writes,
\* truncations, flushes and reloads, and every order in which the loader
\* meets the trees.
THEOREM WritesReadBack == Spec => []ReadsBack
  BY InitSInv, NextSInv, KeptReadsBack, PTL DEF Spec
=============================================================================
