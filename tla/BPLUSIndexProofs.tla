-------------------------- MODULE BPLUSIndexProofs --------------------------
(***************************************************************************)
(* The properties of the B+tree, for every ORDER of at least 4 and every   *)
(* set of keys.  While a node is being split, the tree in the file lacks   *)
(* the key and the child that are on their way up.  The proofs are about   *)
(* the tree with these already put into the node that is full: Virtual,    *)
(* which only that node over-fills.  Every node has a height h and a set d *)
(* of the keys that belong under it, which the invariant asserts to exist: *)
(* the children of a node share out its keys at its separators.            *)
(***************************************************************************)
EXTENDS BPLUSIndex, WellFoundedInduction, TLAPS

\* The node that holds one key too many during the call c.
Over(c) == IF c.op = "split" THEN c.at ELSE NoNode

\* The nodes t, with what the call c carries up in place.
Virtual(t, c) ==
  [i \in 1..Len(t) |->
     IF c.op = "split" /\ i = c.at THEN insert_into_node(t[i], c.key, c.value, c.targ)
     ELSE IF c.op = "split" /\ i = c.targ THEN [t[i] EXCEPT !.parent = c.at]
     ELSE t[i]]

\* The keys that are in the tree Virtual.
Stored(list, c) == IF c.op = "find" THEN Range(list) \ {c.key} ELSE Range(list)

Sorted(s) == \A a, b \in 1..Len(s) : a < b => s[a] < s[b]

NodeShape(n, most) ==
  /\ Len(n.keys) \in 1..most
  /\ Sorted(n.keys)
  /\ n.is_leaf => Len(n.values) = Len(n.keys) /\ n.children = << >>
  /\ ~n.is_leaf => Len(n.children) = Len(n.keys) + 1

\* k lies between the separators around child c of n.
Between(n, c, k) ==
  /\ c > 1 => n.keys[c - 1] <= k
  /\ c <= Len(n.keys) => k < n.keys[c]

\* Child c of node i: it names its parent, is one level lower, and the keys
\* that belong under it are those of i between the separators around it.
ChildShape(t, d, h, i, c) ==
  LET j == t[i].children[c]
  IN  /\ j \in 1..Len(t)
      /\ t[j].parent = i
      /\ h[i] = h[j] + 1
      /\ \A k \in Keys : k \in d[j] <=> (k \in d[i] /\ Between(t[i], c, k))

\* Node i is a child of the node it names as its parent.
ParentShape(t, i) ==
  LET p == t[i].parent
  IN  /\ p \in 1..Len(t)
      /\ ~t[p].is_leaf
      /\ \E c \in 1..Len(t[p].children) : t[p].children[c] = i

\* The nodes t are a balanced search tree with root r, in which only the
\* node over may hold ORDER keys.
Tree(t, r, over, d, h) ==
  /\ t \in Seq(Node)
  /\ d \in [1..Len(t) -> SUBSET Keys]
  /\ h \in [1..Len(t) -> Nat]
  /\ r \in 1..Len(t)
  /\ t[r].parent = NoNode
  /\ d[r] = Keys
  /\ h[r] < Len(t)
  /\ \A i \in 1..Len(t) : NodeShape(t[i], IF i = over THEN ORDER ELSE ORDER - 1)
  /\ \A i \in 1..Len(t) : \A a \in 1..Len(t[i].keys) : t[i].keys[a] \in d[i]
  /\ \A i \in 1..Len(t) : t[i].is_leaf <=> h[i] = 0
  /\ \A i \in 1..Len(t) : h[i] <= h[r]
  /\ \A i \in 1..Len(t) : i # r => ParentShape(t, i)
  /\ \A i \in 1..Len(t) : ~t[i].is_leaf =>
       \A c \in 1..Len(t[i].children) : ChildShape(t, d, h, i, c)
  /\ \A i, j \in 1..Len(t) : i # j /\ h[i] = h[j] =>
       \A k \in Keys : ~(k \in d[i] /\ k \in d[j])

\* The keys of the tree are those of K, each in a leaf with its place in the
\* inode list.
Contents(t, K, list) ==
  /\ \A i \in 1..Len(t) : \A a \in 1..Len(t[i].keys) : t[i].keys[a] \in K
  /\ \A i \in 1..Len(t) : t[i].is_leaf =>
       \A a \in 1..Len(t[i].keys) :
         t[i].values[a] \in 1..Len(list) /\ list[t[i].values[a]] = t[i].keys[a]
  /\ \A k \in K : \E i \in 1..Len(t) : \E a \in 1..Len(t[i].keys) :
       t[i].is_leaf /\ t[i].keys[a] = k

\* A full node that a new key is to go into.
Full(n, k, v, targ) ==
  /\ n \in Node /\ k \in Keys /\ v \in Nat /\ targ \in Nat
  /\ NodeShape(n, ORDER - 1)
  /\ IsFull(n)
  /\ n.is_leaf <=> targ = NoNode
  /\ \A a \in 1..Len(n.keys) : n.keys[a] # k

\* The call c is on the way to the leaf for the last inode.
FindCall(t, list, c, d) ==
  /\ list # << >>
  /\ c = Finding(list[Len(list)], Len(list), c.at)
  /\ c.at \in 1..Len(t)
  /\ c.key \in d[c.at]

\* The call c splits a node that is full and does not hold the new key.
SplitCall(t, c) ==
  /\ c = Splitting(c.key, c.value, c.at, c.targ)
  /\ c.at \in 1..Len(t)
  /\ c.targ \in 0..Len(t)
  /\ Full(t[c.at], c.key, c.value, c.targ)

\* What has been built when the call c is under way.
Built(t, rt, list, c, d, h) ==
  /\ Tree(Virtual(t, c), rt, Over(c), d, h)
  /\ Contents(Virtual(t, c), Stored(list, c), list)
  /\ c = Idle \/ FindCall(t, list, c, d) \/ SplitCall(t, c)

\* The inductive invariant.
IndexInv ==
  /\ node \in Seq(Node)
  /\ root \in 0..Len(node)
  /\ inodes \in Seq(Keys)
  /\ \A a, b \in 1..Len(inodes) : a # b => inodes[a] # inodes[b]
  /\ root = NoNode => node = << >> /\ inodes = << >> /\ call = Idle
  /\ root # NoNode => \E d, h : Built(node, root, inodes, call, d, h)
-----------------------------------------------------------------------------
(* Sequences.                                                              *)

\* Every non-empty set of naturals has a least element.
LEMMA Least ==
  ASSUME NEW T, T \subseteq Nat, T # {}
  PROVE  \E x \in T : \A y \in T : x <= y
  <1> DEFINE R == OpToRel(<, Nat)
  <1>1. IsWellFoundedOn(R, Nat)
    BY NatLessThanWellFounded
  <1>2. \A x, y \in Nat : <<y, x>> \in R <=> y < x
    BY DEF OpToRel
  <1> HIDE DEF R
  <1>3. PICK x \in T : \A y \in T : ~(<<y, x>> \in R)
    BY <1>1, WFMin
  <1>4. x \in Nat /\ \A y \in T : y \in Nat
    BY <1>3
  <1>5. \A y \in T : ~(y < x)
    BY <1>2, <1>3, <1>4
  <1> QED BY <1>3, <1>4, <1>5

\* A part of a sequence, place by place.
LEMMA SubSeqAt ==
  ASSUME NEW S, NEW s \in Seq(S), NEW a \in Nat, NEW b \in Nat,
         1 <= a, a <= b + 1, b <= Len(s)
  PROVE  /\ SubSeq(s, a, b) \in Seq(S)
         /\ Len(SubSeq(s, a, b)) = b - a + 1
         /\ \A j \in 1..(b - a + 1) : SubSeq(s, a, b)[j] = s[a + j - 1]
  OBVIOUS

\* t is s with e put in at place p.
Inserted(t, s, p, e) ==
  /\ Len(t) = Len(s) + 1
  /\ t[p] = e
  /\ \A j \in 1..(p - 1) : t[j] = s[j]
  /\ \A j \in (p + 1)..(Len(s) + 1) : t[j] = s[j - 1]

\* What InsertAt makes of a sequence, place by place.
LEMMA InsertedAt ==
  ASSUME NEW S, NEW s \in Seq(S), NEW e \in S, NEW p \in 1..(Len(s) + 1)
  PROVE  InsertAt(s, p, e) \in Seq(S) /\ Inserted(InsertAt(s, p, e), s, p, e)
  <1> DEFINE u == SubSeq(s, 1, p - 1)
             v == SubSeq(s, p, Len(s))
  <1>1. u \in Seq(S) /\ Len(u) = p - 1 /\ \A j \in 1..(p - 1) : u[j] = s[j]
    BY SubSeqAt
  <1>2. v \in Seq(S) /\ Len(v) = Len(s) - p + 1 /\ \A j \in 1..(Len(s) - p + 1) : v[j] = s[p + j - 1]
    BY SubSeqAt
  <1>3. InsertAt(s, p, e) = (u \o <<e>>) \o v
    BY DEF InsertAt
  <1> HIDE DEF u, v
  <1> DEFINE w == u \o <<e>>
  <1>4. w \in Seq(S) /\ Len(w) = p /\ w[p] = e /\ \A j \in 1..(p - 1) : w[j] = s[j]
    BY <1>1
  <1> HIDE DEF w
  <1>5. (w \o v) \in Seq(S) /\ Len(w \o v) = Len(s) + 1
    BY <1>2, <1>4
  <1>6. (w \o v)[p] = e /\ \A j \in 1..(p - 1) : (w \o v)[j] = s[j]
    BY <1>2, <1>4
  <1>7. ASSUME NEW j \in (p + 1)..(Len(s) + 1) PROVE (w \o v)[j] = s[j - 1]
    <2>1. (w \o v)[j] = v[j - p]
      BY <1>2, <1>4
    <2>2. v[j - p] = s[p + (j - p) - 1]
      BY <1>2
    <2> QED BY <2>1, <2>2
  <1> QED BY <1>3, <1>5, <1>6, <1>7 DEF w, Inserted

\* Two sequences of the same length and with the same entries are equal.
LEMMA SeqEqual ==
  ASSUME NEW S, NEW s \in Seq(S), NEW t \in Seq(S), Len(s) = Len(t),
         \A j \in 1..Len(s) : s[j] = t[j]
  PROVE  s = t
  OBVIOUS

\* insert_into_node's loop finds a place, which keeps the keys sorted.
LEMMA PositionFound ==
  ASSUME NEW n, n.keys \in Seq(Int), NEW k \in Int
  PROVE  LET p == Position(n, k)
         IN  /\ p \in 1..(Len(n.keys) + 1)
             /\ \A i \in 1..(p - 1) : n.keys[i] <= k
             /\ p <= Len(n.keys) => k < n.keys[p]
  <1> DEFINE s == n.keys
             T == {p \in 1..(Len(s) + 1) : p <= Len(s) => k < s[p]}
  <1>1. s \in Seq(Int)
    OBVIOUS
  <1> HIDE DEF s
  <1>2. Len(s) \in Nat /\ \A i \in 1..Len(s) : s[i] \in Int
    BY <1>1
  <1>3. T \subseteq Nat /\ Len(s) + 1 \in T
    BY <1>2
  <1>4. PICK p \in T : \A q \in T : p <= q
    BY <1>3, Least
  <1>5. \A i \in 1..(p - 1) : s[i] <= k
    BY <1>2, <1>4
  <1>6. p \in 1..(Len(s) + 1) /\ (p <= Len(s) => k < s[p])
    BY <1>4
  <1> QED BY <1>5, <1>6 DEF Position, num_keys, s

\* k goes between the keys before place p and those from p on.
Fits(s, p, k) ==
  /\ p \in 1..(Len(s) + 1)
  /\ \A a \in 1..(p - 1) : s[a] < k
  /\ \A a \in p..Len(s) : k < s[a]

\* Where the loop stops in a sorted node that does not hold the key.
LEMMA PositionFits ==
  ASSUME NEW n, n.keys \in Seq(Int), Sorted(n.keys), NEW k \in Int,
         \A a \in 1..Len(n.keys) : n.keys[a] # k
  PROVE  Fits(n.keys, Position(n, k), k)
  <1> DEFINE s == n.keys
             p == Position(n, k)
  <1>1. /\ p \in 1..(Len(s) + 1)
        /\ \A i \in 1..(p - 1) : s[i] <= k
        /\ p <= Len(s) => k < s[p]
    BY PositionFound
  <1>2. \A a, b \in 1..Len(s) : a < b => s[a] < s[b]
    BY DEF Sorted
  <1>3. \A a \in 1..Len(s) : s[a] # k
    OBVIOUS
  <1>4. Len(s) \in Nat /\ \A i \in 1..Len(s) : s[i] \in Int
    OBVIOUS
  <1> HIDE DEF s, p
  <1>5. \A a \in 1..(p - 1) : s[a] < k
    BY <1>1, <1>3, <1>4
  <1>6. ASSUME NEW a \in p..Len(s) PROVE k < s[a]
    <2>1. a \in 1..Len(s) /\ p \in 1..Len(s) /\ (a = p \/ p < a)
      BY <1>1, <1>4
    <2>2. s[p] = s[a] \/ s[p] < s[a]
      BY <1>2, <2>1
    <2> QED BY <1>1, <1>4, <2>1, <2>2
  <1> QED BY <1>1, <1>5, <1>6 DEF s, p, Fits

\* The loop stops where the key fits.
LEMMA PositionIs ==
  ASSUME NEW n, n.keys \in Seq(Int), NEW k \in Int, NEW p, Fits(n.keys, p, k)
  PROVE  Position(n, k) = p
  <1> DEFINE s == n.keys
             q == Position(n, k)
  <1>1. /\ q \in 1..(Len(s) + 1)
        /\ \A i \in 1..(q - 1) : s[i] <= k
        /\ q <= Len(s) => k < s[q]
    BY PositionFound
  <1>2. /\ p \in 1..(Len(s) + 1)
        /\ \A a \in 1..(p - 1) : s[a] < k
        /\ \A a \in p..Len(s) : k < s[a]
    BY DEF Fits
  <1>3. Len(s) \in Nat /\ \A i \in 1..Len(s) : s[i] \in Int
    OBVIOUS
  <1> HIDE DEF s, q
  <1>4. ASSUME q < p PROVE FALSE
    <2>1. q \in 1..Len(s) /\ q \in 1..(p - 1)
      BY <1>1, <1>2, <1>3, <1>4
    <2> QED BY <1>1, <1>2, <1>3, <2>1
  <1>5. ASSUME p < q PROVE FALSE
    <2>1. p \in 1..(q - 1) /\ p \in 1..Len(s) /\ p \in p..Len(s)
      BY <1>1, <1>2, <1>3, <1>5
    <2> QED BY <1>1, <1>2, <1>3, <2>1
  <1>6. q = p
    BY <1>1, <1>2, <1>3, <1>4, <1>5
  <1> QED BY <1>6 DEF q

\* A new key at its place keeps a sequence sorted.
LEMMA InsertSorted ==
  ASSUME NEW s \in Seq(Int), Sorted(s), NEW k \in Int, NEW p, Fits(s, p, k),
         NEW t \in Seq(Int), Inserted(t, s, p, k)
  PROVE  Sorted(t)
  <1>1. /\ Len(t) = Len(s) + 1 /\ t[p] = k
        /\ \A j \in 1..(p - 1) : t[j] = s[j]
        /\ \A j \in (p + 1)..(Len(s) + 1) : t[j] = s[j - 1]
    BY DEF Inserted
  <1>2. \A a, b \in 1..Len(s) : a < b => s[a] < s[b]
    BY DEF Sorted
  <1>3. Len(s) \in Nat
    OBVIOUS
  <1>4. /\ p \in 1..(Len(s) + 1)
        /\ \A a \in 1..(p - 1) : s[a] < k
        /\ \A a \in p..Len(s) : k < s[a]
    BY DEF Fits
  <1>5. ASSUME NEW a \in 1..Len(t), NEW b \in 1..Len(t), a < b PROVE t[a] < t[b]
    <2>1. a \in 1..(Len(s) + 1) /\ b \in 1..(Len(s) + 1)
      BY <1>1
    <2>2. CASE b < p
      <3>1. a \in 1..(p - 1) /\ b \in 1..(p - 1) /\ a \in 1..Len(s) /\ b \in 1..Len(s)
        BY <1>3, <1>4, <1>5, <2>1, <2>2
      <3> QED BY <1>1, <1>2, <1>5, <3>1
    <2>3. CASE b = p
      BY <1>1, <1>3, <1>4, <1>5, <2>1, <2>3
    <2>4. CASE b > p /\ a < p
      <3>1. a \in 1..(p - 1) /\ a \in 1..Len(s) /\ b \in (p + 1)..(Len(s) + 1) /\ b - 1 \in 1..Len(s) /\ a < b - 1
        BY <1>3, <1>4, <1>5, <2>1, <2>4
      <3>2. t[a] = s[a] /\ t[b] = s[b - 1]
        BY <1>1, <3>1
      <3> QED BY <1>2, <3>1, <3>2
    <2>5. CASE b > p /\ a = p
      <3>1. b \in (p + 1)..(Len(s) + 1) /\ b - 1 \in p..Len(s)
        BY <1>3, <1>4, <2>1, <2>5
      <3>2. t[a] = k /\ t[b] = s[b - 1]
        BY <1>1, <2>5, <3>1
      <3> QED BY <1>4, <3>1, <3>2
    <2>6. CASE b > p /\ a > p
      <3>1. /\ a \in (p + 1)..(Len(s) + 1) /\ b \in (p + 1)..(Len(s) + 1)
            /\ a - 1 \in 1..Len(s) /\ b - 1 \in 1..Len(s) /\ a - 1 < b - 1
        BY <1>3, <1>4, <1>5, <2>1, <2>6
      <3>2. t[a] = s[a - 1] /\ t[b] = s[b - 1]
        BY <1>1, <3>1
      <3> QED BY <1>2, <3>1, <3>2
    <2>7. b < p \/ b = p \/ (b > p /\ (a < p \/ a = p \/ a > p))
      BY <1>4
    <2> QED BY <2>2, <2>3, <2>4, <2>5, <2>6, <2>7
  <1> QED BY <1>5 DEF Sorted

\* u is the part of w that is len long and begins behind place off.
Part(u, w, off, len) ==
  /\ Len(u) = len
  /\ \A j \in 1..len : u[j] = w[off + j]

\* The parts that SubSeq cuts out.
LEMMA SubSeqPart ==
  ASSUME NEW S, NEW s \in Seq(S), NEW a \in Nat, NEW b \in Nat, a <= b, b <= Len(s)
  PROVE  SubSeq(s, a + 1, b) \in Seq(S) /\ Part(SubSeq(s, a + 1, b), s, a, b - a)
  <1> DEFINE c == SubSeq(s, a + 1, b)
  <1>1. /\ c \in Seq(S) /\ Len(c) = b - (a + 1) + 1
        /\ \A j \in 1..(b - (a + 1) + 1) : c[j] = s[(a + 1) + j - 1]
    BY SubSeqAt
  <1>2. b - (a + 1) + 1 = b - a /\ \A j \in Int : (a + 1) + j - 1 = a + j
    OBVIOUS
  <1> HIDE DEF c
  <1>3. Part(c, s, a, b - a)
    BY <1>1, <1>2 DEF Part
  <1> QED BY <1>1, <1>3 DEF c

\* The part at the beginning.
LEMMA HeadPart ==
  ASSUME NEW S, NEW s \in Seq(S), NEW b \in Nat, b <= Len(s)
  PROVE  SubSeq(s, 1, b) \in Seq(S) /\ Part(SubSeq(s, 1, b), s, 0, b)
  <1>1. SubSeq(s, 0 + 1, b) \in Seq(S) /\ Part(SubSeq(s, 0 + 1, b), s, 0, b - 0)
    BY SubSeqPart
  <1>2. 0 + 1 = 1 /\ b - 0 = b
    OBVIOUS
  <1> QED BY <1>1, <1>2

\* A part of a sorted sequence is sorted, and a key fits into it where it
\* fits into the whole.
LEMMA PartFits ==
  ASSUME NEW s, Len(s) \in Nat, NEW c, NEW off \in Nat, NEW len \in Nat,
         off + len <= Len(s), Part(c, s, off, len)
  PROVE  /\ Sorted(s) => Sorted(c)
         /\ \A k, p \in Int : Fits(s, p, k) /\ off < p /\ p <= off + len + 1 => Fits(c, p - off, k)
  <1>1. Len(c) = len /\ \A j \in 1..len : c[j] = s[off + j]
    BY DEF Part
  <1>2. \A j \in 1..len : off + j \in 1..Len(s)
    OBVIOUS
  <1>3. ASSUME Sorted(s), NEW a \in 1..Len(c), NEW b \in 1..Len(c), a < b PROVE c[a] < c[b]
    <2>1. off + a \in 1..Len(s) /\ off + b \in 1..Len(s) /\ off + a < off + b
      BY <1>1, <1>2, <1>3
    <2>2. s[off + a] < s[off + b]
      BY <1>3, <2>1 DEF Sorted
    <2> QED BY <1>1, <1>3, <2>2
  <1>4. ASSUME NEW k \in Int, NEW p \in Int, Fits(s, p, k), off < p, p <= off + len + 1
        PROVE  Fits(c, p - off, k)
    <2>1. p - off \in 1..(Len(c) + 1)
      BY <1>1, <1>4
    <2>2. ASSUME NEW a \in 1..((p - off) - 1) PROVE c[a] < k
      <3>1. a \in 1..len /\ off + a \in 1..(p - 1)
        BY <1>4
      <3> QED BY <1>1, <1>4, <3>1 DEF Fits
    <2>3. ASSUME NEW a \in (p - off)..Len(c) PROVE k < c[a]
      <3>1. a \in 1..len /\ off + a \in p..Len(s)
        BY <1>1, <1>4
      <3> QED BY <1>1, <1>4, <3>1 DEF Fits
    <2> QED BY <2>1, <2>2, <2>3 DEF Fits
  <1> QED BY <1>3, <1>4 DEF Sorted

\* Cutting behind the place and inserting is inserting and cutting.
LEMMA InsertLeft ==
  ASSUME NEW s, Len(s) \in Nat, NEW e, NEW m \in Nat, m <= Len(s), NEW p \in 1..(m + 1),
         NEW c, Part(c, s, 0, m), NEW u, Inserted(u, c, p, e), NEW w, Inserted(w, s, p, e)
  PROVE  Part(u, w, 0, m + 1)
  <1>1. Len(c) = m /\ \A j \in 1..m : c[j] = s[j]
    BY DEF Part
  <1>2. /\ Len(u) = m + 1 /\ u[p] = e
        /\ \A j \in 1..(p - 1) : u[j] = c[j]
        /\ \A j \in (p + 1)..(m + 1) : u[j] = c[j - 1]
    BY <1>1 DEF Inserted
  <1>3. /\ w[p] = e
        /\ \A j \in 1..(p - 1) : w[j] = s[j]
        /\ \A j \in (p + 1)..(Len(s) + 1) : w[j] = s[j - 1]
    BY DEF Inserted
  <1>4. ASSUME NEW j \in 1..(m + 1) PROVE u[j] = w[0 + j]
    <2>1. CASE j < p
      <3>1. j \in 1..(p - 1) /\ j \in 1..m
        BY <2>1
      <3> QED BY <1>1, <1>2, <1>3, <3>1
    <2>2. CASE j = p
      BY <1>2, <1>3, <2>2
    <2>3. CASE j > p
      <3>1. j \in (p + 1)..(m + 1) /\ j - 1 \in 1..m /\ j \in (p + 1)..(Len(s) + 1)
        BY <2>3
      <3> QED BY <1>1, <1>2, <1>3, <3>1
    <2> QED BY <2>1, <2>2, <2>3
  <1> QED BY <1>2, <1>4 DEF Part

\* What lies behind the place is moved up by one.
LEMMA InsertBefore ==
  ASSUME NEW s, Len(s) \in Nat, NEW e, NEW b \in Nat, b <= Len(s), NEW p \in 1..(b + 1),
         NEW c, Part(c, s, b, Len(s) - b), NEW w, Inserted(w, s, p, e)
  PROVE  Part(c, w, b + 1, Len(s) - b)
  <1>1. Len(c) = Len(s) - b /\ \A j \in 1..(Len(s) - b) : c[j] = s[b + j]
    BY DEF Part
  <1>2. \A j \in (p + 1)..(Len(s) + 1) : w[j] = s[j - 1]
    BY DEF Inserted
  <1>3. ASSUME NEW j \in 1..(Len(s) - b) PROVE c[j] = w[(b + 1) + j]
    <2>1. (b + 1) + j \in (p + 1)..(Len(s) + 1) /\ ((b + 1) + j) - 1 = b + j
      OBVIOUS
    <2> QED BY <1>1, <1>2, <2>1
  <1> QED BY <1>1, <1>3 DEF Part

\* Cutting before the place and inserting is inserting and cutting.
LEMMA InsertRight ==
  ASSUME NEW s, Len(s) \in Nat, NEW e, NEW m \in Nat, NEW p \in 1..(Len(s) + 1), m < p,
         NEW c, Part(c, s, m, Len(s) - m), NEW u, Inserted(u, c, p - m, e),
         NEW w, Inserted(w, s, p, e)
  PROVE  Part(u, w, m, Len(s) - m + 1)
  <1> DEFINE q == p - m
  <1>1. Len(c) = Len(s) - m /\ \A j \in 1..(Len(s) - m) : c[j] = s[m + j]
    BY DEF Part
  <1>2. q \in 1..(Len(c) + 1) /\ p = m + q
    BY <1>1
  <1>3. Inserted(u, c, q, e)
    OBVIOUS
  <1> HIDE DEF q
  <1>4. /\ Len(u) = Len(s) - m + 1 /\ u[q] = e
        /\ \A j \in 1..(q - 1) : u[j] = c[j]
        /\ \A j \in (q + 1)..(Len(s) - m + 1) : u[j] = c[j - 1]
    BY <1>1, <1>3 DEF Inserted
  <1>5. /\ w[p] = e
        /\ \A j \in 1..(p - 1) : w[j] = s[j]
        /\ \A j \in (p + 1)..(Len(s) + 1) : w[j] = s[j - 1]
    BY DEF Inserted
  <1>6. ASSUME NEW j \in 1..(Len(s) - m + 1) PROVE u[j] = w[m + j]
    <2>1. CASE j < q
      <3>1. j \in 1..(q - 1) /\ j \in 1..(Len(s) - m) /\ m + j \in 1..(p - 1)
        BY <1>1, <1>2, <2>1
      <3> QED BY <1>1, <1>4, <1>5, <3>1
    <2>2. CASE j = q
      BY <1>2, <1>4, <1>5, <2>2
    <2>3. CASE j > q
      <3>1. /\ j \in (q + 1)..(Len(s) - m + 1) /\ m + j \in (p + 1)..(Len(s) + 1)
            /\ j - 1 \in 1..(Len(s) - m) /\ m + (j - 1) = (m + j) - 1
        BY <1>1, <1>2, <2>3
      <3>2. u[j] = c[j - 1] /\ w[m + j] = s[(m + j) - 1] /\ c[j - 1] = s[m + (j - 1)]
        BY <1>1, <1>4, <1>5, <3>1
      <3> QED BY <3>1, <3>2
    <2>4. j < q \/ j = q \/ j > q
      BY <1>2
    <2> QED BY <2>1, <2>2, <2>3, <2>4
  <1> QED BY <1>4, <1>6 DEF Part

\* What lies before the place stays.
LEMMA InsertBehind ==
  ASSUME NEW s, NEW e, NEW b \in Nat, NEW p \in Int, b < p,
         NEW c, Part(c, s, 0, b), NEW w, Inserted(w, s, p, e)
  PROVE  Part(c, w, 0, b)
  <1>1. Len(c) = b /\ \A j \in 1..b : c[j] = s[j]
    BY DEF Part
  <1>2. \A j \in 1..(p - 1) : w[j] = s[j]
    BY DEF Inserted
  <1>3. ASSUME NEW j \in 1..b PROVE c[j] = w[0 + j]
    <2>1. j \in 1..(p - 1) /\ 0 + j = j
      OBVIOUS
    <2> QED BY <1>1, <1>2, <2>1
  <1> QED BY <1>1, <1>3 DEF Part
-----------------------------------------------------------------------------
(* Nodes.                                                                  *)

\* The fields of a node.
LEMMA NodeFields ==
  ASSUME NEW n \in Node
  PROVE  /\ n.parent \in Nat /\ n.is_leaf \in BOOLEAN /\ n.keys \in Seq(Keys)
         /\ n.values \in Seq(Nat) /\ n.children \in Seq(Nat) /\ n.keys \in Seq(Int)
  <1>1. /\ n.parent \in Nat /\ n.is_leaf \in BOOLEAN /\ n.keys \in Seq(Keys)
        /\ n.values \in Seq(Nat) /\ n.children \in Seq(Nat)
    BY DEF Node
  <1> DEFINE s == n.keys
  <1>2. s \in Seq(Keys)
    BY <1>1
  <1> HIDE DEF s
  <1>3. Len(s) \in Nat /\ DOMAIN s = 1..Len(s) /\ \A i \in 1..Len(s) : s[i] \in Keys
    BY <1>2
  <1>4. s = [i \in 1..Len(s) |-> s[i]]
    BY <1>2
  <1>5. \A i \in 1..Len(s) : s[i] \in Int
    BY <1>3, IndexAssumption
  <1>6. [i \in 1..Len(s) |-> s[i]] \in Seq(Int)
    BY <1>3, <1>5
  <1> QED BY <1>1, <1>4, <1>6 DEF s

\* A node with another parent, other keys and values, or other children.
LEMMA NodeUpdates ==
  ASSUME NEW n \in Node, NEW p \in Nat, NEW ks \in Seq(Keys),
         NEW vs \in Seq(Nat), NEW cs \in Seq(Nat)
  PROVE  /\ [n EXCEPT !.parent = p] \in Node
         /\ [n EXCEPT !.keys = ks, !.values = vs] \in Node
         /\ [n EXCEPT !.keys = ks, !.children = cs] \in Node
         /\ [n EXCEPT !.parent = p, !.keys = ks, !.values = vs] \in Node
         /\ [n EXCEPT !.parent = p, !.keys = ks, !.children = cs] \in Node
  <1> DEFINE K == Seq(Keys)
             V == Seq(Nat)
  <1>1. /\ Node = [parent : Nat, is_leaf : BOOLEAN, keys : K, values : V, children : V]
        /\ ks \in K /\ vs \in V /\ cs \in V
    BY DEF Node
  <1> HIDE DEF K, V
  <1> QED BY <1>1

\* q is the node n with the key k, and its value or child, put in at p.
NodeInserted(q, n, p, k, v, child) ==
  /\ q \in Node
  /\ q.parent = n.parent
  /\ q.is_leaf = n.is_leaf
  /\ Inserted(q.keys, n.keys, p, k)
  /\ n.is_leaf => Inserted(q.values, n.values, p, v) /\ q.children = n.children
  /\ ~n.is_leaf => Inserted(q.children, n.children, p + 1, child)

\* What insert_into_node does to a node.
LEMMA InsertedNode ==
  ASSUME NEW n \in Node, NEW k \in Keys, NEW v \in Nat, NEW child \in Nat,
         n.is_leaf => Len(n.values) = Len(n.keys),
         ~n.is_leaf => Len(n.children) = Len(n.keys) + 1
  PROVE  NodeInserted(insert_into_node(n, k, v, child), n, Position(n, k), k, v, child)
  <1> DEFINE p == Position(n, k)
             q == insert_into_node(n, k, v, child)
             ks == InsertAt(n.keys, p, k)
  <1>1. /\ n.keys \in Seq(Keys) /\ n.keys \in Seq(Int) /\ k \in Int
        /\ n.values \in Seq(Nat) /\ n.children \in Seq(Nat) /\ n.is_leaf \in BOOLEAN
    BY NodeFields, IndexAssumption
  <1>2. p \in 1..(Len(n.keys) + 1)
    BY <1>1, PositionFound
  <1> HIDE DEF p
  <1>3. ks \in Seq(Keys) /\ Inserted(ks, n.keys, p, k)
    BY <1>1, <1>2, InsertedAt
  <1>4. CASE n.is_leaf
    <2> DEFINE vs == InsertAt(n.values, p, v)
    <2>1. p \in 1..(Len(n.values) + 1)
      BY <1>2, <1>4
    <2>2. vs \in Seq(Nat) /\ Inserted(vs, n.values, p, v)
      BY <1>1, <2>1, InsertedAt
    <2>3. q = [n EXCEPT !.keys = ks, !.values = vs]
      BY <1>4 DEF insert_into_node, p
    <2> HIDE DEF q, ks, vs
    <2>4. q \in Node
      BY <1>3, <2>2, <2>3, NodeUpdates
    <2>5. /\ q.parent = n.parent /\ q.is_leaf = n.is_leaf /\ q.keys = ks
          /\ q.values = vs /\ q.children = n.children
      BY <2>3 DEF Node
    <2>6. NodeInserted(q, n, p, k, v, child)
      BY <1>3, <1>4, <2>2, <2>4, <2>5 DEF NodeInserted
    <2> QED BY <2>6 DEF p, q
  <1>5. CASE ~n.is_leaf
    <2> DEFINE cs == InsertAt(n.children, p + 1, child)
    <2>1. p + 1 \in 1..(Len(n.children) + 1)
      BY <1>1, <1>2, <1>5
    <2>2. cs \in Seq(Nat) /\ Inserted(cs, n.children, p + 1, child)
      BY <1>1, <2>1, InsertedAt
    <2>3. q = [n EXCEPT !.keys = ks, !.children = cs]
      BY <1>5 DEF insert_into_node, p
    <2> HIDE DEF q, ks, cs
    <2>4. q \in Node
      BY <1>3, <2>2, <2>3, NodeUpdates
    <2>5. /\ q.parent = n.parent /\ q.is_leaf = n.is_leaf /\ q.keys = ks
          /\ q.values = n.values /\ q.children = cs
      BY <2>3 DEF Node
    <2>6. NodeInserted(q, n, p, k, v, child)
      BY <1>3, <1>5, <2>2, <2>4, <2>5 DEF NodeInserted
    <2> QED BY <2>6 DEF p, q
  <1> QED BY <1>1, <1>4, <1>5

\* The new key keeps the shape of the node, with one key more.
LEMMA InsertedShape ==
  ASSUME NEW n \in Node, NEW most \in Nat, NodeShape(n, most), NEW k \in Keys,
         NEW v, NEW child, NEW p, Fits(n.keys, p, k),
         NEW q, NodeInserted(q, n, p, k, v, child)
  PROVE  NodeShape(q, most + 1) /\ Len(q.keys) = Len(n.keys) + 1
  <1>1. /\ n.keys \in Seq(Int) /\ q.keys \in Seq(Int) /\ k \in Int /\ n.is_leaf \in BOOLEAN
        /\ q \in Node /\ Inserted(q.keys, n.keys, p, k) /\ q.is_leaf = n.is_leaf
        /\ n.is_leaf => Inserted(q.values, n.values, p, v) /\ q.children = n.children
        /\ ~n.is_leaf => Inserted(q.children, n.children, p + 1, child)
    BY NodeFields, IndexAssumption DEF NodeInserted
  <1>2. /\ Len(n.keys) \in 1..most /\ Sorted(n.keys)
        /\ n.is_leaf => Len(n.values) = Len(n.keys) /\ n.children = << >>
        /\ ~n.is_leaf => Len(n.children) = Len(n.keys) + 1
    BY DEF NodeShape
  <1>3. Sorted(q.keys)
    BY <1>1, <1>2, InsertSorted
  <1>4. Len(q.keys) = Len(n.keys) + 1
    BY <1>1 DEF Inserted
  <1>5. n.is_leaf => Len(q.values) = Len(q.keys) /\ q.children = << >>
    BY <1>1, <1>2, <1>4 DEF Inserted
  <1>6. ~n.is_leaf => Len(q.children) = Len(q.keys) + 1
    BY <1>1, <1>2, <1>4 DEF Inserted
  <1>7. Len(q.keys) \in 1..(most + 1)
    BY <1>2, <1>4
  <1> QED BY <1>1, <1>3, <1>4, <1>5, <1>6, <1>7 DEF NodeShape

\* The median key lies inside a full node, and leaves a key on both sides.
LEMMA MedianPlace == med_idx \in 1..(ORDER - 3)
  BY IndexAssumption DEF med_idx

\* The halves of AfterSplit.
Halves(n, targ) == IF targ = NoNode THEN SplitLeaf(n) ELSE SplitParent(n)
LeftHalf(n, k, v, targ) ==
  IF k < n.keys[med_idx + 1] THEN insert_into_node(Halves(n, targ).left, k, v, targ)
                             ELSE Halves(n, targ).left
RightHalf(n, k, v, targ) ==
  IF k < n.keys[med_idx + 1] THEN Halves(n, targ).right
                             ELSE insert_into_node(Halves(n, targ).right, k, v, targ)

\* l and r are the halves of the over-full node w, cut behind its key m; the
\* key behind it goes up, and stays in a leaf as well.
NodeSplit(l, r, w, m) ==
  /\ l \in Node /\ r \in Node
  /\ l.parent = w.parent
  /\ l.is_leaf = w.is_leaf /\ r.is_leaf = w.is_leaf
  /\ Part(l.keys, w.keys, 0, m)
  /\ w.is_leaf => /\ Part(r.keys, w.keys, m, ORDER - m)
                  /\ Part(l.values, w.values, 0, m)
                  /\ Part(r.values, w.values, m, ORDER - m)
                  /\ l.children = << >> /\ r.children = << >>
  /\ ~w.is_leaf => /\ Part(r.keys, w.keys, m + 1, ORDER - m - 1)
                   /\ Part(l.children, w.children, 0, m + 1)
                   /\ Part(r.children, w.children, m + 1, ORDER - m)

\* The halves of a full leaf before the new key is put in.
LEMMA LeafHalves ==
  ASSUME NEW n \in Node, NodeShape(n, ORDER - 1), IsFull(n), n.is_leaf
  PROVE  LET l == SplitLeaf(n).left
             r == SplitLeaf(n).right
         IN  /\ l \in Node /\ r \in Node /\ l.parent = n.parent
             /\ l.is_leaf = n.is_leaf /\ r.is_leaf = n.is_leaf
             /\ l.children = << >> /\ r.children = << >>
             /\ Part(l.keys, n.keys, 0, med_idx)
             /\ Part(l.values, n.values, 0, med_idx)
             /\ Part(r.keys, n.keys, med_idx, ORDER - 1 - med_idx)
             /\ Part(r.values, n.values, med_idx, ORDER - 1 - med_idx)
  <1> DEFINE l == SplitLeaf(n).left
             r == SplitLeaf(n).right
             lk == SubSeq(n.keys, 1, med_idx)
             lv == SubSeq(n.values, 1, med_idx)
             rk == SubSeq(n.keys, med_idx + 1, ORDER - 1)
             rv == SubSeq(n.values, med_idx + 1, ORDER - 1)
  <1>1. /\ n.keys \in Seq(Keys) /\ n.values \in Seq(Nat) /\ n.children = << >>
        /\ Len(n.keys) = ORDER - 1 /\ Len(n.values) = ORDER - 1
    BY NodeFields DEF NodeShape, IsFull, num_keys
  <1>2. /\ ORDER \in Nat /\ med_idx \in Nat /\ med_idx <= ORDER - 1 /\ ORDER - 1 \in Nat
        /\ ORDER - 1 <= Len(n.keys) /\ ORDER - 1 <= Len(n.values)
    BY <1>1, MedianPlace, IndexAssumption
  <1>3. lk \in Seq(Keys) /\ Part(lk, n.keys, 0, med_idx)
    BY <1>1, <1>2, HeadPart
  <1>4. lv \in Seq(Nat) /\ Part(lv, n.values, 0, med_idx)
    BY <1>1, <1>2, HeadPart
  <1>5. rk \in Seq(Keys) /\ Part(rk, n.keys, med_idx, ORDER - 1 - med_idx)
    BY <1>1, <1>2, SubSeqPart
  <1>6. rv \in Seq(Nat) /\ Part(rv, n.values, med_idx, ORDER - 1 - med_idx)
    BY <1>1, <1>2, SubSeqPart
  <1>7. /\ l = [n EXCEPT !.keys = lk, !.values = lv]
        /\ r = [n EXCEPT !.parent = NoNode, !.keys = rk, !.values = rv]
    BY DEF SplitLeaf
  <1>8. NoNode \in Nat
    BY DEF NoNode
  <1> HIDE DEF l, r, lk, lv, rk, rv
  <1>9. l \in Node /\ r \in Node
    BY <1>3, <1>4, <1>5, <1>6, <1>7, <1>8, NodeUpdates
  <1>10. /\ l.parent = n.parent /\ l.is_leaf = n.is_leaf /\ r.is_leaf = n.is_leaf
         /\ l.children = n.children /\ r.children = n.children
         /\ l.keys = lk /\ l.values = lv /\ r.keys = rk /\ r.values = rv
    BY <1>7 DEF Node
  <1> QED BY <1>1, <1>3, <1>4, <1>5, <1>6, <1>9, <1>10 DEF l, r

\* The halves of a full parent before the new key and child are put in.
LEMMA ParentHalves ==
  ASSUME NEW n \in Node, NodeShape(n, ORDER - 1), IsFull(n), ~n.is_leaf
  PROVE  LET l == SplitParent(n).left
             r == SplitParent(n).right
         IN  /\ l \in Node /\ r \in Node /\ l.parent = n.parent
             /\ l.is_leaf = n.is_leaf /\ r.is_leaf = n.is_leaf
             /\ Part(l.keys, n.keys, 0, med_idx)
             /\ Part(l.children, n.children, 0, med_idx + 1)
             /\ Part(r.keys, n.keys, med_idx + 1, ORDER - 1 - (med_idx + 1))
             /\ Part(r.children, n.children, med_idx + 1, ORDER - (med_idx + 1))
  <1> DEFINE l == SplitParent(n).left
             r == SplitParent(n).right
             lk == SubSeq(n.keys, 1, med_idx)
             lc == SubSeq(n.children, 1, med_idx + 1)
             rk == SubSeq(n.keys, (med_idx + 1) + 1, ORDER - 1)
             rc == SubSeq(n.children, (med_idx + 1) + 1, ORDER)
  <1>1. /\ n.keys \in Seq(Keys) /\ n.children \in Seq(Nat)
        /\ Len(n.keys) = ORDER - 1 /\ Len(n.children) = (ORDER - 1) + 1
    BY NodeFields DEF NodeShape, IsFull, num_keys
  <1>2. /\ ORDER \in Nat /\ med_idx \in Nat /\ med_idx + 1 \in Nat /\ ORDER - 1 \in Nat
        /\ med_idx <= ORDER - 1 /\ med_idx + 1 <= ORDER - 1 /\ med_idx + 1 <= ORDER
        /\ ORDER - 1 <= Len(n.keys) /\ ORDER <= Len(n.children)
    BY <1>1, MedianPlace, IndexAssumption
  <1>3. lk \in Seq(Keys) /\ Part(lk, n.keys, 0, med_idx)
    BY <1>1, <1>2, HeadPart
  <1>4. lc \in Seq(Nat) /\ Part(lc, n.children, 0, med_idx + 1)
    BY <1>1, <1>2, HeadPart
  <1>5. rk \in Seq(Keys) /\ Part(rk, n.keys, med_idx + 1, ORDER - 1 - (med_idx + 1))
    BY <1>1, <1>2, SubSeqPart
  <1>6. rc \in Seq(Nat) /\ Part(rc, n.children, med_idx + 1, ORDER - (med_idx + 1))
    BY <1>1, <1>2, SubSeqPart
  <1>7. /\ l = [n EXCEPT !.keys = lk, !.children = lc]
        /\ r = [n EXCEPT !.parent = NoNode, !.keys = rk, !.children = rc]
    <2>1. (med_idx + 1) + 1 = med_idx + 2
      BY <1>2
    <2> QED BY <2>1 DEF SplitParent
  <1>8. NoNode \in Nat
    BY DEF NoNode
  <1> HIDE DEF l, r, lk, lc, rk, rc
  <1>9. l \in Node /\ r \in Node
    BY <1>3, <1>4, <1>5, <1>6, <1>7, <1>8, NodeUpdates
  <1>10. /\ l.parent = n.parent /\ l.is_leaf = n.is_leaf /\ r.is_leaf = n.is_leaf
         /\ l.keys = lk /\ l.children = lc /\ r.keys = rk /\ r.children = rc
    BY <1>7 DEF Node
  <1> QED BY <1>1, <1>3, <1>4, <1>5, <1>6, <1>9, <1>10 DEF l, r

\* Where the new key goes, and where the median is then.
LEMMA FullPlaces ==
  ASSUME NEW n, NEW k, NEW v, NEW targ, Full(n, k, v, targ)
  PROVE  LET p == Position(n, k)
             w == insert_into_node(n, k, v, targ)
         IN  /\ p \in 1..ORDER /\ Fits(n.keys, p, k) /\ NodeInserted(w, n, p, k, v, targ)
             /\ NodeShape(w, ORDER) /\ Len(w.keys) = ORDER
             /\ k < n.keys[med_idx + 1] => p <= med_idx + 1 /\ n.keys[med_idx + 1] = w.keys[med_idx + 2]
             /\ ~(k < n.keys[med_idx + 1]) => p > med_idx + 1 /\ n.keys[med_idx + 1] = w.keys[med_idx + 1]
  <1> DEFINE p == Position(n, k)
             w == insert_into_node(n, k, v, targ)
             s == n.keys
             t == w.keys
  <1>1. /\ n \in Node /\ k \in Keys /\ v \in Nat /\ targ \in Nat /\ NodeShape(n, ORDER - 1)
        /\ Len(n.keys) = ORDER - 1 /\ \A a \in 1..Len(n.keys) : n.keys[a] # k
    BY DEF Full, IsFull, num_keys
  <1>2. /\ n.keys \in Seq(Int) /\ k \in Int /\ Sorted(n.keys)
        /\ n.is_leaf => Len(n.values) = Len(n.keys)
        /\ ~n.is_leaf => Len(n.children) = Len(n.keys) + 1
    BY <1>1, NodeFields, IndexAssumption DEF NodeShape
  <1>3. Fits(n.keys, p, k)
    BY <1>1, <1>2, PositionFits
  <1>4. NodeInserted(w, n, p, k, v, targ)
    BY <1>1, <1>2, InsertedNode
  <1>5. ORDER - 1 \in Nat /\ (ORDER - 1) + 1 = ORDER /\ ORDER \in Nat
    BY IndexAssumption
  <1>6. NodeShape(w, (ORDER - 1) + 1) /\ Len(w.keys) = Len(n.keys) + 1
    <2> HIDE DEF p, w
    <2> QED BY <1>1, <1>3, <1>4, <1>5, InsertedShape
  <1>7. s \in Seq(Int) /\ Len(s) = ORDER - 1 /\ k \in Int
    BY <1>1, <1>2
  <1>8. /\ p \in 1..(Len(s) + 1)
        /\ \A a \in 1..(p - 1) : s[a] < k
        /\ \A a \in p..Len(s) : k < s[a]
    BY <1>3 DEF Fits
  <1>9. /\ \A j \in 1..(p - 1) : t[j] = s[j]
        /\ \A j \in (p + 1)..(Len(s) + 1) : t[j] = s[j - 1]
    BY <1>4 DEF NodeInserted, Inserted
  <1> HIDE DEF p, w, s, t
  <1>10. med_idx + 1 \in 1..Len(s) /\ med_idx \in Nat /\ s[med_idx + 1] \in Int
    BY <1>5, <1>7, MedianPlace
  <1>11. ASSUME k < s[med_idx + 1] PROVE p <= med_idx + 1 /\ s[med_idx + 1] = t[med_idx + 2]
    <2>1. ASSUME p > med_idx + 1 PROVE FALSE
      <3>1. med_idx + 1 \in 1..(p - 1)
        BY <1>8, <1>10, <2>1
      <3> QED BY <1>7, <1>8, <1>10, <1>11, <3>1
    <2>2. p <= med_idx + 1
      BY <1>8, <1>10, <2>1
    <2>3. med_idx + 2 \in (p + 1)..(Len(s) + 1) /\ (med_idx + 2) - 1 = med_idx + 1
      BY <1>5, <1>7, <1>8, <1>10, <2>2
    <2> QED BY <1>9, <2>2, <2>3
  <1>12. ASSUME ~(k < s[med_idx + 1]) PROVE p > med_idx + 1 /\ s[med_idx + 1] = t[med_idx + 1]
    <2>1. ASSUME p <= med_idx + 1 PROVE FALSE
      <3>1. med_idx + 1 \in p..Len(s)
        BY <1>5, <1>7, <1>8, <1>10, <2>1
      <3> QED BY <1>8, <1>12, <3>1
    <2>2. p > med_idx + 1
      BY <1>8, <1>10, <2>1
    <2>3. med_idx + 1 \in 1..(p - 1)
      BY <1>8, <1>10, <2>2
    <2> QED BY <1>9, <2>2, <2>3
  <1>13. p \in 1..ORDER
    BY <1>5, <1>7, <1>8
  <1> QED BY <1>3, <1>4, <1>5, <1>6, <1>1, <1>11, <1>12, <1>13 DEF p, w, s, t

\* A full leaf is split as the over-full one would be: the key goes left.
LEMMA SplitLeafLeft ==
  ASSUME NEW n, NEW k, NEW v, NEW targ, Full(n, k, v, targ), n.is_leaf, k < n.keys[med_idx + 1]
  PROVE  NodeSplit(LeftHalf(n, k, v, targ), RightHalf(n, k, v, targ),
                   insert_into_node(n, k, v, targ), med_idx + 1)
  <1> DEFINE p == Position(n, k)
             w == insert_into_node(n, k, v, targ)
             half == SplitLeaf(n).left
             r == SplitLeaf(n).right
             l == insert_into_node(half, k, v, targ)
  <1>1. /\ n \in Node /\ k \in Keys /\ v \in Nat /\ targ \in Nat /\ NodeShape(n, ORDER - 1)
        /\ IsFull(n) /\ Len(n.keys) = ORDER - 1 /\ Len(n.values) = ORDER - 1 /\ targ = NoNode
    BY DEF Full, IsFull, num_keys, NodeShape
  <1>2. p \in 1..ORDER /\ Fits(n.keys, p, k) /\ NodeInserted(w, n, p, k, v, targ) /\ p <= med_idx + 1
    BY FullPlaces
  <1>3. /\ half \in Node /\ r \in Node /\ half.parent = n.parent
        /\ half.is_leaf = n.is_leaf /\ r.is_leaf = n.is_leaf
        /\ half.children = << >> /\ r.children = << >>
        /\ Part(half.keys, n.keys, 0, med_idx)
        /\ Part(half.values, n.values, 0, med_idx)
        /\ Part(r.keys, n.keys, med_idx, ORDER - 1 - med_idx)
        /\ Part(r.values, n.values, med_idx, ORDER - 1 - med_idx)
    BY <1>1, LeafHalves
  <1>4. l = LeftHalf(n, k, v, targ) /\ r = RightHalf(n, k, v, targ)
    BY <1>1 DEF LeftHalf, RightHalf, Halves
  <1> HIDE DEF p, w, half, r
  <1>5. /\ med_idx \in Nat /\ ORDER \in Nat /\ ORDER - 1 \in Nat /\ 0 \in Nat
        /\ med_idx <= Len(n.keys) /\ med_idx <= Len(n.values) /\ p \in 1..(med_idx + 1)
        /\ Len(n.keys) \in Nat /\ Len(n.values) \in Nat /\ 0 + med_idx <= Len(n.keys)
        /\ k \in Int /\ p \in Int /\ 0 < p /\ p <= 0 + med_idx + 1 /\ p - 0 = p
    BY <1>1, <1>2, MedianPlace, IndexAssumption
  <1>6. Fits(half.keys, p, k)
    <2>1. Fits(half.keys, p - 0, k)
      BY <1>2, <1>3, <1>5, PartFits
    <2> QED BY <1>5, <2>1
  <1>7. Position(half, k) = p
    BY <1>3, <1>5, <1>6, NodeFields, PositionIs
  <1>8. Len(half.values) = Len(half.keys)
    BY <1>3 DEF Part
  <1>9. NodeInserted(l, half, p, k, v, targ)
    BY <1>1, <1>3, <1>7, <1>8, InsertedNode
  <1> HIDE DEF l
  <1>10. /\ l \in Node /\ l.parent = half.parent /\ l.is_leaf = half.is_leaf
         /\ Inserted(l.keys, half.keys, p, k) /\ Inserted(l.values, half.values, p, v)
         /\ l.children = half.children
    BY <1>3, <1>9 DEF NodeInserted
  <1>11. /\ w.parent = n.parent /\ w.is_leaf = n.is_leaf
         /\ Inserted(w.keys, n.keys, p, k) /\ Inserted(w.values, n.values, p, v)
    BY <1>2 DEF NodeInserted
  <1>12. Part(l.keys, w.keys, 0, med_idx + 1) /\ Part(l.values, w.values, 0, med_idx + 1)
    BY <1>3, <1>5, <1>10, <1>11, InsertLeft
  <1>13. /\ Part(r.keys, w.keys, med_idx + 1, ORDER - 1 - med_idx)
         /\ Part(r.values, w.values, med_idx + 1, ORDER - 1 - med_idx)
    BY <1>1, <1>3, <1>5, <1>11, InsertBefore
  <1>14. ORDER - 1 - med_idx = ORDER - (med_idx + 1)
    BY <1>5
  <1>15. NodeSplit(l, r, w, med_idx + 1)
    BY <1>3, <1>10, <1>11, <1>12, <1>13, <1>14 DEF NodeSplit
  <1> QED BY <1>4, <1>15 DEF w

\* A full leaf is split as the over-full one would be: the key goes right.
LEMMA SplitLeafRight ==
  ASSUME NEW n, NEW k, NEW v, NEW targ, Full(n, k, v, targ), n.is_leaf, ~(k < n.keys[med_idx + 1])
  PROVE  NodeSplit(LeftHalf(n, k, v, targ), RightHalf(n, k, v, targ),
                   insert_into_node(n, k, v, targ), med_idx)
  <1> DEFINE p == Position(n, k)
             w == insert_into_node(n, k, v, targ)
             l == SplitLeaf(n).left
             half == SplitLeaf(n).right
             r == insert_into_node(half, k, v, targ)
  <1>1. /\ n \in Node /\ k \in Keys /\ v \in Nat /\ targ \in Nat /\ NodeShape(n, ORDER - 1)
        /\ IsFull(n) /\ Len(n.keys) = ORDER - 1 /\ Len(n.values) = ORDER - 1 /\ targ = NoNode
    BY DEF Full, IsFull, num_keys, NodeShape
  <1>2. p \in 1..ORDER /\ Fits(n.keys, p, k) /\ NodeInserted(w, n, p, k, v, targ) /\ p > med_idx + 1
    BY FullPlaces
  <1>3. /\ l \in Node /\ half \in Node /\ l.parent = n.parent
        /\ l.is_leaf = n.is_leaf /\ half.is_leaf = n.is_leaf
        /\ l.children = << >> /\ half.children = << >>
        /\ Part(l.keys, n.keys, 0, med_idx)
        /\ Part(l.values, n.values, 0, med_idx)
        /\ Part(half.keys, n.keys, med_idx, ORDER - 1 - med_idx)
        /\ Part(half.values, n.values, med_idx, ORDER - 1 - med_idx)
    BY <1>1, LeafHalves
  <1>4. l = LeftHalf(n, k, v, targ) /\ r = RightHalf(n, k, v, targ)
    BY <1>1 DEF LeftHalf, RightHalf, Halves
  <1> HIDE DEF p, w, half, l
  <1>5. /\ med_idx \in Nat /\ ORDER \in Nat /\ ORDER - 1 - med_idx \in Nat
        /\ p \in 1..(Len(n.keys) + 1) /\ p \in 1..(Len(n.values) + 1) /\ med_idx < p
        /\ Len(n.keys) \in Nat /\ Len(n.values) \in Nat
        /\ med_idx + (ORDER - 1 - med_idx) <= Len(n.keys)
        /\ k \in Int /\ p \in Int /\ p <= med_idx + (ORDER - 1 - med_idx) + 1
    BY <1>1, <1>2, MedianPlace, IndexAssumption
  <1>6. Fits(half.keys, p - med_idx, k)
    BY <1>2, <1>3, <1>5, PartFits
  <1>7. Position(half, k) = p - med_idx
    BY <1>3, <1>5, <1>6, NodeFields, PositionIs
  <1>8. Len(half.values) = Len(half.keys)
    BY <1>3 DEF Part
  <1>9. NodeInserted(r, half, p - med_idx, k, v, targ)
    BY <1>1, <1>3, <1>7, <1>8, InsertedNode
  <1> HIDE DEF r
  <1>10. /\ r \in Node /\ r.is_leaf = half.is_leaf /\ r.children = half.children
         /\ Inserted(r.keys, half.keys, p - med_idx, k) /\ Inserted(r.values, half.values, p - med_idx, v)
    BY <1>3, <1>9 DEF NodeInserted
  <1>11. /\ w.parent = n.parent /\ w.is_leaf = n.is_leaf
         /\ Inserted(w.keys, n.keys, p, k) /\ Inserted(w.values, n.values, p, v)
    BY <1>2 DEF NodeInserted
  <1>12. Part(l.keys, w.keys, 0, med_idx) /\ Part(l.values, w.values, 0, med_idx)
    BY <1>3, <1>5, <1>11, InsertBehind
  <1>13. /\ Part(r.keys, w.keys, med_idx, ORDER - 1 - med_idx + 1)
         /\ Part(r.values, w.values, med_idx, ORDER - 1 - med_idx + 1)
    BY <1>1, <1>3, <1>5, <1>10, <1>11, InsertRight
  <1>14. ORDER - 1 - med_idx + 1 = ORDER - med_idx
    BY <1>5
  <1>15. NodeSplit(l, r, w, med_idx)
    BY <1>3, <1>10, <1>11, <1>12, <1>13, <1>14 DEF NodeSplit
  <1> QED BY <1>4, <1>15 DEF w

\* A full parent is split as the over-full one would be: the key goes left.
LEMMA SplitParentLeft ==
  ASSUME NEW n, NEW k, NEW v, NEW targ, Full(n, k, v, targ), ~n.is_leaf, k < n.keys[med_idx + 1]
  PROVE  NodeSplit(LeftHalf(n, k, v, targ), RightHalf(n, k, v, targ),
                   insert_into_node(n, k, v, targ), med_idx + 1)
  <1> DEFINE p == Position(n, k)
             w == insert_into_node(n, k, v, targ)
             half == SplitParent(n).left
             r == SplitParent(n).right
             l == insert_into_node(half, k, v, targ)
  <1>1. /\ n \in Node /\ k \in Keys /\ v \in Nat /\ targ \in Nat /\ NodeShape(n, ORDER - 1)
        /\ IsFull(n) /\ Len(n.keys) = ORDER - 1 /\ Len(n.children) = (ORDER - 1) + 1 /\ targ # NoNode
    BY DEF Full, IsFull, num_keys, NodeShape
  <1>2. p \in 1..ORDER /\ Fits(n.keys, p, k) /\ NodeInserted(w, n, p, k, v, targ) /\ p <= med_idx + 1
    BY FullPlaces
  <1>3. /\ half \in Node /\ r \in Node /\ half.parent = n.parent
        /\ half.is_leaf = n.is_leaf /\ r.is_leaf = n.is_leaf
        /\ Part(half.keys, n.keys, 0, med_idx)
        /\ Part(half.children, n.children, 0, med_idx + 1)
        /\ Part(r.keys, n.keys, med_idx + 1, ORDER - 1 - (med_idx + 1))
        /\ Part(r.children, n.children, med_idx + 1, ORDER - (med_idx + 1))
    BY <1>1, ParentHalves
  <1>4. l = LeftHalf(n, k, v, targ) /\ r = RightHalf(n, k, v, targ)
    BY <1>1 DEF LeftHalf, RightHalf, Halves
  <1> HIDE DEF p, w, half, r
  <1>5. /\ med_idx \in Nat /\ med_idx + 1 \in Nat /\ ORDER \in Nat /\ Len(n.children) = ORDER
        /\ med_idx <= Len(n.keys) /\ med_idx + 1 <= Len(n.keys) /\ med_idx + 1 <= Len(n.children)
        /\ p \in 1..(med_idx + 1) /\ p \in 1..((med_idx + 1) + 1) /\ p + 1 \in 1..((med_idx + 1) + 1)
        /\ Len(n.keys) \in Nat /\ Len(n.children) \in Nat /\ 0 + med_idx <= Len(n.keys)
        /\ k \in Int /\ p \in Int /\ 0 < p /\ p <= 0 + med_idx + 1 /\ p - 0 = p /\ 0 \in Nat
    BY <1>1, <1>2, MedianPlace, IndexAssumption
  <1>6. Fits(half.keys, p, k)
    <2>1. Fits(half.keys, p - 0, k)
      BY <1>2, <1>3, <1>5, PartFits
    <2> QED BY <1>5, <2>1
  <1>7. Position(half, k) = p
    BY <1>3, <1>5, <1>6, NodeFields, PositionIs
  <1>8. Len(half.children) = Len(half.keys) + 1
    BY <1>3 DEF Part
  <1>9. NodeInserted(l, half, p, k, v, targ)
    BY <1>1, <1>3, <1>7, <1>8, InsertedNode
  <1> HIDE DEF l
  <1>10. /\ l \in Node /\ l.parent = half.parent /\ l.is_leaf = half.is_leaf
         /\ Inserted(l.keys, half.keys, p, k) /\ Inserted(l.children, half.children, p + 1, targ)
    BY <1>3, <1>9 DEF NodeInserted
  <1>11. /\ w.parent = n.parent /\ w.is_leaf = n.is_leaf
         /\ Inserted(w.keys, n.keys, p, k) /\ Inserted(w.children, n.children, p + 1, targ)
    BY <1>2 DEF NodeInserted
  <1>12. Part(l.keys, w.keys, 0, med_idx + 1) /\ Part(l.children, w.children, 0, (med_idx + 1) + 1)
    BY <1>3, <1>5, <1>10, <1>11, InsertLeft
  <1>13. Part(r.keys, w.keys, (med_idx + 1) + 1, ORDER - 1 - (med_idx + 1))
    BY <1>1, <1>3, <1>5, <1>11, InsertBefore
  <1>14. Part(r.children, w.children, (med_idx + 1) + 1, ORDER - (med_idx + 1))
    BY <1>3, <1>5, <1>11, InsertBefore
  <1>15. ORDER - 1 - (med_idx + 1) = ORDER - (med_idx + 1) - 1
    BY <1>5
  <1>16. NodeSplit(l, r, w, med_idx + 1)
    BY <1>3, <1>10, <1>11, <1>12, <1>13, <1>14, <1>15 DEF NodeSplit
  <1> QED BY <1>4, <1>16 DEF w

\* A full parent is split as the over-full one would be: the key goes right.
LEMMA SplitParentRight ==
  ASSUME NEW n, NEW k, NEW v, NEW targ, Full(n, k, v, targ), ~n.is_leaf, ~(k < n.keys[med_idx + 1])
  PROVE  NodeSplit(LeftHalf(n, k, v, targ), RightHalf(n, k, v, targ),
                   insert_into_node(n, k, v, targ), med_idx)
  <1> DEFINE p == Position(n, k)
             w == insert_into_node(n, k, v, targ)
             l == SplitParent(n).left
             half == SplitParent(n).right
             r == insert_into_node(half, k, v, targ)
             m == med_idx + 1
  <1>1. /\ n \in Node /\ k \in Keys /\ v \in Nat /\ targ \in Nat /\ NodeShape(n, ORDER - 1)
        /\ IsFull(n) /\ Len(n.keys) = ORDER - 1 /\ Len(n.children) = (ORDER - 1) + 1 /\ targ # NoNode
    BY DEF Full, IsFull, num_keys, NodeShape
  <1>2. p \in 1..ORDER /\ Fits(n.keys, p, k) /\ NodeInserted(w, n, p, k, v, targ) /\ p > m
    BY FullPlaces
  <1>3. /\ l \in Node /\ half \in Node /\ l.parent = n.parent
        /\ l.is_leaf = n.is_leaf /\ half.is_leaf = n.is_leaf
        /\ Part(l.keys, n.keys, 0, med_idx)
        /\ Part(l.children, n.children, 0, m)
        /\ Part(half.keys, n.keys, m, ORDER - 1 - m)
        /\ Part(half.children, n.children, m, ORDER - m)
    BY <1>1, ParentHalves
  <1>4. l = LeftHalf(n, k, v, targ) /\ r = RightHalf(n, k, v, targ)
    BY <1>1 DEF LeftHalf, RightHalf, Halves
  <1>5. /\ med_idx \in Nat /\ m \in Nat /\ ORDER \in Nat /\ ORDER - 1 - m \in Nat
        /\ Len(n.children) = ORDER /\ med_idx < p /\ m < p + 1 /\ p + 1 \in Int
        /\ p \in 1..(Len(n.keys) + 1) /\ p + 1 \in 1..(Len(n.children) + 1)
        /\ Len(n.keys) \in Nat /\ Len(n.children) \in Nat
        /\ m + (ORDER - 1 - m) <= Len(n.keys)
        /\ k \in Int /\ p \in Int /\ p <= m + (ORDER - 1 - m) + 1
        /\ (p + 1) - m = (p - m) + 1
        /\ ORDER - 1 - m + 1 = ORDER - med_idx - 1 /\ ORDER - m + 1 = ORDER - med_idx
    BY <1>1, <1>2, MedianPlace, IndexAssumption
  <1> HIDE DEF p, w, half, l, m
  <1>6. Fits(half.keys, p - m, k)
    BY <1>2, <1>3, <1>5, PartFits
  <1>7. Position(half, k) = p - m
    BY <1>3, <1>5, <1>6, NodeFields, PositionIs
  <1>8. Len(half.children) = Len(half.keys) + 1
    BY <1>3, <1>5 DEF Part
  <1>9. NodeInserted(r, half, p - m, k, v, targ)
    BY <1>1, <1>3, <1>7, <1>8, InsertedNode
  <1> HIDE DEF r
  <1>10. /\ r \in Node /\ r.is_leaf = half.is_leaf
         /\ Inserted(r.keys, half.keys, p - m, k) /\ Inserted(r.children, half.children, (p - m) + 1, targ)
    BY <1>3, <1>9 DEF NodeInserted
  <1>11. /\ w.parent = n.parent /\ w.is_leaf = n.is_leaf
         /\ Inserted(w.keys, n.keys, p, k) /\ Inserted(w.children, n.children, p + 1, targ)
    BY <1>2 DEF NodeInserted
  <1>12. Part(l.keys, w.keys, 0, med_idx) /\ Part(l.children, w.children, 0, m)
    BY <1>3, <1>5, <1>11, InsertBehind
  <1>13. Part(r.keys, w.keys, m, ORDER - 1 - m + 1)
    BY <1>1, <1>2, <1>3, <1>5, <1>10, <1>11, InsertRight
  <1>14. Inserted(r.children, half.children, (p + 1) - m, targ)
    BY <1>5, <1>10
  <1>15. Part(r.children, w.children, m, ORDER - m + 1)
    BY <1>3, <1>5, <1>11, <1>14, InsertRight
  <1>16. NodeSplit(l, r, w, med_idx)
    BY <1>3, <1>5, <1>10, <1>11, <1>12, <1>13, <1>15 DEF NodeSplit, m
  <1> QED BY <1>4, <1>16 DEF w

\* split_insert_node splits a full node as the over-full one would be split,
\* and hands up the key behind the cut.
LEMMA SplitNode ==
  ASSUME NEW n, NEW k, NEW v, NEW targ, Full(n, k, v, targ)
  PROVE  LET w == insert_into_node(n, k, v, targ)
         IN  \E m \in 1..(ORDER - 2) :
               /\ NodeSplit(LeftHalf(n, k, v, targ), RightHalf(n, k, v, targ), w, m)
               /\ n.keys[med_idx + 1] = w.keys[m + 1]
  <1> DEFINE w == insert_into_node(n, k, v, targ)
  <1>1. n.is_leaf \in BOOLEAN
    BY NodeFields DEF Full
  <1>2. /\ med_idx + 1 \in 1..(ORDER - 2) /\ med_idx \in 1..(ORDER - 2)
        /\ (med_idx + 1) + 1 = med_idx + 2
    BY MedianPlace, IndexAssumption
  <1>3. CASE k < n.keys[med_idx + 1]
    <2>1. n.keys[med_idx + 1] = w.keys[(med_idx + 1) + 1]
      BY <1>2, <1>3, FullPlaces
    <2>2. NodeSplit(LeftHalf(n, k, v, targ), RightHalf(n, k, v, targ), w, med_idx + 1)
      BY <1>1, <1>3, SplitLeafLeft, SplitParentLeft
    <2> QED BY <1>2, <2>1, <2>2
  <1>4. CASE ~(k < n.keys[med_idx + 1])
    <2>1. n.keys[med_idx + 1] = w.keys[med_idx + 1]
      BY <1>4, FullPlaces
    <2>2. NodeSplit(LeftHalf(n, k, v, targ), RightHalf(n, k, v, targ), w, med_idx)
      BY <1>1, <1>4, SplitLeafRight, SplitParentRight
    <2> QED BY <1>2, <2>1, <2>2
  <1> QED BY <1>3, <1>4
-----------------------------------------------------------------------------
(* Separators.                                                             *)

\* Two places of the same child are the same place: the keys between two
\* pairs of separators differ.
LEMMA BetweenOnce ==
  ASSUME NEW n \in Node, Sorted(n.keys), Len(n.children) = Len(n.keys) + 1, NEW k \in Int,
         NEW b \in 1..Len(n.children), NEW c \in 1..Len(n.children),
         Between(n, b, k), Between(n, c, k)
  PROVE  b = c
  <1> DEFINE s == n.keys
  <1>1. s \in Seq(Int) /\ n.children \in Seq(Nat)
    BY NodeFields
  <1>2. \A x, y \in 1..Len(s) : x < y => s[x] < s[y]
    BY DEF Sorted
  <1>3. /\ b > 1 => s[b - 1] <= k
        /\ b <= Len(s) => k < s[b]
        /\ c > 1 => s[c - 1] <= k
        /\ c <= Len(s) => k < s[c]
    BY DEF Between
  <1>4. Len(n.children) = Len(s) + 1
    OBVIOUS
  <1> HIDE DEF s
  <1>5. Len(s) \in Nat /\ b \in 1..(Len(s) + 1) /\ c \in 1..(Len(s) + 1) /\ \A i \in 1..Len(s) : s[i] \in Int
    BY <1>1, <1>4
  <1>6. ASSUME NEW x \in 1..(Len(s) + 1), NEW y \in 1..(Len(s) + 1), x < y,
               x <= Len(s) => k < s[x], y > 1 => s[y - 1] <= k
        PROVE  FALSE
    <2>1. x \in 1..Len(s) /\ y - 1 \in 1..Len(s) /\ (x = y - 1 \/ x < y - 1)
      BY <1>5, <1>6
    <2>2. s[x] = s[y - 1] \/ s[x] < s[y - 1]
      BY <1>2, <2>1
    <2>3. k < s[x] /\ s[y - 1] <= k /\ s[x] \in Int /\ s[y - 1] \in Int
      BY <1>5, <1>6, <2>1
    <2> QED BY <2>2, <2>3
  <1>7. ~(b < c) /\ ~(c < b)
    BY <1>3, <1>5, <1>6
  <1> QED BY <1>5, <1>7

\* The halves of an over-full node: their keys, and what the key between
\* them separates.
LEMMA SplitShape ==
  ASSUME NEW w \in Node, NodeShape(w, ORDER), Len(w.keys) = ORDER, NEW m \in 1..(ORDER - 2),
         NEW l, NEW r, NodeSplit(l, r, w, m)
  PROVE  /\ NodeShape(l, ORDER - 1) /\ NodeShape(r, ORDER - 1)
         /\ \A a \in 1..Len(l.keys) :
              a \in 1..ORDER /\ l.keys[a] = w.keys[a] /\ l.keys[a] < w.keys[m + 1]
         /\ \A a \in 1..Len(r.keys) :
              /\ w.keys[m + 1] <= r.keys[a]
              /\ \E b \in 1..ORDER : r.keys[a] = w.keys[b] /\ (w.is_leaf => b = m + a)
  <1> DEFINE s == w.keys
             lk == l.keys
             rk == r.keys
             off == IF w.is_leaf THEN m ELSE m + 1
  <1>1. /\ s \in Seq(Int) /\ w.is_leaf \in BOOLEAN /\ Len(s) = ORDER
        /\ \A a, b \in 1..Len(s) : a < b => s[a] < s[b]
    BY NodeFields DEF NodeShape, Sorted
  <1>2. ORDER \in Nat /\ m \in Nat /\ ORDER >= 4
    BY IndexAssumption
  <1>3. Part(lk, s, 0, m)
    BY DEF NodeSplit
  <1>4. off \in Nat /\ m <= off /\ off <= m + 1 /\ ORDER - off \in Nat /\ off + (ORDER - off) <= Len(s)
    <2>1. off = m \/ off = m + 1
      OBVIOUS
    <2> HIDE DEF off
    <2> QED BY <1>1, <1>2, <2>1
  <1>5. Part(rk, s, off, ORDER - off)
    <2>1. w.is_leaf => Part(rk, s, m, ORDER - m)
      BY DEF NodeSplit
    <2>2. ~w.is_leaf => Part(rk, s, m + 1, ORDER - m - 1)
      BY DEF NodeSplit
    <2>3. ORDER - m - 1 = ORDER - (m + 1)
      BY <1>2
    <2> QED BY <1>1, <2>1, <2>2, <2>3
  <1>6. Sorted(s)
    BY DEF NodeShape
  <1>7. Sorted(lk) /\ Sorted(rk)
    <2>1. Len(s) \in Nat /\ 0 + m <= Len(s) /\ 0 \in Nat
      BY <1>1, <1>2
    <2> HIDE DEF s, lk, rk, off
    <2>2. Sorted(lk)
      BY <1>2, <1>3, <1>6, <2>1, PartFits
    <2>3. Sorted(rk)
      BY <1>4, <1>5, <1>6, <2>1, PartFits
    <2> QED BY <2>2, <2>3
  <1>8. Len(lk) = m /\ \A j \in 1..m : lk[j] = s[j]
    BY <1>3 DEF Part
  <1>9. Len(rk) = ORDER - off /\ \A j \in 1..(ORDER - off) : rk[j] = s[off + j]
    BY <1>5 DEF Part
  <1>10. /\ l.is_leaf = w.is_leaf /\ r.is_leaf = w.is_leaf
         /\ w.is_leaf => /\ Len(l.values) = m /\ Len(r.values) = ORDER - m
                         /\ l.children = << >> /\ r.children = << >>
         /\ ~w.is_leaf => Len(l.children) = m + 1 /\ Len(r.children) = ORDER - m
    BY DEF NodeSplit, Part
  <1>11. off = IF w.is_leaf THEN m ELSE m + 1
    OBVIOUS
  <1> HIDE DEF s, lk, rk, off
  <1>12. Len(lk) \in 1..(ORDER - 1) /\ Len(rk) \in 1..(ORDER - 1)
    BY <1>2, <1>4, <1>8, <1>9
  <1>13. NodeShape(l, ORDER - 1)
    BY <1>1, <1>7, <1>8, <1>10, <1>12 DEF NodeShape, lk
  <1>14. NodeShape(r, ORDER - 1)
    <2>1. w.is_leaf => Len(r.values) = Len(rk)
      BY <1>9, <1>10, <1>11
    <2>2. ASSUME ~w.is_leaf PROVE Len(r.children) = Len(rk) + 1
      <3>1. off = m + 1 /\ Len(r.children) = ORDER - m
        BY <1>10, <1>11, <2>2
      <3> QED BY <1>2, <1>9, <3>1
    <2> QED BY <1>1, <1>7, <1>10, <1>12, <2>1, <2>2 DEF NodeShape, rk
  <1>15. ASSUME NEW a \in 1..Len(lk) PROVE a \in 1..ORDER /\ lk[a] = s[a] /\ lk[a] < s[m + 1]
    <2>1. a \in 1..m /\ a \in 1..Len(s) /\ m + 1 \in 1..Len(s) /\ a < m + 1
      BY <1>1, <1>2, <1>8
    <2> QED BY <1>1, <1>8, <2>1
  <1>16. ASSUME NEW a \in 1..Len(rk)
         PROVE  s[m + 1] <= rk[a] /\ \E b \in 1..ORDER : rk[a] = s[b] /\ (w.is_leaf => b = m + a)
    <2>1. /\ a \in 1..(ORDER - off) /\ off + a \in 1..ORDER /\ m + 1 \in 1..ORDER
          /\ m + 1 = off + a \/ m + 1 < off + a
      BY <1>2, <1>4, <1>9
    <2>2. s[m + 1] = s[off + a] \/ s[m + 1] < s[off + a]
      BY <1>1, <2>1
    <2>3. s[m + 1] \in Int /\ s[off + a] \in Int /\ rk[a] = s[off + a]
      BY <1>1, <1>9, <2>1
    <2>4. w.is_leaf => off + a = m + a
      BY <1>11
    <2> QED BY <2>1, <2>2, <2>3, <2>4
  <1> QED BY <1>13, <1>14, <1>15, <1>16 DEF s, lk, rk

\* The children of the left half.
LEMMA BetweenLeft ==
  ASSUME NEW w \in Node, NodeShape(w, ORDER), Len(w.keys) = ORDER, NEW m \in 1..(ORDER - 2),
         NEW l, NEW r, NodeSplit(l, r, w, m), ~w.is_leaf, NEW c \in 1..Len(l.children), NEW k \in Int
  PROVE  /\ c \in 1..(m + 1) /\ l.children[c] = w.children[c]
         /\ Between(w, c, k) <=> (Between(l, c, k) /\ k < w.keys[m + 1])
  <1> DEFINE s == w.keys
             lk == l.keys
  <1>1. s \in Seq(Int) /\ Len(s) = ORDER /\ \A a, b \in 1..Len(s) : a < b => s[a] < s[b]
    BY NodeFields DEF NodeShape, Sorted
  <1>2. ORDER \in Nat /\ m \in Nat /\ ORDER >= 4
    BY IndexAssumption
  <1>3. /\ Len(lk) = m /\ \A j \in 1..m : lk[j] = s[j]
        /\ Len(l.children) = m + 1 /\ \A j \in 1..(m + 1) : l.children[j] = w.children[j]
    BY DEF NodeSplit, Part
  <1>4. c \in 1..(m + 1) /\ l.children[c] = w.children[c]
    BY <1>3
  <1> HIDE DEF s, lk
  <1>5. \A i \in 1..ORDER : s[i] \in Int
    BY <1>1
  <1>6. ASSUME c > 1 PROVE lk[c - 1] = s[c - 1]
    <2>1. c - 1 \in 1..m
      BY <1>2, <1>4, <1>6
    <2> QED BY <1>3, <2>1
  <1>7. CASE c <= m
    <2>1. c \in 1..m /\ c \in 1..Len(s) /\ m + 1 \in 1..Len(s) /\ c < m + 1 /\ c <= Len(s) /\ c <= Len(lk)
      <3>1. c \in 1..m /\ c < m + 1
        BY <1>2, <1>4, <1>7
      <3>2. c \in 1..ORDER /\ m + 1 \in 1..ORDER /\ c <= ORDER /\ c <= m
        BY <1>2, <3>1
      <3> QED BY <1>1, <1>3, <3>1, <3>2
    <2>2. lk[c] = s[c] /\ s[c] < s[m + 1] /\ s[c] \in Int /\ s[m + 1] \in Int
      BY <1>1, <1>3, <2>1
    <2>3. k < s[c] <=> (k < lk[c] /\ k < s[m + 1])
      BY <2>2
    <2> QED BY <1>4, <1>6, <2>1, <2>3 DEF Between, s, lk
  <1>8. CASE c = m + 1
    <2>1. c <= Len(s) /\ ~(c <= Len(lk))
      BY <1>1, <1>2, <1>3, <1>8
    <2> QED BY <1>4, <1>6, <1>8, <2>1 DEF Between, s, lk
  <1> QED BY <1>2, <1>4, <1>7, <1>8

\* The children of the right half.
LEMMA BetweenRight ==
  ASSUME NEW w \in Node, NodeShape(w, ORDER), Len(w.keys) = ORDER, NEW m \in 1..(ORDER - 2),
         NEW l, NEW r, NodeSplit(l, r, w, m), ~w.is_leaf, NEW c \in 1..Len(r.children), NEW k \in Int
  PROVE  /\ m + 1 + c \in 1..Len(w.children) /\ r.children[c] = w.children[m + 1 + c]
         /\ Between(w, m + 1 + c, k) <=> (Between(r, c, k) /\ w.keys[m + 1] <= k)
  <1> DEFINE s == w.keys
             rk == r.keys
  <1>1. /\ s \in Seq(Int) /\ Len(s) = ORDER /\ Len(w.children) = ORDER + 1
        /\ \A a, b \in 1..Len(s) : a < b => s[a] < s[b]
    BY NodeFields DEF NodeShape, Sorted
  <1>2. ORDER \in Nat /\ m \in Nat /\ ORDER >= 4
    BY IndexAssumption
  <1>3. /\ Len(rk) = ORDER - m - 1 /\ \A j \in 1..(ORDER - m - 1) : rk[j] = s[m + 1 + j]
        /\ Len(r.children) = ORDER - m
        /\ \A j \in 1..(ORDER - m) : r.children[j] = w.children[m + 1 + j]
    BY DEF NodeSplit, Part
  <1>4. m + 1 + c \in 1..Len(w.children) /\ r.children[c] = w.children[m + 1 + c] /\ c \in 1..(ORDER - m)
    BY <1>1, <1>2, <1>3
  <1> HIDE DEF s, rk
  <1>5. \A i \in 1..ORDER : s[i] \in Int
    BY <1>1
  <1> DEFINE e == m + 1 + c
  <1>6. (e <= Len(s) => k < s[e]) <=> (c <= Len(rk) => k < rk[c])
    <2>1. e <= Len(s) <=> c <= Len(rk)
      BY <1>1, <1>2, <1>3, <1>4
    <2>2. ASSUME c <= Len(rk) PROVE rk[c] = s[e]
      <3>1. c \in 1..(ORDER - m - 1)
        BY <1>2, <1>3, <1>4, <2>2
      <3> QED BY <1>3, <3>1
    <2> QED BY <2>1, <2>2
  <1>7. e > 1 /\ e - 1 = m + c /\ m + c \in 1..Len(s) /\ m + 1 \in 1..Len(s)
    <2>1. Len(s) = ORDER /\ c \in 1..(ORDER - m)
      BY <1>1, <1>4
    <2>2. e > 1 /\ e - 1 = m + c
      BY <1>2, <2>1
    <2>3. m + c \in 1..ORDER /\ m + 1 \in 1..ORDER
      BY <1>2, <2>1
    <2> QED BY <2>1, <2>2, <2>3
  <1>8. s[m + c] <= k <=> ((c > 1 => rk[c - 1] <= k) /\ s[m + 1] <= k)
    <2>1. CASE c = 1
      BY <2>1
    <2>2. CASE c > 1
      <3>1. c - 1 \in 1..(ORDER - m - 1) /\ m + 1 + (c - 1) = m + c /\ m + 1 < m + c
        BY <1>2, <1>4, <2>2
      <3>2. rk[c - 1] = s[m + c]
        BY <1>3, <3>1
      <3>3. s[m + 1] < s[m + c] /\ s[m + 1] \in Int /\ s[m + c] \in Int
        BY <1>1, <1>7, <3>1
      <3> QED BY <2>2, <3>2, <3>3
    <2> QED BY <1>4, <2>1, <2>2
  <1>9. Between(w, e, k) <=> s[m + c] <= k /\ (e <= Len(s) => k < s[e])
    BY <1>7 DEF Between, s
  <1>10. Between(r, c, k) <=> (c > 1 => rk[c - 1] <= k) /\ (c <= Len(rk) => k < rk[c])
    BY DEF Between, rk
  <1>11. Between(w, e, k) <=> (Between(r, c, k) /\ s[m + 1] <= k)
    BY <1>6, <1>8, <1>9, <1>10
  <1> QED BY <1>4, <1>11 DEF s

\* Child c of a node q, which is n with k and a child put in at p: the keys
\* x between the separators around it.
ChildInserted(q, n, p, k, child, c, x) ==
  /\ c < p => /\ c \in 1..Len(n.children) /\ q.children[c] = n.children[c]
              /\ Between(q, c, x) <=> Between(n, c, x)
  /\ c = p => /\ q.children[c] = n.children[p]
              /\ Between(q, c, x) <=> (Between(n, p, x) /\ x < k)
  /\ c = p + 1 => /\ q.children[c] = child
                  /\ Between(q, c, x) <=> (Between(n, p, x) /\ k <= x)
  /\ c > p + 1 => /\ c - 1 \in 1..Len(n.children) /\ q.children[c] = n.children[c - 1]
                  /\ Between(q, c, x) <=> Between(n, c - 1, x)

\* The children of a node that a key and a child were put into.
LEMMA BetweenInserted ==
  ASSUME NEW n \in Node, ~n.is_leaf, Len(n.children) = Len(n.keys) + 1, NEW k \in Int,
         NEW v, NEW child, NEW p, Fits(n.keys, p, k), NEW q, NodeInserted(q, n, p, k, v, child),
         NEW c \in 1..Len(q.children), NEW x \in Int
  PROVE  ChildInserted(q, n, p, k, child, c, x)
  <1> DEFINE s == n.keys
             t == q.keys
             nc == n.children
             qc == q.children
  <1>1. s \in Seq(Int) /\ Len(nc) = Len(s) + 1
    BY NodeFields
  <1>2. /\ Len(t) = Len(s) + 1 /\ t[p] = k
        /\ \A j \in 1..(p - 1) : t[j] = s[j]
        /\ \A j \in (p + 1)..(Len(s) + 1) : t[j] = s[j - 1]
    BY DEF NodeInserted, Inserted
  <1>3. /\ Len(qc) = Len(nc) + 1 /\ qc[p + 1] = child
        /\ \A j \in 1..((p + 1) - 1) : qc[j] = nc[j]
        /\ \A j \in ((p + 1) + 1)..(Len(nc) + 1) : qc[j] = nc[j - 1]
    BY DEF NodeInserted, Inserted
  <1>4. /\ p \in 1..(Len(s) + 1)
        /\ \A a \in 1..(p - 1) : s[a] < k
        /\ \A a \in p..Len(s) : k < s[a]
    BY DEF Fits
  <1>5. c \in 1..Len(qc)
    OBVIOUS
  <1>6. \A y, b : Between(q, b, y) <=> (b > 1 => t[b - 1] <= y) /\ (b <= Len(t) => y < t[b])
    BY DEF Between
  <1>7. \A y, b : Between(n, b, y) <=> (b > 1 => s[b - 1] <= y) /\ (b <= Len(s) => y < s[b])
    BY DEF Between
  <1> HIDE DEF s, t, nc, qc
  <1>8. Len(s) \in Nat /\ c \in 1..(Len(s) + 2) /\ \A i \in 1..Len(s) : s[i] \in Int
    BY <1>1, <1>3, <1>5
  <1>9. ASSUME c < p PROVE c \in 1..Len(nc) /\ qc[c] = nc[c] /\ (Between(q, c, x) <=> Between(n, c, x))
    <2>1. /\ c \in 1..((p + 1) - 1) /\ c \in 1..Len(nc) /\ c \in 1..(p - 1)
          /\ (c > 1 => c - 1 \in 1..(p - 1)) /\ c <= Len(s) /\ c <= Len(t)
      BY <1>1, <1>2, <1>4, <1>8, <1>9
    <2>2. qc[c] = nc[c] /\ t[c] = s[c] /\ (c > 1 => t[c - 1] = s[c - 1])
      BY <1>2, <1>3, <2>1
    <2> QED BY <1>6, <1>7, <2>1, <2>2
  <1>10. ASSUME c = p PROVE qc[c] = nc[p] /\ (Between(q, c, x) <=> (Between(n, p, x) /\ x < k))
    <2>1. p \in 1..((p + 1) - 1) /\ (p > 1 => p - 1 \in 1..(p - 1)) /\ p <= Len(t)
      BY <1>2, <1>4, <1>8
    <2>2. qc[p] = nc[p] /\ (p > 1 => t[p - 1] = s[p - 1])
      BY <1>2, <1>3, <2>1
    <2>3. ASSUME p <= Len(s), x < k PROVE x < s[p]
      <3>1. p \in p..Len(s) /\ s[p] \in Int
        BY <1>4, <1>8, <2>3
      <3> QED BY <1>4, <2>3, <3>1
    <2>4. Between(q, p, x) <=> (p > 1 => s[p - 1] <= x) /\ x < k
      BY <1>2, <1>6, <2>1, <2>2
    <2> QED BY <1>7, <1>10, <2>2, <2>3, <2>4
  <1>11. ASSUME c = p + 1
         PROVE  qc[c] = child /\ (Between(q, c, x) <=> (Between(n, p, x) /\ k <= x))
    <2>1. ASSUME p > 1, k <= x PROVE s[p - 1] <= x
      <3>1. p - 1 \in 1..(p - 1) /\ s[p - 1] \in Int
        BY <1>4, <1>8, <2>1
      <3> QED BY <1>4, <2>1, <3>1
    <2>2. (p + 1 <= Len(t) => x < t[p + 1]) <=> (p <= Len(s) => x < s[p])
      <3>1. p + 1 <= Len(t) <=> p <= Len(s)
        BY <1>2, <1>4, <1>8
      <3>2. ASSUME p <= Len(s) PROVE t[p + 1] = s[p]
        <4>1. p + 1 \in (p + 1)..(Len(s) + 1) /\ (p + 1) - 1 = p
          BY <1>4, <1>8, <3>2
        <4> QED BY <1>2, <4>1
      <3> QED BY <3>1, <3>2
    <2>3. p + 1 > 1 /\ (p + 1) - 1 = p
      BY <1>4
    <2>4. Between(q, p + 1, x) <=> k <= x /\ (p <= Len(s) => x < s[p])
      BY <1>2, <1>6, <2>2, <2>3
    <2> QED BY <1>3, <1>7, <1>11, <2>1, <2>4
  <1>12. ASSUME c > p + 1
         PROVE  c - 1 \in 1..Len(nc) /\ qc[c] = nc[c - 1] /\ (Between(q, c, x) <=> Between(n, c - 1, x))
    <2>1. /\ c \in ((p + 1) + 1)..(Len(nc) + 1) /\ c - 1 \in 1..Len(nc) /\ c > 1 /\ c - 1 > 1
          /\ c - 1 \in (p + 1)..(Len(s) + 1)
      BY <1>1, <1>4, <1>8, <1>12
    <2>2. qc[c] = nc[c - 1] /\ t[c - 1] = s[(c - 1) - 1]
      BY <1>2, <1>3, <2>1
    <2>3. c <= Len(t) <=> c - 1 <= Len(s)
      BY <1>2, <1>8
    <2>4. ASSUME c - 1 <= Len(s) PROVE t[c] = s[c - 1]
      <3>1. c \in (p + 1)..(Len(s) + 1)
        BY <1>4, <1>8, <1>12, <2>4
      <3> QED BY <1>2, <3>1
    <2> QED BY <1>6, <1>7, <2>1, <2>2, <2>3, <2>4
  <1> QED BY <1>9, <1>10, <1>11, <1>12 DEF nc, qc, ChildInserted
-----------------------------------------------------------------------------
(* A node of a tree is cut in two.                                         *)

\* The two nodes differ in their parent at most.
SameEntries(a, b) ==
  /\ a.is_leaf = b.is_leaf
  /\ a.keys = b.keys
  /\ a.values = b.values
  /\ a.children = b.children

\* A node with another parent.
LEMMA ParentUpdate ==
  ASSUME NEW n \in Node, NEW p \in Nat
  PROVE  /\ [n EXCEPT !.parent = p] \in Node
         /\ SameEntries([n EXCEPT !.parent = p], n)
         /\ [n EXCEPT !.parent = p].parent = p
  <1> DEFINE K == Seq(Keys)
             V == Seq(Nat)
  <1>1. Node = [parent : Nat, is_leaf : BOOLEAN, keys : K, values : V, children : V]
    BY DEF Node
  <1> HIDE DEF K, V
  <1> QED BY <1>1 DEF SameEntries

\* The nodes t after at is cut into l and r; r is the last node, and the
\* children it holds get it as their parent.
Cut(t, at, l, r) ==
  [i \in 1..(Len(t) + 1) |->
     IF i = Len(t) + 1 THEN r
     ELSE IF i = at THEN l
     ELSE [t[i] EXCEPT !.parent = IF i \in Range(r.children) THEN Len(t) + 1 ELSE t[i].parent]]

\* The keys that belong under the nodes after the cut at x, and the heights.
CutKeys(d, at, n, x) ==
  [i \in 1..(n + 1) |->
     IF i = n + 1 THEN {k \in d[at] : x <= k}
     ELSE IF i = at THEN {k \in d[at] : k < x}
     ELSE d[i]]

CutHeights(h, at, n) == [i \in 1..(n + 1) |-> IF i = n + 1 THEN h[at] ELSE h[i]]

\* Shape, keys and heights of the nodes s of a tree that has no over-full
\* node.
NodesShape(s, rt, e, g) ==
  /\ \A i \in 1..Len(s) : NodeShape(s[i], ORDER - 1)
  /\ \A i \in 1..Len(s) : \A a \in 1..Len(s[i].keys) : s[i].keys[a] \in e[i]
  /\ \A i \in 1..Len(s) : s[i].is_leaf <=> g[i] = 0
  /\ \A i \in 1..Len(s) : g[i] <= g[rt]
  /\ \A i, j \in 1..Len(s) : i # j /\ g[i] = g[j] =>
       \A k \in Keys : ~(k \in e[i] /\ k \in e[j])

\* Place c of the parent of at, where at hangs and both halves belong.
Slot(s, d, h, at, x, D, c) ==
  LET p == s[at].parent
  IN  /\ p \in 1..(Len(s) - 1)
      /\ p # at
      /\ ~s[p].is_leaf
      /\ c \in 1..Len(s[p].children)
      /\ s[p].children[c] = at
      /\ h[p] = h[at] + 1
      /\ \A k \in Keys : k \in D <=> (k \in d[p] /\ Between(s[p], c, k))
      /\ c > 1 => s[p].keys[c - 1] < x
      /\ \A i \in 1..Len(s) : ~s[i].is_leaf =>
           \A b \in 1..Len(s[i].children) : s[i].children[b] = at => i = p /\ b = c

\* A tree but for the place of the halves at and Len(s) of a node, to which
\* the keys of D belong; the left one has those below x.
Parted(s, rt, at, d, h, x, D) ==
  /\ s \in Seq(Node)
  /\ d \in [1..Len(s) -> SUBSET Keys]
  /\ h \in [1..Len(s) -> Nat]
  /\ rt \in 1..(Len(s) - 1)
  /\ at \in 1..(Len(s) - 1)
  /\ s[rt].parent = NoNode
  /\ h[rt] < Len(s) - 1
  /\ x \in D /\ D \subseteq Keys
  /\ \A k \in Keys : /\ k \in d[at] <=> (k \in D /\ k < x)
                     /\ k \in d[Len(s)] <=> (k \in D /\ x <= k)
  /\ h[Len(s)] = h[at]
  /\ NodesShape(s, rt, d, h)
  /\ \A i \in 1..(Len(s) - 1) : i # rt => ParentShape(s, i)
  /\ \A i \in 1..Len(s) : ~s[i].is_leaf =>
       \A c \in 1..Len(s[i].children) :
         /\ s[i].children[c] # Len(s)
         /\ s[i].children[c] # at => ChildShape(s, d, h, i, c)
  /\ at = rt => /\ D = Keys
                /\ \A i \in 1..Len(s) : ~s[i].is_leaf =>
                     \A c \in 1..Len(s[i].children) : s[i].children[c] # at
  /\ at # rt => d[rt] = Keys /\ \E c \in Nat : Slot(s, d, h, at, x, D, c)

\* What the cut does to each node.
NodesCut(s, t, at, l, r) ==
  /\ s \in Seq(Node) /\ Len(s) = Len(t) + 1
  /\ s[at] = l /\ s[Len(t) + 1] = r
  /\ \A i \in 1..Len(t) : i # at =>
       /\ SameEntries(s[i], t[i])
       /\ i \in Range(r.children) => s[i].parent = Len(t) + 1
       /\ i \notin Range(r.children) => s[i].parent = t[i].parent

\* The nodes after the cut.
LEMMA CutNodes ==
  ASSUME NEW t \in Seq(Node), NEW at \in 1..Len(t), NEW l \in Node, NEW r \in Node
  PROVE  NodesCut(Cut(t, at, l, r), t, at, l, r)
  <1> DEFINE s == Cut(t, at, l, r)
             L == Len(t)
             R == Range(r.children)
             e(i) == [t[i] EXCEPT !.parent = IF i \in R THEN L + 1 ELSE t[i].parent]
  <1>1. L \in Nat /\ \A i \in 1..L : t[i] \in Node
    OBVIOUS
  <1>2. s = [i \in 1..(L + 1) |-> IF i = L + 1 THEN r ELSE IF i = at THEN l ELSE e(i)]
    BY DEF Cut
  <1> HIDE DEF s, L, R
  <1>3. ASSUME NEW i \in 1..L
        PROVE  /\ e(i) \in Node /\ SameEntries(e(i), t[i])
               /\ i \in R => e(i).parent = L + 1
               /\ i \notin R => e(i).parent = t[i].parent
    <2> DEFINE q == IF i \in R THEN L + 1 ELSE t[i].parent
    <2>1. q \in Nat
      BY <1>1, NodeFields
    <2>2. (i \in R => q = L + 1) /\ (i \notin R => q = t[i].parent)
      OBVIOUS
    <2> HIDE DEF q
    <2>3. /\ [t[i] EXCEPT !.parent = q] \in Node /\ [t[i] EXCEPT !.parent = q].parent = q
          /\ SameEntries([t[i] EXCEPT !.parent = q], t[i])
      BY <1>1, <2>1, ParentUpdate
    <2>4. e(i) = [t[i] EXCEPT !.parent = q]
      BY DEF q
    <2> QED BY <2>2, <2>3, <2>4
  <1> HIDE DEF e
  <1>4. at \in 1..L /\ at # L + 1 /\ \A i \in 1..L : i # L + 1 /\ i \in 1..(L + 1)
    BY <1>1 DEF L
  <1>5. \A i \in 1..(L + 1) : s[i] \in Node
    BY <1>1, <1>2, <1>3
  <1>6. s \in Seq(Node) /\ Len(s) = L + 1
    <2>1. L + 1 \in Nat
      BY <1>1
    <2>2. s = [i \in 1..(L + 1) |-> s[i]]
      BY <1>2
    <2>3. [i \in 1..(L + 1) |-> s[i]] \in Seq(Node) /\ Len([i \in 1..(L + 1) |-> s[i]]) = L + 1
      BY <1>5, <2>1
    <2> QED BY <2>2, <2>3
  <1>7. s[at] = l /\ s[L + 1] = r
    BY <1>1, <1>2, <1>4
  <1>8. \A i \in 1..L : i # at => s[i] = e(i)
    BY <1>2, <1>4
  <1> QED BY <1>3, <1>6, <1>7, <1>8 DEF s, L, R, NodesCut

\* Any node of a tree.
LEMMA TreeNode ==
  ASSUME NEW t, NEW rt, NEW over, NEW d, NEW h, Tree(t, rt, over, d, h), NEW i \in 1..Len(t)
  PROVE  /\ t[i] \in Node /\ Sorted(t[i].keys) /\ Len(t[i].keys) \in Nat /\ Len(t[i].keys) >= 1
         /\ t[i].is_leaf \in BOOLEAN
         /\ t[i].is_leaf => Len(t[i].values) = Len(t[i].keys) /\ t[i].children = << >>
         /\ ~t[i].is_leaf => Len(t[i].children) = Len(t[i].keys) + 1
         /\ t[i].keys[1] \in d[i] /\ t[i].keys[1] \in Keys
         /\ d[i] \in SUBSET Keys /\ h[i] \in Nat
  <1>1. t \in Seq(Node) /\ NodeShape(t[i], IF i = over THEN ORDER ELSE ORDER - 1)
    BY DEF Tree
  <1>2. t[i] \in Node
    BY <1>1
  <1>3. \A a \in 1..Len(t[i].keys) : t[i].keys[a] \in d[i]
    BY DEF Tree
  <1>4. d[i] \in SUBSET Keys /\ h[i] \in Nat
    BY DEF Tree
  <1>5. /\ Sorted(t[i].keys)
        /\ t[i].is_leaf => Len(t[i].values) = Len(t[i].keys) /\ t[i].children = << >>
        /\ ~t[i].is_leaf => Len(t[i].children) = Len(t[i].keys) + 1
    BY <1>1 DEF NodeShape
  <1>6. \E most : Len(t[i].keys) \in 1..most
    BY <1>1 DEF NodeShape
  <1>7. t[i].keys \in Seq(Keys) /\ t[i].is_leaf \in BOOLEAN
    BY <1>2, NodeFields
  <1>8. Len(t[i].keys) \in Nat
    BY <1>7
  <1>9. Len(t[i].keys) >= 1
    BY <1>6, <1>8
  <1>10. 1 \in 1..Len(t[i].keys)
    BY <1>8, <1>9
  <1> QED BY <1>2, <1>3, <1>4, <1>5, <1>7, <1>8, <1>9, <1>10

\* A child of a node of a tree.
LEMMA TreeChild ==
  ASSUME NEW t, NEW rt, NEW over, NEW d, NEW h, Tree(t, rt, over, d, h), NEW i \in 1..Len(t),
         ~t[i].is_leaf, NEW c \in 1..Len(t[i].children)
  PROVE  LET j == t[i].children[c]
         IN  /\ j \in 1..Len(t) /\ t[j].parent = i /\ h[i] = h[j] + 1 /\ h[j] \in Nat /\ j # i
             /\ \A k \in Keys : k \in d[j] <=> (k \in d[i] /\ Between(t[i], c, k))
  <1> DEFINE j == t[i].children[c]
  <1>1. ChildShape(t, d, h, i, c)
    BY DEF Tree
  <1>2. /\ j \in 1..Len(t) /\ t[j].parent = i /\ h[i] = h[j] + 1
        /\ \A k \in Keys : k \in d[j] <=> (k \in d[i] /\ Between(t[i], c, k))
    BY <1>1 DEF ChildShape
  <1> HIDE DEF j
  <1>3. h[j] \in Nat
    BY <1>2, TreeNode
  <1>4. j # i
    BY <1>2, <1>3
  <1> QED BY <1>2, <1>3, <1>4 DEF j

\* A node has each of its children once.
LEMMA ChildOnce ==
  ASSUME NEW t, NEW rt, NEW over, NEW d, NEW h, Tree(t, rt, over, d, h), NEW i \in 1..Len(t),
         ~t[i].is_leaf, NEW b \in 1..Len(t[i].children), NEW c \in 1..Len(t[i].children),
         t[i].children[b] = t[i].children[c]
  PROVE  b = c
  <1> DEFINE j == t[i].children[c]
             k == t[j].keys[1]
  <1>1. j \in 1..Len(t) /\ (\A x \in Keys : x \in d[j] <=> (x \in d[i] /\ Between(t[i], c, x)))
    BY TreeChild
  <1>2. \A x \in Keys : x \in d[j] <=> (x \in d[i] /\ Between(t[i], b, x))
    BY TreeChild
  <1> HIDE DEF j
  <1>3. k \in d[j] /\ k \in Keys
    BY <1>1, TreeNode
  <1> HIDE DEF k
  <1>4. Between(t[i], b, k) /\ Between(t[i], c, k) /\ k \in Int
    BY <1>1, <1>2, <1>3, IndexAssumption
  <1>5. t[i] \in Node /\ Sorted(t[i].keys) /\ Len(t[i].children) = Len(t[i].keys) + 1
    BY TreeNode
  <1> QED BY <1>4, <1>5, BetweenOnce

\* The hypotheses of a cut: the over-full node at of a tree, and its halves.
Cuttable(t, rt, at, d, h, l, r, m) ==
  /\ Tree(t, rt, at, d, h)
  /\ at \in 1..Len(t)
  /\ Len(t[at].keys) = ORDER
  /\ m \in 1..(ORDER - 2)
  /\ NodeSplit(l, r, t[at], m)

\* The children that move to the new node are children of the node that is
\* cut.
MovedChildren(t, at, r) ==
  /\ t[at].is_leaf => Range(r.children) = {}
  /\ \A i \in Range(r.children) :
       /\ ~t[at].is_leaf /\ i \in 1..Len(t) /\ i # at /\ t[i].parent = at
       /\ \E c \in 1..Len(r.children) : r.children[c] = i
  /\ ~t[at].is_leaf => \A c \in 1..Len(r.children) : r.children[c] \in Range(r.children)

\* The halves of a node of a tree.
LEMMA Moved ==
  ASSUME NEW t, NEW rt, NEW at, NEW d, NEW h, NEW l, NEW r, NEW m,
         Cuttable(t, rt, at, d, h, l, r, m)
  PROVE  /\ t[at] \in Node /\ NodeShape(t[at], ORDER) /\ l \in Node /\ r \in Node
         /\ l.parent = t[at].parent
         /\ t[at].is_leaf \in BOOLEAN /\ l.is_leaf = t[at].is_leaf /\ r.is_leaf = t[at].is_leaf
         /\ MovedChildren(t, at, r)
  <1>1. /\ Tree(t, rt, at, d, h) /\ at \in 1..Len(t) /\ Len(t[at].keys) = ORDER
        /\ m \in 1..(ORDER - 2) /\ NodeSplit(l, r, t[at], m)
    BY DEF Cuttable
  <1>2. t[at] \in Node /\ t[at].is_leaf \in BOOLEAN
    BY <1>1, TreeNode
  <1>3. NodeShape(t[at], ORDER)
    BY <1>1 DEF Tree
  <1>4. /\ l \in Node /\ r \in Node /\ l.parent = t[at].parent
        /\ l.is_leaf = t[at].is_leaf /\ r.is_leaf = t[at].is_leaf
        /\ t[at].is_leaf => r.children = << >>
    BY <1>1 DEF NodeSplit
  <1>5. r.children \in Seq(Nat)
    BY <1>4, NodeFields
  <1>6. Range(r.children) = {r.children[c] : c \in 1..Len(r.children)}
    BY <1>5 DEF Range
  <1>7. ASSUME t[at].is_leaf PROVE Range(r.children) = {}
    BY <1>4, <1>7 DEF Range
  <1>8. ASSUME NEW i \in Range(r.children)
        PROVE  /\ ~t[at].is_leaf /\ i \in 1..Len(t) /\ i # at /\ t[i].parent = at
               /\ \E c \in 1..Len(r.children) : r.children[c] = i
    <2>1. ~t[at].is_leaf
      BY <1>7, <1>8
    <2>2. PICK c \in 1..Len(r.children) : r.children[c] = i
      BY <1>6, <1>8
    <2>3. m + 1 + c \in 1..Len(t[at].children) /\ r.children[c] = t[at].children[m + 1 + c]
      <3>1. 0 \in Int
        OBVIOUS
      <3> QED BY <1>1, <1>2, <1>3, <2>1, <3>1, BetweenRight
    <2> DEFINE b == m + 1 + c
    <2> HIDE DEF b
    <2>4. b \in 1..Len(t[at].children) /\ i = t[at].children[b]
      BY <2>2, <2>3 DEF b
    <2>5. Tree(t, rt, at, d, h) /\ at \in 1..Len(t)
      BY <1>1
    <2>6. i \in 1..Len(t) /\ i # at /\ t[i].parent = at
      BY <2>1, <2>4, <2>5, TreeChild
    <2> QED BY <2>1, <2>2, <2>6
  <1>9. MovedChildren(t, at, r)
    BY <1>6, <1>7, <1>8 DEF MovedChildren
  <1> QED BY <1>2, <1>3, <1>4, <1>9

\* The keys and heights after the cut.
LEMMA CutValues ==
  ASSUME NEW t, NEW rt, NEW at, NEW d, NEW h, NEW l, NEW r, NEW m,
         Cuttable(t, rt, at, d, h, l, r, m)
  PROVE  LET x == t[at].keys[m + 1]
             L == Len(t)
             e == CutKeys(d, at, L, x)
             g == CutHeights(h, at, L)
         IN  /\ L \in Nat /\ at \in 1..L /\ x \in d[at] /\ x \in Int
             /\ e \in [1..(L + 1) -> SUBSET Keys] /\ g \in [1..(L + 1) -> Nat]
             /\ e[L + 1] = {k \in d[at] : x <= k}
             /\ e[at] = {k \in d[at] : k < x}
             /\ \A i \in 1..L : i # at => e[i] = d[i]
             /\ \A i \in 1..L : g[i] = h[i]
             /\ g[L + 1] = h[at]
  <1> DEFINE x == t[at].keys[m + 1]
             L == Len(t)
             e == CutKeys(d, at, L, x)
             g == CutHeights(h, at, L)
  <1>1. /\ t \in Seq(Node) /\ d \in [1..L -> SUBSET Keys] /\ h \in [1..L -> Nat] /\ at \in 1..L
        /\ Len(t[at].keys) = ORDER /\ m \in 1..(ORDER - 2)
        /\ \A a \in 1..Len(t[at].keys) : t[at].keys[a] \in d[at]
    BY DEF Cuttable, Tree
  <1>2. L \in Nat
    BY <1>1
  <1>3. x \in d[at] /\ x \in Int
    <2>1. m + 1 \in 1..Len(t[at].keys)
      BY <1>1, IndexAssumption
    <2> HIDE DEF L
    <2> QED BY <1>1, <2>1, IndexAssumption
  <1>4. /\ e = [i \in 1..(L + 1) |-> IF i = L + 1 THEN {k \in d[at] : x <= k}
                                     ELSE IF i = at THEN {k \in d[at] : k < x} ELSE d[i]]
        /\ g = [i \in 1..(L + 1) |-> IF i = L + 1 THEN h[at] ELSE h[i]]
    BY DEF CutKeys, CutHeights
  <1> HIDE DEF x, L, e, g
  <1>5. \A i \in 1..L : i \in 1..(L + 1) /\ i # L + 1
    BY <1>2
  <1>6. L + 1 \in 1..(L + 1) /\ \A i \in 1..(L + 1) : i # L + 1 => i \in 1..L
    BY <1>2
  <1>7. e \in [1..(L + 1) -> SUBSET Keys]
    BY <1>1, <1>4, <1>6
  <1>8. g \in [1..(L + 1) -> Nat]
    BY <1>1, <1>4, <1>6
  <1>9. /\ e[L + 1] = {k \in d[at] : x <= k}
        /\ e[at] = {k \in d[at] : k < x}
        /\ \A i \in 1..L : i # at => e[i] = d[i]
    BY <1>1, <1>4, <1>5, <1>6
  <1>10. (\A i \in 1..L : g[i] = h[i]) /\ g[L + 1] = h[at]
    BY <1>4, <1>5, <1>6
  <1> QED BY <1>1, <1>2, <1>3, <1>7, <1>8, <1>9, <1>10 DEF x, L, e, g

\* The nodes after the cut: their shape, keys and heights.
LEMMA CutShapes ==
  ASSUME NEW t, NEW rt, NEW at, NEW d, NEW h, NEW l, NEW r, NEW m,
         Cuttable(t, rt, at, d, h, l, r, m)
  PROVE  LET x == t[at].keys[m + 1]
             L == Len(t)
             s == Cut(t, at, l, r)
             e == CutKeys(d, at, L, x)
             g == CutHeights(h, at, L)
         IN  NodesShape(s, rt, e, g)
  <1> DEFINE x == t[at].keys[m + 1]
             L == Len(t)
             s == Cut(t, at, l, r)
             e == CutKeys(d, at, L, x)
             g == CutHeights(h, at, L)
             w == t[at]
  <1>1. /\ t \in Seq(Node) /\ at \in 1..L /\ rt \in 1..L
        /\ Len(w.keys) = ORDER /\ m \in 1..(ORDER - 2) /\ NodeSplit(l, r, w, m)
        /\ \A i \in 1..L : NodeShape(t[i], IF i = at THEN ORDER ELSE ORDER - 1)
        /\ \A i \in 1..L : \A a \in 1..Len(t[i].keys) : t[i].keys[a] \in d[i]
        /\ \A i \in 1..L : t[i].is_leaf <=> h[i] = 0
        /\ \A i \in 1..L : h[i] <= h[rt]
        /\ \A i, j \in 1..L : i # j /\ h[i] = h[j] => \A k \in Keys : ~(k \in d[i] /\ k \in d[j])
    BY DEF Cuttable, Tree
  <1>2. /\ w \in Node /\ NodeShape(w, ORDER) /\ l \in Node /\ r \in Node
        /\ w.is_leaf \in BOOLEAN /\ l.is_leaf = w.is_leaf /\ r.is_leaf = w.is_leaf
    BY Moved
  <1>3. /\ NodeShape(l, ORDER - 1) /\ NodeShape(r, ORDER - 1)
        /\ \A a \in 1..Len(l.keys) : a \in 1..ORDER /\ l.keys[a] = w.keys[a] /\ l.keys[a] < x
        /\ \A a \in 1..Len(r.keys) : x <= r.keys[a] /\ \E b \in 1..ORDER : r.keys[a] = w.keys[b]
    BY <1>1, <1>2, SplitShape
  <1>4. /\ L \in Nat /\ x \in d[at]
        /\ e[L + 1] = {k \in d[at] : x <= k}
        /\ e[at] = {k \in d[at] : k < x}
        /\ \A i \in 1..L : i # at => e[i] = d[i]
        /\ \A i \in 1..L : g[i] = h[i]
        /\ g[L + 1] = h[at]
    BY CutValues
  <1>5. /\ Len(s) = L + 1 /\ s[at] = l /\ s[L + 1] = r
        /\ \A i \in 1..L : i # at => SameEntries(s[i], t[i])
    <2>1. t \in Seq(Node) /\ at \in 1..Len(t) /\ l \in Node /\ r \in Node
      BY <1>1, <1>2
    <2>2. NodesCut(s, t, at, l, r)
      BY <2>1, CutNodes
    <2> QED BY <2>2 DEF NodesCut
  <1> HIDE DEF x, L, s, e, g, w
  <1>6. \A i \in 1..(L + 1) : i = L + 1 \/ i \in 1..L
    BY <1>4
  <1>7. ASSUME NEW i \in 1..(L + 1)
        PROVE  /\ NodeShape(s[i], ORDER - 1)
               /\ \A a \in 1..Len(s[i].keys) : s[i].keys[a] \in e[i]
               /\ s[i].is_leaf <=> g[i] = 0
               /\ g[i] <= g[rt]
    <2>1. CASE i = L + 1
      <3>1. ASSUME NEW a \in 1..Len(r.keys) PROVE r.keys[a] \in e[L + 1]
        <4>1. PICK b \in 1..ORDER : r.keys[a] = w.keys[b]
          BY <1>3
        <4>2. w.keys[b] \in d[at]
          BY <1>1 DEF w
        <4> QED BY <1>3, <1>4, <4>1, <4>2
      <3> QED BY <1>1, <1>2, <1>3, <1>4, <1>5, <2>1, <3>1 DEF w
    <2>2. CASE i = at
      <3>1. \A a \in 1..Len(l.keys) : l.keys[a] \in e[at]
        BY <1>1, <1>3, <1>4 DEF w
      <3> QED BY <1>1, <1>2, <1>3, <1>4, <1>5, <2>2, <3>1 DEF w
    <2>3. CASE i \in 1..L /\ i # at
      <3>1. NodeShape(t[i], ORDER - 1)
        BY <1>1, <2>3
      <3>2. SameEntries(s[i], t[i]) /\ e[i] = d[i] /\ g[i] = h[i] /\ g[rt] = h[rt]
        BY <1>1, <1>4, <1>5, <2>3
      <3>3. NodeShape(s[i], ORDER - 1)
        BY <3>1, <3>2 DEF NodeShape, SameEntries
      <3>4. s[i].keys = t[i].keys /\ s[i].is_leaf = t[i].is_leaf
        BY <3>2 DEF SameEntries
      <3> QED BY <1>1, <2>3, <3>2, <3>3, <3>4
    <2> QED BY <1>6, <2>1, <2>2, <2>3
  <1>8. ASSUME NEW i \in 1..(L + 1), NEW j \in 1..(L + 1), i # j, g[i] = g[j],
               NEW k \in Keys, k \in e[i], k \in e[j]
        PROVE  FALSE
    <2>1. k \in Int /\ x \in Int
      BY <1>4, IndexAssumption, CutValues DEF x
    <2>2. CASE i \in 1..L /\ j \in 1..L
      BY <1>1, <1>4, <1>8, <2>2
    <2>3. CASE i = L + 1 /\ j \in 1..L
      BY <1>1, <1>4, <1>8, <2>1, <2>3
    <2>4. CASE j = L + 1 /\ i \in 1..L
      BY <1>1, <1>4, <1>8, <2>1, <2>4
    <2> QED BY <1>6, <1>8, <2>2, <2>3, <2>4
  <1>9. NodesShape(s, rt, e, g)
    BY <1>5, <1>7, <1>8 DEF NodesShape
  <1> QED BY <1>9 DEF x, L, s, e, g

\* Every node but the root and the new one hangs under its parent.
LEMMA CutParents ==
  ASSUME NEW t, NEW rt, NEW at, NEW d, NEW h, NEW l, NEW r, NEW m,
         Cuttable(t, rt, at, d, h, l, r, m), NEW i \in 1..Len(t), i # rt
  PROVE  ParentShape(Cut(t, at, l, r), i)
  <1> DEFINE L == Len(t)
             s == Cut(t, at, l, r)
             R == Range(r.children)
             p == t[i].parent
  <1>1. /\ Tree(t, rt, at, d, h) /\ t \in Seq(Node) /\ at \in 1..Len(t) /\ Len(t[at].keys) = ORDER
        /\ m \in 1..(ORDER - 2) /\ NodeSplit(l, r, t[at], m) /\ ParentShape(t, i)
    BY DEF Cuttable, Tree
  <1>2. /\ t[at] \in Node /\ NodeShape(t[at], ORDER) /\ l \in Node /\ r \in Node
        /\ l.parent = t[at].parent /\ l.is_leaf = t[at].is_leaf /\ r.is_leaf = t[at].is_leaf
        /\ \A j \in R : /\ ~t[at].is_leaf /\ j \in 1..Len(t) /\ j # at /\ t[j].parent = at
                        /\ \E c \in 1..Len(r.children) : r.children[c] = j
        /\ ~t[at].is_leaf => \A c \in 1..Len(r.children) : r.children[c] \in R
    <2>1. /\ t[at] \in Node /\ NodeShape(t[at], ORDER) /\ l \in Node /\ r \in Node
          /\ l.parent = t[at].parent /\ l.is_leaf = t[at].is_leaf /\ r.is_leaf = t[at].is_leaf
          /\ MovedChildren(t, at, r)
      BY Moved
    <2> QED BY <2>1 DEF MovedChildren
  <1>3. /\ Len(s) = L + 1 /\ s[at] = l /\ s[L + 1] = r
        /\ \A j \in 1..L : j # at => /\ SameEntries(s[j], t[j])
                                     /\ j \in R => s[j].parent = L + 1
                                     /\ j \notin R => s[j].parent = t[j].parent
    <2>1. NodesCut(s, t, at, l, r)
      BY <1>1, <1>2, CutNodes
    <2> QED BY <2>1 DEF NodesCut
  <1>4. /\ p \in 1..L /\ ~t[p].is_leaf
        /\ \E c \in 1..Len(t[p].children) : t[p].children[c] = i
    BY <1>1 DEF ParentShape
  <1>5. L \in Nat
    BY <1>1
  <1>6. PICK c \in 1..Len(t[p].children) : t[p].children[c] = i
    BY <1>4
  <1>7. i # p
    BY <1>1, <1>4, <1>6, TreeChild
  <1> HIDE DEF L, s, R, p
  <1>8. CASE i \in R
    <2>1. s[i].parent = L + 1 /\ ~r.is_leaf
      BY <1>2, <1>3, <1>8 DEF L
    <2>2. \E b \in 1..Len(s[L + 1].children) : s[L + 1].children[b] = i
      BY <1>2, <1>3, <1>8
    <2>3. L + 1 \in 1..Len(s)
      BY <1>3, <1>5
    <2> QED BY <1>3, <2>1, <2>2, <2>3 DEF ParentShape, s
  <1>9. CASE i \notin R /\ p # at
    <2>1. s[i].parent = p
      BY <1>2, <1>3, <1>9 DEF p, L
    <2>2. s[p].is_leaf = t[p].is_leaf /\ s[p].children = t[p].children
      BY <1>3, <1>4, <1>9 DEF SameEntries
    <2>3. p \in 1..Len(s)
      BY <1>3, <1>4, <1>5
    <2> QED BY <1>4, <2>1, <2>2, <2>3 DEF ParentShape, s
  <1>10. CASE i \notin R /\ p = at
    <2>1. s[i].parent = at /\ ~t[at].is_leaf
      BY <1>3, <1>4, <1>7, <1>10 DEF p, L
    <2>2. /\ Len(l.children) = m + 1 /\ \A j \in 1..(m + 1) : l.children[j] = t[at].children[0 + j]
          /\ Len(r.children) = ORDER - m
          /\ \A j \in 1..(ORDER - m) : r.children[j] = t[at].children[m + 1 + j]
          /\ Len(t[at].children) = ORDER + 1
      BY <1>1, <1>2, <2>1 DEF NodeSplit, Part, NodeShape
    <2>3. c \in 1..(m + 1)
      <3>1. c \in 1..(ORDER + 1)
        BY <1>10, <2>2
      <3>2. ASSUME c > m + 1 PROVE FALSE
        <4>1. c - (m + 1) \in 1..(ORDER - m) /\ m + 1 + (c - (m + 1)) = c
          BY <1>1, <3>1, <3>2, IndexAssumption
        <4>2. r.children[c - (m + 1)] = i
          BY <1>6, <1>10, <2>2, <4>1
        <4> QED BY <1>2, <1>10, <2>1, <2>2, <4>1, <4>2
      <3> QED BY <1>1, <3>1, <3>2
    <2>4. l.children[c] = i
      <3>1. 0 + c = c
        BY <2>3
      <3> QED BY <1>6, <1>10, <2>2, <2>3, <3>1
    <2>5. \E b \in 1..Len(s[at].children) : s[at].children[b] = i
      BY <1>3, <2>2, <2>3, <2>4
    <2>6. at \in 1..Len(s) /\ ~s[at].is_leaf
      BY <1>1, <1>2, <1>3, <1>5, <2>1 DEF L
    <2> QED BY <2>1, <2>5, <2>6 DEF ParentShape, s
  <1> QED BY <1>8, <1>9, <1>10

\* Every child of node i but the one that was cut has its shape.
ChildrenCut(s, t, at, e, g, i) ==
  ~s[i].is_leaf => \A c \in 1..Len(s[i].children) :
    /\ s[i].children[c] \in 1..Len(t)
    /\ s[i].children[c] = at => i # at /\ i = t[at].parent
    /\ s[i].children[c] # at => ChildShape(s, e, g, i, c)

\* The children after the cut.
LEMMA CutChildren ==
  ASSUME NEW t, NEW rt, NEW at, NEW d, NEW h, NEW l, NEW r, NEW m,
         Cuttable(t, rt, at, d, h, l, r, m), NEW i \in 1..(Len(t) + 1)
  PROVE  LET x == t[at].keys[m + 1]
             s == Cut(t, at, l, r)
         IN  ChildrenCut(s, t, at, CutKeys(d, at, Len(t), x), CutHeights(h, at, Len(t)), i)
  <1> DEFINE L == Len(t)
             s == Cut(t, at, l, r)
             R == Range(r.children)
             w == t[at]
             x == t[at].keys[m + 1]
             e == CutKeys(d, at, L, x)
             g == CutHeights(h, at, L)
  <1>1. /\ Tree(t, rt, at, d, h) /\ t \in Seq(Node) /\ at \in 1..L /\ Len(w.keys) = ORDER
        /\ m \in 1..(ORDER - 2) /\ NodeSplit(l, r, w, m)
    BY DEF Cuttable, Tree
  <1>2. /\ w \in Node /\ NodeShape(w, ORDER) /\ l \in Node /\ r \in Node
        /\ l.parent = w.parent /\ l.is_leaf = w.is_leaf /\ r.is_leaf = w.is_leaf
        /\ \A j \in R : /\ ~w.is_leaf /\ j \in 1..L /\ j # at /\ t[j].parent = at
                        /\ \E c \in 1..Len(r.children) : r.children[c] = j
        /\ ~w.is_leaf => \A c \in 1..Len(r.children) : r.children[c] \in R
    <2>1. /\ t[at] \in Node /\ NodeShape(t[at], ORDER) /\ l \in Node /\ r \in Node
          /\ l.parent = t[at].parent /\ l.is_leaf = t[at].is_leaf /\ r.is_leaf = t[at].is_leaf
          /\ MovedChildren(t, at, r)
      BY Moved
    <2> QED BY <2>1 DEF MovedChildren
  <1>3. /\ Len(s) = L + 1 /\ s[at] = l /\ s[L + 1] = r
        /\ \A j \in 1..L : j # at => /\ SameEntries(s[j], t[j])
                                     /\ j \in R => s[j].parent = L + 1
                                     /\ j \notin R => s[j].parent = t[j].parent
    <2>1. t \in Seq(Node) /\ at \in 1..Len(t) /\ l \in Node /\ r \in Node
      BY <1>1, <1>2
    <2>2. NodesCut(s, t, at, l, r)
      BY <2>1, CutNodes
    <2> QED BY <2>2 DEF NodesCut
  <1>4. /\ L \in Nat /\ x \in Int
        /\ e[L + 1] = {k \in d[at] : x <= k}
        /\ e[at] = {k \in d[at] : k < x}
        /\ \A j \in 1..L : j # at => e[j] = d[j]
        /\ \A j \in 1..L : g[j] = h[j]
        /\ g[L + 1] = h[at]
    BY CutValues
  <1>5. \A j \in 1..L : ~t[j].is_leaf => \A c \in 1..Len(t[j].children) :
          LET y == t[j].children[c]
          IN  /\ y \in 1..L /\ t[y].parent = j /\ h[j] = h[y] + 1 /\ h[y] \in Nat /\ y # j
              /\ \A k \in Keys : k \in d[y] <=> (k \in d[j] /\ Between(t[j], c, k))
    BY <1>1, TreeChild
  <1>6. Keys \subseteq Int
    BY IndexAssumption
  <1> HIDE DEF L, s, R, w, x, e, g
  <1>7. \A j \in 1..L : j \in 1..Len(s)
    BY <1>3, <1>4
  <1> SUFFICES ASSUME ~s[i].is_leaf, NEW c \in 1..Len(s[i].children)
               PROVE  /\ s[i].children[c] \in 1..L
                      /\ s[i].children[c] = at => i # at /\ i = w.parent
                      /\ s[i].children[c] # at => ChildShape(s, e, g, i, c)
    BY DEF L, s, x, e, g, w, ChildrenCut
  <1> DEFINE j == s[i].children[c]
  <1>8. CASE i \in 1..L /\ i # at
    <2>1. s[i].is_leaf = t[i].is_leaf /\ s[i].children = t[i].children /\ s[i].keys = t[i].keys
      BY <1>3, <1>8 DEF SameEntries
    <2>2. /\ j \in 1..L /\ t[j].parent = i /\ h[i] = h[j] + 1
          /\ \A k \in Keys : k \in d[j] <=> (k \in d[i] /\ Between(t[i], c, k))
      BY <1>5, <1>8, <2>1
    <2> HIDE DEF j
    <2>3. ASSUME j # at PROVE ChildShape(s, e, g, i, c)
      <3>1. j \notin R
        BY <1>2, <1>8, <2>2
      <3>2. s[j].parent = i /\ g[i] = g[j] + 1 /\ e[j] = d[j] /\ e[i] = d[i]
        BY <1>3, <1>4, <1>8, <2>2, <2>3, <3>1
      <3>3. \A k : Between(t[i], c, k) <=> Between(s[i], c, k)
        BY <2>1 DEF Between
      <3> QED BY <1>7, <2>2, <3>2, <3>3 DEF ChildShape, j
    <2> QED BY <1>8, <2>2, <2>3 DEF j, w
  <1>9. CASE i = at
    <2>1. ~w.is_leaf /\ c \in 1..Len(l.children) /\ j = l.children[c]
      BY <1>2, <1>3, <1>9
    <2>2. /\ c \in 1..(m + 1) /\ j = w.children[c]
          /\ \A k \in Int : Between(w, c, k) <=> (Between(l, c, k) /\ k < x)
      <3>1. \A k \in Int : /\ c \in 1..(m + 1) /\ l.children[c] = w.children[c]
                           /\ Between(w, c, k) <=> (Between(l, c, k) /\ k < w.keys[m + 1])
        BY <1>1, <1>2, <2>1, BetweenLeft
      <3>2. 0 \in Int /\ x = w.keys[m + 1]
        BY DEF x, w
      <3> QED BY <2>1, <3>1, <3>2
    <2>3. c \in 1..Len(w.children)
      <3>1. Len(w.children) = ORDER + 1
        BY <1>1, <1>2, <2>1 DEF NodeShape
      <3> QED BY <1>1, <2>2, <3>1, IndexAssumption
    <2>4. /\ j \in 1..L /\ t[j].parent = at /\ h[at] = h[j] + 1 /\ j # at
          /\ \A k \in Keys : k \in d[j] <=> (k \in d[at] /\ Between(w, c, k))
      BY <1>1, <1>5, <2>1, <2>2, <2>3 DEF w
    <2> HIDE DEF j
    <2>5. j \notin R
      <3> SUFFICES ASSUME j \in R PROVE FALSE
        OBVIOUS
      <3>1. PICK b \in 1..Len(r.children) : r.children[b] = j
        BY <1>2
      <3>2. m + 1 + b \in 1..Len(w.children) /\ r.children[b] = w.children[m + 1 + b]
        <4>1. /\ Len(r.children) = ORDER - m
              /\ \A y \in 1..(ORDER - m) : r.children[y] = w.children[m + 1 + y]
              /\ Len(w.children) = ORDER + 1
          BY <1>1, <1>2, <2>1 DEF NodeSplit, Part, NodeShape
        <4>2. m + 1 + b \in 1..(ORDER + 1)
          <5>1. b \in 1..(ORDER - m) /\ m \in 1..(ORDER - 2) /\ ORDER \in Nat
            BY <1>1, <3>1, <4>1, IndexAssumption
          <5> QED BY <5>1
        <4> QED BY <3>1, <4>1, <4>2
      <3>3. w.children[c] = w.children[m + 1 + b]
        BY <2>2, <3>1, <3>2
      <3>4. c = m + 1 + b
        BY <1>1, <2>1, <2>3, <3>2, <3>3, ChildOnce DEF w, L
      <3>5. r.children \in Seq(Nat)
        BY <1>2, NodeFields
      <3>6. b \in Nat /\ b >= 1
        BY <3>1, <3>5
      <3> QED BY <1>1, <2>2, <3>4, <3>6
    <2>6. s[j].parent = at /\ g[at] = g[j] + 1 /\ e[j] = d[j]
      BY <1>1, <1>3, <1>4, <2>4, <2>5
    <2>7. \A k \in Keys : k \in e[j] <=> (k \in e[at] /\ Between(s[at], c, k))
      BY <1>3, <1>4, <1>6, <2>2, <2>4, <2>6
    <2> QED BY <1>7, <1>9, <2>4, <2>6, <2>7 DEF ChildShape, j
  <1>10. CASE i = L + 1
    <2>1. ~w.is_leaf /\ c \in 1..Len(r.children) /\ j = r.children[c]
      BY <1>2, <1>3, <1>10
    <2>2. /\ m + 1 + c \in 1..Len(w.children) /\ j = w.children[m + 1 + c]
          /\ \A k \in Int : Between(w, m + 1 + c, k) <=> (Between(r, c, k) /\ x <= k)
      <3>1. \A k \in Int :
              /\ m + 1 + c \in 1..Len(w.children) /\ r.children[c] = w.children[m + 1 + c]
              /\ Between(w, m + 1 + c, k) <=> (Between(r, c, k) /\ w.keys[m + 1] <= k)
        BY <1>1, <1>2, <2>1, BetweenRight
      <3>2. 0 \in Int /\ x = w.keys[m + 1]
        BY DEF x, w
      <3> QED BY <2>1, <3>1, <3>2
    <2>3. /\ j \in 1..L /\ t[j].parent = at /\ h[at] = h[j] + 1 /\ j # at
          /\ \A k \in Keys : k \in d[j] <=> (k \in d[at] /\ Between(w, m + 1 + c, k))
      BY <1>1, <1>5, <2>1, <2>2 DEF w
    <2>4. j \in R
      BY <1>2, <2>1
    <2> HIDE DEF j
    <2>5. s[j].parent = L + 1 /\ g[L + 1] = g[j] + 1 /\ e[j] = d[j]
      BY <1>1, <1>3, <1>4, <2>3, <2>4
    <2>6. \A k \in Keys : k \in e[j] <=> (k \in e[L + 1] /\ Between(s[L + 1], c, k))
      BY <1>3, <1>4, <1>6, <2>2, <2>3, <2>5
    <2> QED BY <1>7, <1>10, <2>3, <2>5, <2>6 DEF ChildShape, j
  <1>11. i \in 1..L \/ i = L + 1
    BY <1>4 DEF L
  <1> QED BY <1>8, <1>9, <1>10, <1>11

\* Where the two halves belong in the parent.
LEMMA CutSlot ==
  ASSUME NEW t, NEW rt, NEW at, NEW d, NEW h, NEW l, NEW r, NEW m,
         Cuttable(t, rt, at, d, h, l, r, m), at # rt
  PROVE  LET x == t[at].keys[m + 1]
             s == Cut(t, at, l, r)
         IN  \E c \in Nat : Slot(s, CutKeys(d, at, Len(t), x), CutHeights(h, at, Len(t)), at, x, d[at], c)
  <1> DEFINE L == Len(t)
             s == Cut(t, at, l, r)
             R == Range(r.children)
             w == t[at]
             p == t[at].parent
             x == t[at].keys[m + 1]
             e == CutKeys(d, at, L, x)
             g == CutHeights(h, at, L)
  <1>1. /\ Tree(t, rt, at, d, h) /\ t \in Seq(Node) /\ at \in 1..L /\ ParentShape(t, at)
        /\ Len(w.keys) = ORDER /\ m \in 1..(ORDER - 2)
    BY DEF Cuttable, Tree
  <1>2. w \in Node /\ l \in Node /\ r \in Node /\ l.parent = p /\ NodeShape(w, ORDER)
    BY Moved
  <1>3. /\ Len(s) = L + 1 /\ s[at] = l
        /\ \A j \in 1..L : j # at => SameEntries(s[j], t[j])
    <2>1. t \in Seq(Node) /\ at \in 1..Len(t) /\ l \in Node /\ r \in Node
      BY <1>1, <1>2
    <2>2. NodesCut(s, t, at, l, r)
      BY <2>1, CutNodes
    <2> QED BY <2>2 DEF NodesCut
  <1>4. /\ L \in Nat /\ x \in Int /\ x \in d[at]
        /\ \A j \in 1..L : j # at => e[j] = d[j]
        /\ \A j \in 1..L : g[j] = h[j]
    BY CutValues
  <1>5. /\ p \in 1..L /\ ~t[p].is_leaf
        /\ \E c \in 1..Len(t[p].children) : t[p].children[c] = at
    BY <1>1 DEF ParentShape
  <1>6. PICK c \in 1..Len(t[p].children) : t[p].children[c] = at
    BY <1>5
  <1>7. /\ h[p] = h[at] + 1 /\ at # p
        /\ \A k \in Keys : k \in d[at] <=> (k \in d[p] /\ Between(t[p], c, k))
    <2> HIDE DEF p
    <2> QED BY <1>1, <1>5, <1>6, TreeChild
  <1>8. \A i \in 1..(L + 1) : ~s[i].is_leaf => \A b \in 1..Len(s[i].children) :
          s[i].children[b] = at => i # at /\ i = p
    <2> SUFFICES ASSUME NEW i \in 1..(L + 1), ~s[i].is_leaf, NEW b \in 1..Len(s[i].children),
                        s[i].children[b] = at
                 PROVE  i # at /\ i = p
      OBVIOUS
    <2>1. ChildrenCut(s, t, at, e, g, i)
      BY CutChildren
    <2> QED BY <2>1 DEF ChildrenCut
  <1>9. \A b \in 1..Len(t[p].children) : t[p].children[b] = at => b = c
    <2> HIDE DEF p
    <2> QED BY <1>1, <1>5, <1>6, ChildOnce
  <1>10. t[p].children \in Seq(Nat) /\ t[p].keys \in Seq(Int) /\ Len(t[p].children) = Len(t[p].keys) + 1
    <2>1. t[p] \in Node /\ Len(t[p].children) = Len(t[p].keys) + 1
      BY <1>1, <1>5, TreeNode
    <2> QED BY <2>1, NodeFields
  <1>11. w.keys[1] \in Keys /\ w.keys[1] \in d[at] /\ w.keys[1] < x /\ w.keys[1] \in Int
    <2>1. w.keys[1] \in Keys /\ w.keys[1] \in d[at]
      BY <1>1, TreeNode
    <2>2. 1 \in 1..Len(w.keys) /\ m + 1 \in 1..Len(w.keys) /\ 1 < m + 1
      BY <1>1, IndexAssumption
    <2>3. w.keys[1] < w.keys[m + 1]
      BY <1>2, <2>2 DEF NodeShape, Sorted
    <2> QED BY <2>1, <2>3, IndexAssumption
  <1> HIDE DEF L, s, R, w, x, e, g
  <1>12. s[p].keys = t[p].keys /\ s[p].children = t[p].children /\ s[p].is_leaf = t[p].is_leaf
    BY <1>3, <1>5, <1>7 DEF SameEntries
  <1>13. ASSUME c > 1 PROVE t[p].keys[c - 1] < x
    <2>1. t[p].keys[c - 1] <= w.keys[1]
      BY <1>7, <1>11, <1>13 DEF Between
    <2>2. c - 1 \in 1..Len(t[p].keys)
      BY <1>6, <1>10, <1>13
    <2>3. t[p].keys[c - 1] \in Int
      BY <1>10, <2>2
    <2> QED BY <1>4, <1>11, <2>1, <2>3
  <1>14. c \in Nat /\ p \in 1..(Len(s) - 1) /\ Len(s) = L + 1
    BY <1>3, <1>4, <1>5, <1>6, <1>10
  <1>15. \A k : Between(t[p], c, k) <=> Between(s[p], c, k)
    BY <1>12 DEF Between
  <1>16. s[at].parent = p
    BY <1>2, <1>3
  <1> HIDE DEF p
  <1>17. e[p] = d[p] /\ g[p] = g[at] + 1
    BY <1>1, <1>4, <1>5, <1>7
  <1>18. \A i \in 1..Len(s) : ~s[i].is_leaf =>
           \A b \in 1..Len(s[i].children) : s[i].children[b] = at => i = p /\ b = c
    BY <1>8, <1>9, <1>12, <1>14
  <1>19. Slot(s, e, g, at, x, d[at], c)
    BY <1>5, <1>6, <1>7, <1>12, <1>13, <1>14, <1>15, <1>16, <1>17, <1>18 DEF Slot
  <1> QED BY <1>14, <1>19 DEF s, e, g, x, L

\* Cutting an over-full node leaves a tree but for the place of the halves.
LEMMA CutTree ==
  ASSUME NEW t, NEW rt, NEW at, NEW d, NEW h, NEW l, NEW r, NEW m,
         Cuttable(t, rt, at, d, h, l, r, m)
  PROVE  LET x == t[at].keys[m + 1]
         IN  Parted(Cut(t, at, l, r), rt, at, CutKeys(d, at, Len(t), x),
                    CutHeights(h, at, Len(t)), x, d[at])
  <1> DEFINE L == Len(t)
             s == Cut(t, at, l, r)
             x == t[at].keys[m + 1]
             e == CutKeys(d, at, L, x)
             g == CutHeights(h, at, L)
  <1>1. /\ Tree(t, rt, at, d, h) /\ t \in Seq(Node) /\ at \in 1..L /\ rt \in 1..L
        /\ d \in [1..L -> SUBSET Keys] /\ h[rt] < L /\ t[rt].parent = NoNode /\ d[rt] = Keys
    BY DEF Cuttable, Tree
  <1>2. l \in Node /\ r \in Node /\ l.parent = t[at].parent /\ MovedChildren(t, at, r)
    BY Moved
  <1>3. /\ s \in Seq(Node) /\ Len(s) = L + 1 /\ s[at] = l
        /\ \A j \in 1..L : j # at /\ j \notin Range(r.children) => s[j].parent = t[j].parent
    <2>1. t \in Seq(Node) /\ at \in 1..Len(t) /\ l \in Node /\ r \in Node
      BY <1>1, <1>2
    <2>2. NodesCut(s, t, at, l, r)
      BY <2>1, CutNodes
    <2> QED BY <2>2 DEF NodesCut
  <1>4. /\ L \in Nat /\ x \in d[at] /\ x \in Int
        /\ e \in [1..(L + 1) -> SUBSET Keys] /\ g \in [1..(L + 1) -> Nat]
        /\ e[L + 1] = {k \in d[at] : x <= k}
        /\ e[at] = {k \in d[at] : k < x}
        /\ \A j \in 1..L : j # at => e[j] = d[j]
        /\ \A j \in 1..L : g[j] = h[j]
        /\ g[L + 1] = h[at]
    BY CutValues
  <1>5. NodesShape(s, rt, e, g)
    BY CutShapes
  <1>6. \A i \in 1..L : i # rt => ParentShape(s, i)
    BY CutParents
  <1>7. \A i \in 1..(L + 1) : ~s[i].is_leaf => \A c \in 1..Len(s[i].children) :
          /\ s[i].children[c] \in 1..L
          /\ s[i].children[c] = at => i # at /\ i = t[at].parent
          /\ s[i].children[c] # at => ChildShape(s, e, g, i, c)
    <2>1. \A i \in 1..(L + 1) : ChildrenCut(s, t, at, e, g, i)
      BY CutChildren
    <2> QED BY <2>1 DEF ChildrenCut
  <1>8. at # rt => \E c \in Nat : Slot(s, e, g, at, x, d[at], c)
    BY CutSlot
  <1>9. at # rt => rt \notin Range(r.children)
    <2>1. ASSUME rt \in Range(r.children) PROVE NoNode = at
      BY <1>1, <1>2, <2>1 DEF MovedChildren
    <2>2. at # NoNode
      BY <1>1 DEF NoNode
    <2> QED BY <2>1, <2>2
  <1>10. s[rt].parent = NoNode
    BY <1>1, <1>2, <1>3, <1>9
  <1> HIDE DEF L, s, x, e, g
  <1>11. Len(s) - 1 = L /\ Len(s) = L + 1
    BY <1>3, <1>4
  <1>12. \A i \in 1..(L + 1) : ~s[i].is_leaf => \A c \in 1..Len(s[i].children) :
           /\ s[i].children[c] # L + 1
           /\ s[i].children[c] # at => ChildShape(s, e, g, i, c)
    BY <1>4, <1>7
  <1>13. at = rt => \A i \in 1..(L + 1) : ~s[i].is_leaf => \A c \in 1..Len(s[i].children) :
           s[i].children[c] # at
    <2>1. NoNode \notin 1..(L + 1)
      BY <1>4 DEF NoNode
    <2> QED BY <1>1, <1>7, <2>1
  <1>14. \A k \in Keys : /\ k \in e[at] <=> (k \in d[at] /\ k < x)
                         /\ k \in e[L + 1] <=> (k \in d[at] /\ x <= k)
    BY <1>4
  <1>15. g[rt] < L /\ g[L + 1] = g[at] /\ d[at] \subseteq Keys
    BY <1>1, <1>4
  <1>16. (at = rt => d[at] = Keys) /\ (at # rt => e[rt] = Keys)
    BY <1>1, <1>4
  <1>17. Parted(s, rt, at, e, g, x, d[at])
    BY <1>1, <1>3, <1>4, <1>5, <1>6, <1>8, <1>10, <1>11, <1>12, <1>13, <1>14, <1>15, <1>16 DEF Parted
  <1> QED BY <1>17 DEF s, x, e, g, L
-----------------------------------------------------------------------------
(* The new half is hung into the parent.                                   *)

\* The parent p takes the separator x and the last node of s as a child.
Hang(s, p, x, v) ==
  [i \in 1..Len(s) |->
     IF i = p THEN insert_into_node(s[i], x, v, Len(s))
     ELSE IF i = Len(s) THEN [s[i] EXCEPT !.parent = p]
     ELSE s[i]]

\* What this does to each node; the separator goes to place c of p.
NodesHung(u, s, p, x, v, c) ==
  /\ u \in Seq(Node) /\ Len(u) = Len(s)
  /\ NodeInserted(u[p], s[p], c, x, v, Len(s))
  /\ \A i \in 1..Len(s) : i # p =>
       /\ SameEntries(u[i], s[i])
       /\ i # Len(s) => u[i].parent = s[i].parent
  /\ u[Len(s)].parent = p

\* The separator fits between those around the child that was cut.
LEMMA SlotFits ==
  ASSUME NEW s, NEW rt, NEW at, NEW d, NEW h, NEW x, NEW D, Parted(s, rt, at, d, h, x, D),
         at # rt, NEW c, Slot(s, d, h, at, x, D, c)
  PROVE  LET p == s[at].parent
         IN  /\ s[p] \in Node /\ p \in 1..(Len(s) - 1) /\ ~s[p].is_leaf
             /\ Len(s[p].children) = Len(s[p].keys) + 1 /\ Len(s[p].keys) \in Nat
             /\ Fits(s[p].keys, c, x) /\ x \in Keys /\ x \in Int /\ Len(s) \in Nat
  <1> DEFINE p == s[at].parent
             q == s[p].keys
  <1>1. /\ s \in Seq(Node) /\ x \in D /\ D \subseteq Keys
        /\ \A i \in 1..Len(s) : NodeShape(s[i], ORDER - 1)
    BY DEF Parted, NodesShape
  <1>2. /\ p \in 1..(Len(s) - 1) /\ ~s[p].is_leaf /\ c \in 1..Len(s[p].children)
        /\ \A k \in Keys : k \in D <=> (k \in d[p] /\ Between(s[p], c, k))
        /\ c > 1 => q[c - 1] < x
    BY DEF Slot
  <1>3. Len(s) \in Nat /\ p \in 1..Len(s) /\ x \in Keys /\ x \in Int
    BY <1>1, <1>2, IndexAssumption
  <1>4. s[p] \in Node /\ NodeShape(s[p], ORDER - 1)
    <2> HIDE DEF p, q
    <2> QED BY <1>1, <1>3
  <1>5. /\ q \in Seq(Int) /\ Len(s[p].children) = Len(q) + 1
        /\ \A a, b \in 1..Len(q) : a < b => q[a] < q[b]
    BY <1>2, <1>4, NodeFields DEF NodeShape, Sorted
  <1>6. c <= Len(q) => x < q[c]
    BY <1>1, <1>2, <1>3 DEF Between
  <1> HIDE DEF p, q
  <1>7. Len(q) \in Nat /\ c \in 1..(Len(q) + 1) /\ \A i \in 1..Len(q) : q[i] \in Int
    BY <1>2, <1>5
  <1>8. ASSUME NEW a \in 1..(c - 1) PROVE q[a] < x
    <2>1. a \in 1..Len(q) /\ c - 1 \in 1..Len(q) /\ c > 1 /\ (a = c - 1 \/ a < c - 1)
      BY <1>7
    <2>2. q[a] = q[c - 1] \/ q[a] < q[c - 1]
      BY <1>5, <2>1
    <2>3. q[c - 1] < x /\ q[a] \in Int /\ q[c - 1] \in Int
      BY <1>2, <1>7, <2>1
    <2> QED BY <1>3, <2>2, <2>3
  <1>9. ASSUME NEW a \in c..Len(q) PROVE x < q[a]
    <2>1. a \in 1..Len(q) /\ c \in 1..Len(q) /\ c <= Len(q) /\ (a = c \/ c < a)
      BY <1>7
    <2>2. q[c] = q[a] \/ q[c] < q[a]
      BY <1>5, <2>1
    <2>3. x < q[c] /\ q[a] \in Int /\ q[c] \in Int
      BY <1>6, <1>7, <2>1
    <2> QED BY <1>3, <2>2, <2>3
  <1>10. Fits(q, c, x)
    BY <1>7, <1>8, <1>9 DEF Fits
  <1> QED BY <1>2, <1>3, <1>4, <1>5, <1>7, <1>10 DEF p, q

\* The nodes after the new half is hung into the parent.
LEMMA HangNodes ==
  ASSUME NEW s, NEW rt, NEW at, NEW d, NEW h, NEW x, NEW D, Parted(s, rt, at, d, h, x, D),
         at # rt, NEW c, Slot(s, d, h, at, x, D, c), NEW v \in Nat
  PROVE  NodesHung(Hang(s, s[at].parent, x, v), s, s[at].parent, x, v, c)
  <1> DEFINE p == s[at].parent
             u == Hang(s, p, x, v)
             L == Len(s)
             q == insert_into_node(s[p], x, v, L)
             z == [s[L] EXCEPT !.parent = p]
  <1>1. /\ s[p] \in Node /\ p \in 1..(L - 1) /\ ~s[p].is_leaf
        /\ Len(s[p].children) = Len(s[p].keys) + 1
        /\ Fits(s[p].keys, c, x) /\ x \in Keys /\ x \in Int /\ L \in Nat
    BY SlotFits
  <1>2. s \in Seq(Node)
    BY DEF Parted
  <1>3. u = [i \in 1..L |-> IF i = p THEN insert_into_node(s[i], x, v, L)
                            ELSE IF i = L THEN [s[i] EXCEPT !.parent = p] ELSE s[i]]
    BY DEF Hang
  <1> HIDE DEF p, u
  <1>4. Position(s[p], x) = c
    BY <1>1, NodeFields, PositionIs
  <1>5. NodeInserted(q, s[p], c, x, v, L)
    <2>1. L \in Nat
      BY <1>1
    <2> HIDE DEF L
    <2> QED BY <1>1, <1>4, <2>1, InsertedNode
  <1>6. p \in 1..L /\ L \in 1..L /\ p # L /\ p \in Nat
    BY <1>1
  <1>7. z \in Node /\ SameEntries(z, s[L]) /\ z.parent = p
    BY <1>2, <1>6, ParentUpdate
  <1>8. u[p] = q /\ u[L] = z /\ \A i \in 1..L : i # p /\ i # L => u[i] = s[i]
    BY <1>3, <1>6
  <1> HIDE DEF q, z, L
  <1>9. \A i \in 1..L : u[i] \in Node
    <2>1. q \in Node
      BY <1>5 DEF NodeInserted
    <2> QED BY <1>2, <1>7, <1>8, <2>1 DEF L
  <1>10. u \in Seq(Node) /\ Len(u) = L
    <2>1. u = [i \in 1..L |-> u[i]]
      BY <1>3
    <2>2. [i \in 1..L |-> u[i]] \in Seq(Node) /\ Len([i \in 1..L |-> u[i]]) = L
      BY <1>1, <1>9
    <2> QED BY <2>1, <2>2
  <1>11. \A i \in 1..L : i # p => SameEntries(u[i], s[i]) /\ (i # L => u[i].parent = s[i].parent)
    BY <1>7, <1>8 DEF SameEntries
  <1> QED BY <1>5, <1>7, <1>8, <1>10, <1>11 DEF NodesHung, u, p, L

\* The children of p after the new half is hung into it.
LEMMA HangChildren ==
  ASSUME NEW s, NEW rt, NEW at, NEW d, NEW h, NEW x, NEW D, Parted(s, rt, at, d, h, x, D),
         at # rt, NEW c, Slot(s, d, h, at, x, D, c), NEW v, NEW u,
         NodesHung(u, s, s[at].parent, x, v, c), NEW b \in 1..Len(u[s[at].parent].children)
  PROVE  ChildShape(u, d, h, s[at].parent, b)
  <1> DEFINE p == s[at].parent
             L == Len(s)
             j == u[p].children[b]
  <1>1. /\ s[p] \in Node /\ p \in 1..(L - 1) /\ ~s[p].is_leaf
        /\ Len(s[p].children) = Len(s[p].keys) + 1
        /\ Fits(s[p].keys, c, x) /\ x \in Keys /\ x \in Int /\ L \in Nat
    BY SlotFits
  <1>2. /\ Len(u) = L /\ NodeInserted(u[p], s[p], c, x, v, L) /\ u[L].parent = p
        /\ \A i \in 1..L : i # p => SameEntries(u[i], s[i]) /\ (i # L => u[i].parent = s[i].parent)
    BY DEF NodesHung
  <1>3. /\ at \in 1..(L - 1) /\ h[L] = h[at]
        /\ \A k \in Keys : /\ k \in d[at] <=> (k \in D /\ k < x)
                           /\ k \in d[L] <=> (k \in D /\ x <= k)
        /\ \A y \in 1..Len(s[p].children) :
             /\ s[p].children[y] # L
             /\ s[p].children[y] # at => ChildShape(s, d, h, p, y)
    <2>1. p \in 1..L
      BY <1>1
    <2> QED BY <1>1, <2>1 DEF Parted
  <1>4. /\ p # at /\ c \in 1..Len(s[p].children) /\ s[p].children[c] = at /\ h[p] = h[at] + 1
        /\ \A k \in Keys : k \in D <=> (k \in d[p] /\ Between(s[p], c, k))
        /\ \A y \in 1..Len(s[p].children) : s[p].children[y] = at => y = c
    <2>1. p \in 1..L
      BY <1>1
    <2> QED BY <1>1, <2>1 DEF Slot
  <1>5. h[p] \in Nat /\ s \in Seq(Node) /\ \A i \in 1..L : h[i] \in Nat
    <2>1. h \in [1..L -> Nat] /\ s \in Seq(Node)
      BY DEF Parted
    <2>2. p \in 1..L
      BY <1>1
    <2> HIDE DEF p, L
    <2> QED BY <2>1, <2>2
  <1>6. \A k \in Keys :
         /\ b < c => /\ b \in 1..Len(s[p].children) /\ u[p].children[b] = s[p].children[b]
                     /\ Between(u[p], b, k) <=> Between(s[p], b, k)
         /\ b = c => /\ u[p].children[b] = s[p].children[c]
                     /\ Between(u[p], b, k) <=> (Between(s[p], c, k) /\ k < x)
         /\ b = c + 1 => /\ u[p].children[b] = L
                         /\ Between(u[p], b, k) <=> (Between(s[p], c, k) /\ x <= k)
         /\ b > c + 1 => /\ b - 1 \in 1..Len(s[p].children) /\ u[p].children[b] = s[p].children[b - 1]
                         /\ Between(u[p], b, k) <=> Between(s[p], b - 1, k)
    <2> SUFFICES ASSUME NEW k \in Keys PROVE ChildInserted(u[p], s[p], c, x, L, b, k)
      BY DEF ChildInserted
    <2>1. k \in Int /\ b \in 1..Len(u[p].children)
      BY IndexAssumption
    <2> HIDE DEF p, L
    <2> QED BY <1>1, <1>2, <2>1, BetweenInserted
  <1>7. x \in Keys
    BY <1>1
  <1> HIDE DEF p, L
  <1>8. b \in Int /\ c \in Int
    <2>1. u[p].children \in Seq(Nat) /\ s[p].children \in Seq(Nat)
      BY <1>1, <1>2, NodeFields DEF NodeInserted
    <2>2. b \in 1..Len(u[p].children)
      BY DEF p
    <2> QED BY <1>4, <2>1, <2>2
  <1>9. L \in 1..Len(u) /\ L \in 1..L /\ at \in 1..Len(u) /\ at \in 1..L /\ at # L /\ L # p
    BY <1>1, <1>2, <1>3
  <1>10. ASSUME NEW y \in 1..Len(s[p].children), y # c, j = s[p].children[y],
                \A k \in Keys : Between(u[p], b, k) <=> Between(s[p], y, k)
         PROVE  ChildShape(u, d, h, p, b)
    <2>1. j # at /\ j # L /\ ChildShape(s, d, h, p, y)
      BY <1>3, <1>4, <1>10
    <2>2. /\ j \in 1..L /\ s[j].parent = p /\ h[p] = h[j] + 1
          /\ \A k \in Keys : k \in d[j] <=> (k \in d[p] /\ Between(s[p], y, k))
      BY <1>10, <2>1 DEF ChildShape, L
    <2> HIDE DEF j
    <2>3. j # p
      BY <1>5, <2>2
    <2>4. u[j].parent = p /\ j \in 1..Len(u)
      BY <1>2, <2>1, <2>2, <2>3
    <2> QED BY <1>10, <2>2, <2>4 DEF ChildShape, j
  <1>11. CASE b < c
    <2>1. /\ b \in 1..Len(s[p].children) /\ j = s[p].children[b]
          /\ \A k \in Keys : Between(u[p], b, k) <=> Between(s[p], b, k)
      BY <1>6, <1>7, <1>11
    <2>2. b # c
      BY <1>8, <1>11
    <2>3. ChildShape(u, d, h, p, b)
      BY <1>10, <2>1, <2>2
    <2> QED BY <2>3 DEF p
  <1>12. CASE b > c + 1
    <2>1. /\ b - 1 \in 1..Len(s[p].children) /\ j = s[p].children[b - 1]
          /\ \A k \in Keys : Between(u[p], b, k) <=> Between(s[p], b - 1, k)
      BY <1>6, <1>7, <1>12
    <2>2. b - 1 # c
      BY <1>8, <1>12
    <2>3. ChildShape(u, d, h, p, b)
      BY <1>10, <2>1, <2>2
    <2> QED BY <2>3 DEF p
  <1>13. CASE b = c
    <2>1. j = at /\ \A k \in Keys : Between(u[p], b, k) <=> (Between(s[p], c, k) /\ k < x)
      BY <1>4, <1>6, <1>7, <1>13
    <2>2. u[at].parent = p
      BY <1>2, <1>4, <1>9 DEF p
    <2>3. \A k \in Keys : k \in d[at] <=> (k \in d[p] /\ Between(u[p], b, k))
      BY <1>3, <1>4, <2>1
    <2>4. ChildShape(u, d, h, p, b)
      BY <1>4, <1>9, <2>1, <2>2, <2>3 DEF ChildShape
    <2> QED BY <2>4 DEF p
  <1>14. CASE b = c + 1
    <2>1. j = L /\ \A k \in Keys : Between(u[p], b, k) <=> (Between(s[p], c, k) /\ x <= k)
      BY <1>6, <1>7, <1>14
    <2>2. \A k \in Keys : k \in d[L] <=> (k \in d[p] /\ Between(u[p], b, k))
      BY <1>3, <1>4, <2>1
    <2>3. ChildShape(u, d, h, p, b)
      BY <1>2, <1>3, <1>4, <1>9, <2>1, <2>2 DEF ChildShape
    <2> QED BY <2>3 DEF p
  <1> QED BY <1>8, <1>11, <1>12, <1>13, <1>14

\* The other nodes still hang under their parents.
LEMMA HangParents ==
  ASSUME NEW s, NEW rt, NEW at, NEW d, NEW h, NEW x, NEW D, Parted(s, rt, at, d, h, x, D),
         at # rt, NEW c, Slot(s, d, h, at, x, D, c), NEW v, NEW u,
         NodesHung(u, s, s[at].parent, x, v, c), NEW i \in 1..Len(s), i # rt
  PROVE  ParentShape(u, i)
  <1> DEFINE p == s[at].parent
             L == Len(s)
             q == s[i].parent
             n == s[p].children
             o == u[p].children
  <1>1. /\ s[p] \in Node /\ p \in 1..(L - 1) /\ ~s[p].is_leaf /\ L \in Nat
        /\ Len(s[p].children) = Len(s[p].keys) + 1 /\ Len(s[p].keys) \in Nat
        /\ c \in 1..(Len(s[p].keys) + 1)
    BY SlotFits DEF Fits
  <1>2. /\ Len(u) = L /\ NodeInserted(u[p], s[p], c, x, v, L) /\ u[L].parent = p
        /\ \A j \in 1..L : j # p => SameEntries(u[j], s[j]) /\ (j # L => u[j].parent = s[j].parent)
    BY DEF NodesHung
  <1>3. /\ u[p].parent = s[p].parent /\ ~u[p].is_leaf
        /\ Len(o) = Len(n) + 1 /\ o[c + 1] = L
        /\ \A j \in 1..((c + 1) - 1) : o[j] = n[j]
        /\ \A j \in ((c + 1) + 1)..(Len(n) + 1) : o[j] = n[j - 1]
    BY <1>1, <1>2 DEF NodeInserted, Inserted
  <1>4. Len(n) = Len(s[p].keys) + 1
    BY <1>1
  <1> HIDE DEF p, L, n, o
  <1>5. p \in 1..L /\ p # L
    BY <1>1
  <1>6. CASE i = L
    <2>1. c + 1 \in 1..Len(o)
      BY <1>1, <1>3, <1>4
    <2> QED BY <1>2, <1>3, <1>5, <1>6, <2>1 DEF ParentShape, o
  <1>7. CASE i # L
    <2>1. i \in 1..(Len(s) - 1)
      BY <1>1, <1>7 DEF L
    <2>2. ParentShape(s, i)
      BY <2>1 DEF Parted
    <2>3. q \in 1..L /\ ~s[q].is_leaf /\ \E b \in 1..Len(s[q].children) : s[q].children[b] = i
      BY <2>2 DEF ParentShape, L
    <2>4. PICK b \in 1..Len(s[q].children) : s[q].children[b] = i
      BY <2>3
    <2>5. u[i].parent = q
      BY <1>2, <1>3, <1>7 DEF L
    <2> HIDE DEF q
    <2>6. CASE q # p
      <3>1. u[q].is_leaf = s[q].is_leaf /\ u[q].children = s[q].children
        BY <1>2, <2>3, <2>6 DEF SameEntries
      <3> QED BY <1>2, <2>3, <2>5, <3>1 DEF ParentShape
    <2>7. CASE q = p
      <3>1. b \in 1..Len(n) /\ n[b] = i
        BY <2>4, <2>7 DEF n
      <3>2. CASE b <= c
        <4>1. b \in 1..((c + 1) - 1) /\ b \in 1..Len(o)
          BY <1>1, <1>3, <1>4, <3>1, <3>2
        <4>2. o[b] = i
          BY <1>3, <3>1, <4>1
        <4> QED BY <1>2, <1>3, <1>5, <2>5, <2>7, <4>1, <4>2 DEF ParentShape, o
      <3>3. CASE b > c
        <4>1. b + 1 \in ((c + 1) + 1)..(Len(n) + 1) /\ b + 1 \in 1..Len(o) /\ (b + 1) - 1 = b
          <5>1. c \in Nat /\ b \in 1..Len(n) /\ Len(n) \in Nat
            BY <1>1, <1>4, <3>1
          <5> QED BY <1>3, <3>3, <5>1
        <4>2. o[b + 1] = i
          BY <1>3, <3>1, <4>1
        <4> QED BY <1>2, <1>3, <1>5, <2>5, <2>7, <4>1, <4>2 DEF ParentShape, o
      <3>4. b <= c \/ b > c
        BY <1>1, <1>4, <3>1
      <3> QED BY <3>2, <3>3, <3>4
    <2> QED BY <2>6, <2>7
  <1> QED BY <1>6, <1>7

\* Hanging the new half into the parent makes a tree, in which the parent
\* may be over-full.
LEMMA HangTree ==
  ASSUME NEW s, NEW rt, NEW at, NEW d, NEW h, NEW x, NEW D, Parted(s, rt, at, d, h, x, D),
         at # rt, NEW v \in Nat, NEW over,
         over = s[at].parent \/ (over = NoNode /\ ~IsFull(s[s[at].parent]))
  PROVE  Tree(Hang(s, s[at].parent, x, v), rt, over, d, h)
  <1> DEFINE p == s[at].parent
             L == Len(s)
             u == Hang(s, p, x, v)
  <1>1. PICK c \in Nat : Slot(s, d, h, at, x, D, c)
    BY DEF Parted
  <1>2. NodesHung(u, s, p, x, v, c)
    BY <1>1, HangNodes
  <1>3. /\ s[p] \in Node /\ p \in 1..(L - 1) /\ ~s[p].is_leaf /\ L \in Nat
        /\ Fits(s[p].keys, c, x) /\ x \in Keys
    BY <1>1, SlotFits
  <1>4. /\ s \in Seq(Node) /\ d \in [1..L -> SUBSET Keys] /\ h \in [1..L -> Nat]
        /\ rt \in 1..(L - 1) /\ s[rt].parent = NoNode /\ h[rt] < L - 1 /\ d[rt] = Keys /\ x \in D
        /\ \A i \in 1..L : ~s[i].is_leaf => \A b \in 1..Len(s[i].children) :
             s[i].children[b] # L /\ (s[i].children[b] # at => ChildShape(s, d, h, i, b))
    BY DEF Parted
  <1>5. /\ \A i \in 1..L : NodeShape(s[i], ORDER - 1)
        /\ \A i \in 1..L : \A a \in 1..Len(s[i].keys) : s[i].keys[a] \in d[i]
        /\ \A i \in 1..L : s[i].is_leaf <=> h[i] = 0
        /\ \A i \in 1..L : h[i] <= h[rt]
        /\ \A i, j \in 1..L : i # j /\ h[i] = h[j] => \A k \in Keys : ~(k \in d[i] /\ k \in d[j])
    BY DEF Parted, NodesShape
  <1>6. /\ \A k \in Keys : k \in D <=> (k \in d[p] /\ Between(s[p], c, k))
        /\ \A i \in 1..L : ~s[i].is_leaf => \A b \in 1..Len(s[i].children) : s[i].children[b] = at => i = p
    BY <1>1 DEF Slot
  <1>7. /\ u \in Seq(Node) /\ Len(u) = L /\ NodeInserted(u[p], s[p], c, x, v, L) /\ u[L].parent = p
        /\ \A j \in 1..L : j # p => SameEntries(u[j], s[j]) /\ (j # L => u[j].parent = s[j].parent)
    BY <1>2 DEF NodesHung
  <1>8. ASSUME NEW i \in 1..L, i # rt PROVE ParentShape(u, i)
    <2> HIDE DEF u
    <2> QED BY <1>1, <1>2, <1>8, HangParents
  <1>9. \A b \in 1..Len(u[p].children) : ChildShape(u, d, h, p, b)
    BY <1>1, <1>2, HangChildren
  <1>10. over = p \/ (over = NoNode /\ Len(s[p].keys) # ORDER - 1)
    BY DEF IsFull, num_keys
  <1> HIDE DEF p, L, u
  <1>11. p \in 1..L /\ p # L /\ rt \in 1..L /\ rt # L /\ h[rt] < L
    BY <1>3, <1>4
  <1>12. u[p].parent = s[p].parent /\ u[p].is_leaf = s[p].is_leaf
    BY <1>7 DEF NodeInserted
  <1>13. \A i \in 1..L : u[i].is_leaf = s[i].is_leaf
    BY <1>7, <1>12 DEF SameEntries
  <1>14. \A i \in 1..L : i # L => u[i].parent = s[i].parent
    BY <1>7, <1>12
  <1>15. \A i \in 1..L : i # p => u[i].keys = s[i].keys /\ u[i].children = s[i].children
    BY <1>7 DEF SameEntries
  <1>16. ASSUME NEW i \in 1..L PROVE NodeShape(u[i], IF i = over THEN ORDER ELSE ORDER - 1)
    <2>0. ORDER \in Nat /\ ORDER - 1 \in Nat /\ ORDER - 2 \in Nat
          /\ (ORDER - 1) + 1 = ORDER /\ (ORDER - 2) + 1 = ORDER - 1
      BY IndexAssumption
    <2>1. CASE i # p
      <3>1. NodeShape(s[i], ORDER - 1) /\ SameEntries(u[i], s[i])
        BY <1>5, <1>7, <2>1
      <3>2. NodeShape(u[i], ORDER - 1)
        BY <3>1 DEF NodeShape, SameEntries
      <3>3. NoNode \notin 1..L
        BY <1>3 DEF NoNode
      <3>4. i # over
        BY <1>10, <2>1, <3>3
      <3> QED BY <3>2, <3>4
    <2>2. CASE i = p /\ over = p
      <3>1. NodeShape(s[p], ORDER - 1)
        BY <1>5, <1>11
      <3>2. NodeShape(u[p], (ORDER - 1) + 1)
        BY <1>3, <1>7, <2>0, <3>1, InsertedShape
      <3> QED BY <2>0, <2>2, <3>2
    <2>3. CASE i = p /\ over = NoNode /\ Len(s[p].keys) # ORDER - 1
      <3>1. NodeShape(s[p], ORDER - 1)
        BY <1>5, <1>11
      <3>2. Len(s[p].keys) \in 1..(ORDER - 2)
        <4>1. Len(s[p].keys) \in 1..(ORDER - 1)
          BY <3>1 DEF NodeShape
        <4> QED BY <2>0, <2>3, <4>1
      <3>3. NodeShape(s[p], ORDER - 2)
        BY <3>1, <3>2 DEF NodeShape
      <3>4. NodeShape(u[p], (ORDER - 2) + 1)
        BY <1>3, <1>7, <2>0, <3>3, InsertedShape
      <3>5. p # NoNode
        BY <1>3 DEF NoNode
      <3> QED BY <2>0, <2>3, <3>4, <3>5
    <2> QED BY <1>10, <2>1, <2>2, <2>3
  <1>17. ASSUME NEW i \in 1..L, NEW a \in 1..Len(u[i].keys) PROVE u[i].keys[a] \in d[i]
    <2>1. CASE i # p
      BY <1>5, <1>15, <1>17, <2>1
    <2>2. CASE i = p
      <3> DEFINE ks == s[p].keys
                 us == u[p].keys
      <3>1. /\ Len(us) = Len(ks) + 1 /\ us[c] = x
            /\ \A j \in 1..(c - 1) : us[j] = ks[j]
            /\ \A j \in (c + 1)..(Len(ks) + 1) : us[j] = ks[j - 1]
        BY <1>7 DEF NodeInserted, Inserted
      <3>2. c \in 1..(Len(ks) + 1)
        BY <1>3 DEF Fits
      <3>3. x \in d[p]
        BY <1>3, <1>4, <1>6
      <3>4. \A y \in 1..Len(ks) : ks[y] \in d[p]
        BY <1>5, <1>11
      <3>5. Len(ks) \in Nat
        BY <1>3, NodeFields
      <3>6. a \in 1..Len(us)
        BY <2>2
      <3> HIDE DEF ks, us
      <3>7. CASE a < c
        <4>1. a \in 1..(c - 1) /\ a \in 1..Len(ks)
          BY <3>1, <3>2, <3>5, <3>6, <3>7
        <4>2. us[a] \in d[p]
          BY <3>1, <3>4, <4>1
        <4> QED BY <2>2, <4>2 DEF us
      <3>8. CASE a = c
        BY <2>2, <3>1, <3>3, <3>8 DEF us
      <3>9. CASE a > c
        <4>1. a \in (c + 1)..(Len(ks) + 1) /\ a - 1 \in 1..Len(ks)
          BY <3>1, <3>2, <3>5, <3>6, <3>9
        <4>2. us[a] \in d[p]
          BY <3>1, <3>4, <4>1
        <4> QED BY <2>2, <4>2 DEF us
      <3>10. a < c \/ a = c \/ a > c
        BY <3>1, <3>2, <3>5, <3>6
      <3> QED BY <3>7, <3>8, <3>9, <3>10
    <2> QED BY <2>1, <2>2
  <1>18. ASSUME NEW i \in 1..L, ~u[i].is_leaf, NEW b \in 1..Len(u[i].children)
         PROVE  ChildShape(u, d, h, i, b)
    <2>1. CASE i = p
      BY <1>9, <1>18, <2>1
    <2>2. CASE i # p
      <3> DEFINE j == s[i].children[b]
      <3>1. ~s[i].is_leaf /\ b \in 1..Len(s[i].children) /\ u[i].children[b] = j
        BY <1>13, <1>15, <1>18, <2>2
      <3>2. j # L /\ j # at /\ ChildShape(s, d, h, i, b)
        BY <1>4, <1>6, <2>2, <3>1
      <3>3. /\ j \in 1..L /\ s[j].parent = i /\ h[i] = h[j] + 1
            /\ \A k \in Keys : k \in d[j] <=> (k \in d[i] /\ Between(s[i], b, k))
        BY <3>2 DEF ChildShape, L
      <3> HIDE DEF j
      <3>4. u[j].parent = i /\ j \in 1..Len(u)
        BY <1>7, <1>14, <3>2, <3>3
      <3>5. \A k : Between(u[i], b, k) <=> Between(s[i], b, k)
        BY <1>15, <2>2 DEF Between
      <3> QED BY <3>1, <3>3, <3>4, <3>5 DEF ChildShape
    <2> QED BY <2>1, <2>2
  <1>19. u[rt].parent = NoNode
    BY <1>4, <1>11, <1>14
  <1>20. \A i \in 1..L : u[i].is_leaf <=> h[i] = 0
    BY <1>5, <1>13
  <1>21. Tree(u, rt, over, d, h)
    BY <1>4, <1>5, <1>7, <1>8, <1>11, <1>16, <1>17, <1>18, <1>19, <1>20 DEF Tree
  <1> QED BY <1>21 DEF u, p

\* A new root over the two halves of the old one.
RootOver(at, new, x) ==
  [parent |-> NoNode, is_leaf |-> FALSE, keys |-> <<x>>, values |-> << >>, children |-> <<at, new>>]

Grow(s, at, x) ==
  [i \in 1..(Len(s) + 1) |->
     IF i = Len(s) + 1 THEN RootOver(at, Len(s), x)
     ELSE IF i = at \/ i = Len(s) THEN [s[i] EXCEPT !.parent = Len(s) + 1]
     ELSE s[i]]

GrowKeys(d, n) == [i \in 1..(n + 1) |-> IF i = n + 1 THEN Keys ELSE d[i]]

GrowHeights(h, at, n) == [i \in 1..(n + 1) |-> IF i = n + 1 THEN h[at] + 1 ELSE h[i]]

\* What a new root does to each node.
NodesGrown(u, s, at, x) ==
  /\ u \in Seq(Node) /\ Len(u) = Len(s) + 1
  /\ u[Len(s) + 1] = RootOver(at, Len(s), x)
  /\ \A i \in 1..Len(s) :
       /\ SameEntries(u[i], s[i])
       /\ i = at \/ i = Len(s) => u[i].parent = Len(s) + 1
       /\ i # at /\ i # Len(s) => u[i].parent = s[i].parent

\* The fields of the new root o.
RootMade(o, at, new, x) ==
  /\ o \in Node
  /\ NodeShape(o, ORDER - 1)
  /\ o.keys[1] = x /\ Len(o.keys) = 1
  /\ o.children[1] = at /\ o.children[2] = new /\ Len(o.children) = 2
  /\ o.is_leaf = FALSE /\ o.parent = NoNode

\* A root over two nodes is a node.
LEMMA RootNode ==
  ASSUME NEW at \in Nat, NEW new \in Nat, NEW x \in Keys
  PROVE  RootMade(RootOver(at, new, x), at, new, x)
  <1> DEFINE n == RootOver(at, new, x)
             ks == <<x>>
             cs == <<at, new>>
             vs == << >>
             K == Seq(Keys)
             V == Seq(Nat)
  <1>1. n = [parent |-> NoNode, is_leaf |-> FALSE, keys |-> ks, values |-> vs, children |-> cs]
    BY DEF RootOver
  <1>2. ks \in Seq(Keys) /\ Len(ks) = 1 /\ ks[1] = x
    OBVIOUS
  <1>3. cs \in Seq(Nat) /\ Len(cs) = 2 /\ cs[1] = at /\ cs[2] = new
    OBVIOUS
  <1>4. vs \in Seq(Nat) /\ NoNode \in Nat
    BY DEF NoNode
  <1>5. Node = [parent : Nat, is_leaf : BOOLEAN, keys : K, values : V, children : V]
    BY DEF Node
  <1>6. ks \in K /\ cs \in V /\ vs \in V
    BY <1>2, <1>3, <1>4
  <1> HIDE DEF n, ks, cs, vs, K, V
  <1>7. n \in Node
    BY <1>1, <1>4, <1>5, <1>6
  <1>8. /\ n.parent = NoNode /\ n.is_leaf = FALSE /\ n.keys = ks /\ n.children = cs
    BY <1>1
  <1>9. Sorted(ks)
    BY <1>2 DEF Sorted
  <1>10. 1 \in 1..(ORDER - 1)
    BY IndexAssumption
  <1>11. NodeShape(n, ORDER - 1)
    <2>1. Len(n.keys) \in 1..(ORDER - 1) /\ Sorted(n.keys)
      BY <1>2, <1>8, <1>9, <1>10
    <2>2. Len(cs) = Len(ks) + 1
      BY <1>2, <1>3
    <2>3. ~n.is_leaf
      BY <1>8
    <2>4. Len(n.children) = Len(n.keys) + 1
      BY <1>8, <2>2
    <2> QED BY <2>1, <2>3, <2>4 DEF NodeShape
  <1> QED BY <1>2, <1>3, <1>7, <1>8, <1>11 DEF n, RootMade

\* The nodes under a new root.
LEMMA GrowNodes ==
  ASSUME NEW s \in Seq(Node), NEW at \in 1..(Len(s) - 1), NEW x \in Keys
  PROVE  NodesGrown(Grow(s, at, x), s, at, x)
  <1> DEFINE L == Len(s)
             u == Grow(s, at, x)
             e(i) == [s[i] EXCEPT !.parent = L + 1]
             o == RootOver(at, L, x)
  <1>1. L \in Nat /\ (\A i \in 1..L : s[i] \in Node) /\ at \in 1..(L - 1)
    OBVIOUS
  <1>2. u = [i \in 1..(L + 1) |-> IF i = L + 1 THEN o ELSE IF i = at \/ i = L THEN e(i) ELSE s[i]]
    BY DEF Grow
  <1> HIDE DEF L, u, o
  <1>3. L + 1 \in Nat /\ at \in Nat
    BY <1>1
  <1>4. \A i \in 1..L : e(i) \in Node /\ SameEntries(e(i), s[i]) /\ e(i).parent = L + 1
    BY <1>1, <1>3, ParentUpdate
  <1>5. o \in Node
    BY <1>1, <1>3, RootNode DEF o, RootMade
  <1> HIDE DEF e
  <1>6. \A i \in 1..L : i \in 1..(L + 1) /\ i # L + 1
    BY <1>1
  <1>7. L + 1 \in 1..(L + 1) /\ \A i \in 1..(L + 1) : i = L + 1 \/ i \in 1..L
    BY <1>1
  <1>8. /\ u[L + 1] = o
        /\ \A i \in 1..L : (i = at \/ i = L => u[i] = e(i)) /\ (i # at /\ i # L => u[i] = s[i])
    BY <1>2, <1>6, <1>7
  <1>9. \A i \in 1..(L + 1) : u[i] \in Node
    BY <1>1, <1>4, <1>5, <1>7, <1>8
  <1>10. u \in Seq(Node) /\ Len(u) = L + 1
    <2>1. u = [i \in 1..(L + 1) |-> u[i]]
      BY <1>2
    <2>2. [i \in 1..(L + 1) |-> u[i]] \in Seq(Node) /\ Len([i \in 1..(L + 1) |-> u[i]]) = L + 1
      BY <1>3, <1>9
    <2> QED BY <2>1, <2>2
  <1>11. \A i \in 1..L : SameEntries(u[i], s[i])
    BY <1>4, <1>8 DEF SameEntries
  <1>12. \A i \in 1..L : i = at \/ i = L => u[i].parent = L + 1
    BY <1>4, <1>8
  <1>13. \A i \in 1..L : i # at /\ i # L => u[i].parent = s[i].parent
    BY <1>8
  <1> QED BY <1>8, <1>10, <1>11, <1>12, <1>13 DEF NodesGrown, L, u, o

\* A new root over the halves of the old one makes a tree.
LEMMA GrowTree ==
  ASSUME NEW s, NEW rt, NEW at, NEW d, NEW h, NEW x, NEW D, Parted(s, rt, at, d, h, x, D), at = rt
  PROVE  Tree(Grow(s, at, x), Len(s) + 1, NoNode, GrowKeys(d, Len(s)), GrowHeights(h, at, Len(s)))
  <1> DEFINE L == Len(s)
             u == Grow(s, at, x)
             e == GrowKeys(d, L)
             g == GrowHeights(h, at, L)
             o == u[L + 1]
  <1>1. /\ s \in Seq(Node) /\ d \in [1..L -> SUBSET Keys] /\ h \in [1..L -> Nat]
        /\ at \in 1..(L - 1) /\ h[at] < L - 1 /\ x \in Keys /\ h[L] = h[at]
        /\ \A k \in Keys : (k \in d[at] <=> k < x) /\ (k \in d[L] <=> x <= k)
        /\ \A i \in 1..L : ~s[i].is_leaf => \A b \in 1..Len(s[i].children) :
             s[i].children[b] # L /\ s[i].children[b] # at /\ ChildShape(s, d, h, i, b)
    <2>1. /\ D = Keys /\ s \in Seq(Node) /\ d \in [1..L -> SUBSET Keys] /\ h \in [1..L -> Nat]
          /\ at \in 1..(L - 1) /\ h[rt] < L - 1 /\ x \in D /\ h[L] = h[at]
          /\ \A k \in Keys : (k \in d[at] <=> (k \in D /\ k < x)) /\ (k \in d[L] <=> (k \in D /\ x <= k))
      BY DEF Parted
    <2>2. \A i \in 1..L : ~s[i].is_leaf => \A b \in 1..Len(s[i].children) :
            s[i].children[b] # L /\ s[i].children[b] # at /\ ChildShape(s, d, h, i, b)
      BY DEF Parted
    <2> QED BY <2>1, <2>2
  <1>2. /\ \A i \in 1..L : NodeShape(s[i], ORDER - 1)
        /\ \A i \in 1..L : \A a \in 1..Len(s[i].keys) : s[i].keys[a] \in d[i]
        /\ \A i \in 1..L : s[i].is_leaf <=> h[i] = 0
        /\ \A i \in 1..L : h[i] <= h[at]
        /\ \A i, j \in 1..L : i # j /\ h[i] = h[j] => \A k \in Keys : ~(k \in d[i] /\ k \in d[j])
    BY DEF Parted, NodesShape
  <1>3. \A i \in 1..(L - 1) : i # at => ParentShape(s, i)
    BY DEF Parted
  <1>4. /\ u \in Seq(Node) /\ Len(u) = L + 1 /\ o = RootOver(at, L, x)
        /\ \A i \in 1..L : /\ SameEntries(u[i], s[i])
                           /\ i = at \/ i = L => u[i].parent = L + 1
                           /\ i # at /\ i # L => u[i].parent = s[i].parent
    <2>1. NodesGrown(u, s, at, x)
      BY <1>1, GrowNodes
    <2> QED BY <2>1 DEF NodesGrown
  <1>5. L \in Nat /\ at \in Nat /\ at \in 1..L /\ L \in 1..L /\ at # L
    BY <1>1
  <1>6. /\ NodeShape(o, ORDER - 1) /\ o.keys[1] = x /\ Len(o.keys) = 1
        /\ o.children[1] = at /\ o.children[2] = L /\ Len(o.children) = 2
        /\ o.is_leaf = FALSE /\ o.parent = NoNode
    <2>1. L \in Nat /\ at \in Nat /\ x \in Keys
      BY <1>1, <1>5
    <2> HIDE DEF L
    <2>2. RootMade(RootOver(at, L, x), at, L, x)
      BY <2>1, RootNode
    <2>3. RootMade(o, at, L, x)
      BY <1>4, <2>2
    <2> HIDE DEF o
    <2> QED BY <2>3 DEF RootMade
  <1>7. /\ e = [i \in 1..(L + 1) |-> IF i = L + 1 THEN Keys ELSE d[i]]
        /\ g = [i \in 1..(L + 1) |-> IF i = L + 1 THEN h[at] + 1 ELSE h[i]]
    BY DEF GrowKeys, GrowHeights
  <1> HIDE DEF L, u, e, g
  <1>8. L + 1 \in 1..(L + 1) /\ \A i \in 1..(L + 1) : i = L + 1 \/ i \in 1..L
    BY <1>5
  <1>9. \A i \in 1..L : i \in 1..(L + 1) /\ i # L + 1
    BY <1>5
  <1>10. e \in [1..(L + 1) -> SUBSET Keys] /\ e[L + 1] = Keys /\ \A i \in 1..L : e[i] = d[i]
    BY <1>1, <1>7, <1>8, <1>9
  <1>11. g \in [1..(L + 1) -> Nat] /\ g[L + 1] = h[at] + 1 /\ \A i \in 1..L : g[i] = h[i]
    <2>1. g[L + 1] = h[at] + 1 /\ \A i \in 1..L : g[i] = h[i]
      BY <1>7, <1>8, <1>9
    <2>2. h[at] \in Nat /\ \A i \in 1..L : h[i] \in Nat
      BY <1>1, <1>5
    <2>3. g[L + 1] \in Nat /\ \A i \in 1..L : g[i] \in Nat
      BY <2>1, <2>2
    <2>4. \A i \in 1..(L + 1) : g[i] \in Nat
      BY <1>8, <2>3
    <2> QED BY <1>7, <2>1, <2>4
  <1>12. h[at] \in Nat /\ \A i \in 1..L : h[i] \in Nat
    BY <1>1, <1>5
  <1>13. \A i \in 1..L : /\ u[i].keys = s[i].keys /\ u[i].is_leaf = s[i].is_leaf
                         /\ u[i].children = s[i].children
    BY <1>4 DEF SameEntries
  <1>14. NoNode \notin 1..(L + 1)
    BY <1>5 DEF NoNode
  <1>15. ASSUME NEW i \in 1..(L + 1)
         PROVE  /\ NodeShape(u[i], IF i = NoNode THEN ORDER ELSE ORDER - 1)
                /\ \A a \in 1..Len(u[i].keys) : u[i].keys[a] \in e[i]
                /\ u[i].is_leaf <=> g[i] = 0
                /\ g[i] <= g[L + 1]
    <2>1. CASE i = L + 1
      <3>1. \A a \in 1..Len(o.keys) : o.keys[a] \in e[L + 1]
        BY <1>1, <1>6, <1>10
      <3>2. o.is_leaf <=> g[L + 1] = 0
        BY <1>6, <1>11, <1>12
      <3>3. g[L + 1] <= g[L + 1]
        BY <1>11, <1>12
      <3>4. NodeShape(o, IF i = NoNode THEN ORDER ELSE ORDER - 1)
        BY <1>6, <1>14
      <3> QED BY <2>1, <3>1, <3>2, <3>3, <3>4
    <2>2. CASE i \in 1..L
      <3>1. NodeShape(s[i], ORDER - 1) /\ SameEntries(u[i], s[i])
        BY <1>2, <1>4, <2>2
      <3>2. NodeShape(u[i], ORDER - 1)
        BY <3>1 DEF NodeShape, SameEntries
      <3>3. NodeShape(u[i], IF i = NoNode THEN ORDER ELSE ORDER - 1)
        BY <1>14, <3>2
      <3>4. \A a \in 1..Len(u[i].keys) : u[i].keys[a] \in e[i]
        BY <1>2, <1>10, <1>13, <2>2
      <3>5. u[i].is_leaf <=> g[i] = 0
        BY <1>2, <1>11, <1>13, <2>2
      <3>6. g[i] <= g[L + 1]
        BY <1>2, <1>11, <1>12, <2>2
      <3> QED BY <3>3, <3>4, <3>5, <3>6
    <2> QED BY <1>8, <2>1, <2>2
  <1>16. ASSUME NEW i \in 1..(L + 1), i # L + 1 PROVE ParentShape(u, i)
    <2>1. CASE i = at
      <3>1. u[i].parent = L + 1 /\ 1 \in 1..Len(o.children) /\ o.children[1] = i /\ L + 1 \in 1..Len(u)
        BY <1>4, <1>5, <1>6, <1>8, <2>1
      <3> QED BY <1>6, <3>1 DEF ParentShape
    <2>2. CASE i = L
      <3>1. u[i].parent = L + 1 /\ 2 \in 1..Len(o.children) /\ o.children[2] = i /\ L + 1 \in 1..Len(u)
        BY <1>4, <1>5, <1>6, <1>8, <2>2
      <3> QED BY <1>6, <3>1 DEF ParentShape
    <2>3. CASE i # at /\ i # L
      <3>1. i \in 1..(L - 1) /\ i \in 1..L
        BY <1>5, <1>8, <1>16, <2>3
      <3>2. ParentShape(s, i)
        BY <1>3, <2>3, <3>1
      <3> DEFINE q == s[i].parent
      <3>3. q \in 1..L /\ ~s[q].is_leaf /\ \E b \in 1..Len(s[q].children) : s[q].children[b] = i
        BY <3>2 DEF ParentShape, L
      <3>4. u[i].parent = q
        BY <1>4, <2>3, <3>1
      <3> HIDE DEF q
      <3>5. q \in 1..Len(u) /\ u[q].is_leaf = s[q].is_leaf /\ u[q].children = s[q].children
        BY <1>4, <1>9, <1>13, <3>3
      <3> QED BY <3>3, <3>4, <3>5 DEF ParentShape
    <2> QED BY <2>1, <2>2, <2>3
  <1>17. ASSUME NEW i \in 1..(L + 1), ~u[i].is_leaf, NEW b \in 1..Len(u[i].children)
         PROVE  ChildShape(u, e, g, i, b)
    <2>1. CASE i = L + 1
      <3>1. b = 1 \/ b = 2
        <4>1. Len(u[i].children) = 2
          BY <1>6, <2>1
        <4>2. b \in 1..2
          BY <1>17, <4>1
        <4> QED BY <4>2
      <3>2. at \in 1..Len(u) /\ L \in 1..Len(u)
        BY <1>4, <1>5, <1>9
      <3>3. \A k \in Keys : (Between(o, 1, k) <=> k < x) /\ (Between(o, 2, k) <=> x <= k)
        <4>1. ~(1 > 1) /\ 1 <= Len(o.keys) /\ 2 > 1 /\ 2 - 1 = 1 /\ ~(2 <= Len(o.keys))
          BY <1>6
        <4> QED BY <1>6, <4>1 DEF Between
      <3>4. u[at].parent = L + 1 /\ u[L].parent = L + 1
        BY <1>4, <1>5
      <3>5. g[L + 1] = g[at] + 1 /\ g[L + 1] = g[L] + 1
        BY <1>1, <1>5, <1>11
      <3>6. \A k \in Keys : /\ k \in e[at] <=> (k \in e[L + 1] /\ Between(o, 1, k))
                            /\ k \in e[L] <=> (k \in e[L + 1] /\ Between(o, 2, k))
        BY <1>1, <1>5, <1>10, <3>3
      <3>7. CASE b = 1
        BY <1>6, <2>1, <3>2, <3>4, <3>5, <3>6, <3>7 DEF ChildShape
      <3>8. CASE b = 2
        BY <1>6, <2>1, <3>2, <3>4, <3>5, <3>6, <3>8 DEF ChildShape
      <3> QED BY <3>1, <3>7, <3>8
    <2>2. CASE i \in 1..L
      <3> DEFINE j == s[i].children[b]
      <3>1. ~s[i].is_leaf /\ b \in 1..Len(s[i].children) /\ u[i].children[b] = j
        BY <1>13, <1>17, <2>2
      <3>2. j # L /\ j # at /\ ChildShape(s, d, h, i, b)
        BY <1>1, <2>2, <3>1
      <3>3. /\ j \in 1..L /\ s[j].parent = i /\ h[i] = h[j] + 1
            /\ \A k \in Keys : k \in d[j] <=> (k \in d[i] /\ Between(s[i], b, k))
        BY <3>2 DEF ChildShape, L
      <3> HIDE DEF j
      <3>4. u[j].parent = i /\ j \in 1..Len(u)
        BY <1>4, <1>9, <3>2, <3>3
      <3>5. \A k : Between(u[i], b, k) <=> Between(s[i], b, k)
        BY <1>13, <2>2 DEF Between
      <3>6. g[i] = g[j] + 1 /\ e[i] = d[i] /\ e[j] = d[j]
        BY <1>10, <1>11, <2>2, <3>3
      <3> QED BY <3>1, <3>3, <3>4, <3>5, <3>6 DEF ChildShape
    <2> QED BY <1>8, <2>1, <2>2
  <1>18. ASSUME NEW i \in 1..(L + 1), NEW j \in 1..(L + 1), i # j, g[i] = g[j]
         PROVE  \A k \in Keys : ~(k \in e[i] /\ k \in e[j])
    <2>1. \A y \in 1..L : g[y] # g[L + 1]
      BY <1>2, <1>11, <1>12
    <2>2. i \in 1..L /\ j \in 1..L
      BY <1>8, <1>18, <2>1
    <2> QED BY <1>2, <1>10, <1>11, <1>18, <2>2
  <1>19. g[L + 1] < L + 1
    BY <1>1, <1>5, <1>11, <1>12
  <1>20. Tree(u, L + 1, NoNode, e, g)
    BY <1>4, <1>6, <1>8, <1>10, <1>11, <1>15, <1>16, <1>17, <1>18, <1>19 DEF Tree
  <1> QED BY <1>20 DEF u, e, g, L
-----------------------------------------------------------------------------
(* The keys that are in the tree.                                          *)

\* us is ks with k put in at place p, and ws is vs with v put in there.
BothInserted(us, ws, ks, vs, n, p, k, v) ==
  /\ n \in Nat /\ Len(ks) = n /\ Len(vs) = n /\ p \in 1..(n + 1)
  /\ Inserted(us, ks, p, k) /\ Inserted(ws, vs, p, v)

\* The entries us and ws of two sequences of length n + 1 are k and v, and
\* those of ks and vs.
PairsInserted(us, ws, ks, vs, n, p, k, v) ==
  /\ Len(us) = n + 1 /\ us[p] = k
  /\ \A a \in 1..(n + 1) : \/ us[a] = k /\ ws[a] = v
                           \/ \E b \in 1..n : us[a] = ks[b] /\ ws[a] = vs[b]
  /\ \A b \in 1..n : \E a \in 1..(n + 1) : us[a] = ks[b]

\* The keys and values of a node after an insertion into both.
LEMMA InsertedPairs ==
  ASSUME NEW ks, NEW vs, NEW n, NEW p, NEW k, NEW v, NEW us, NEW ws,
         BothInserted(us, ws, ks, vs, n, p, k, v)
  PROVE  PairsInserted(us, ws, ks, vs, n, p, k, v)
  <1> USE DEF BothInserted
  <1>1. /\ Len(us) = n + 1 /\ us[p] = k /\ ws[p] = v
        /\ \A j \in 1..(p - 1) : us[j] = ks[j] /\ ws[j] = vs[j]
        /\ \A j \in (p + 1)..(n + 1) : us[j] = ks[j - 1] /\ ws[j] = vs[j - 1]
    BY DEF Inserted
  <1>2. ASSUME NEW a \in 1..(n + 1)
        PROVE  \/ us[a] = k /\ ws[a] = v
               \/ \E b \in 1..n : us[a] = ks[b] /\ ws[a] = vs[b]
    <2>1. CASE a < p
      <3>1. a \in 1..(p - 1) /\ a \in 1..n
        BY <2>1
      <3> QED BY <1>1, <3>1
    <2>2. CASE a = p
      BY <1>1, <2>2
    <2>3. CASE a > p
      <3>1. a \in (p + 1)..(n + 1) /\ a - 1 \in 1..n
        BY <2>3
      <3> QED BY <1>1, <3>1
    <2> QED BY <2>1, <2>2, <2>3
  <1>3. ASSUME NEW b \in 1..n PROVE \E a \in 1..(n + 1) : us[a] = ks[b]
    <2>1. CASE b < p
      <3>1. b \in 1..(p - 1) /\ b \in 1..(n + 1)
        BY <2>1
      <3> QED BY <1>1, <3>1
    <2>2. CASE b >= p
      <3>1. b + 1 \in (p + 1)..(n + 1) /\ b + 1 \in 1..(n + 1) /\ (b + 1) - 1 = b
        BY <2>2
      <3>2. us[b + 1] = ks[(b + 1) - 1]
        BY <1>1, <3>1
      <3> QED BY <3>1, <3>2
    <2> QED BY <2>1, <2>2
  <1> QED BY <1>1, <1>2, <1>3 DEF PairsInserted

\* The halves hold the keys of the node that was cut.
LEMMA CutContents ==
  ASSUME NEW t, NEW rt, NEW at, NEW d, NEW h, NEW l, NEW r, NEW m,
         Cuttable(t, rt, at, d, h, l, r, m), NEW K, NEW list, Contents(t, K, list)
  PROVE  Contents(Cut(t, at, l, r), K, list) /\ t[at].keys[m + 1] \in K
  <1> DEFINE s == Cut(t, at, l, r)
             L == Len(t)
             w == t[at]
  <1>1. /\ w \in Node /\ NodeShape(w, ORDER) /\ l \in Node /\ r \in Node
        /\ w.is_leaf \in BOOLEAN /\ l.is_leaf = w.is_leaf /\ r.is_leaf = w.is_leaf
    BY Moved
  <1>2. /\ t \in Seq(Node) /\ at \in 1..L /\ Len(w.keys) = ORDER /\ m \in 1..(ORDER - 2)
        /\ NodeSplit(l, r, w, m)
    BY DEF Cuttable, Tree
  <1>3. /\ Len(s) = L + 1 /\ s[at] = l /\ s[L + 1] = r
        /\ \A i \in 1..L : i # at => SameEntries(s[i], t[i])
    BY <1>1, <1>2, CutNodes DEF NodesCut
  <1>4. /\ \A a \in 1..Len(l.keys) : a \in 1..ORDER /\ l.keys[a] = w.keys[a]
        /\ \A a \in 1..Len(r.keys) : \E b \in 1..ORDER :
             r.keys[a] = w.keys[b] /\ (w.is_leaf => b = m + a)
    BY <1>1, <1>2, SplitShape
  <1>5. /\ \A i \in 1..L : \A a \in 1..Len(t[i].keys) : t[i].keys[a] \in K
        /\ \A i \in 1..L : t[i].is_leaf => \A a \in 1..Len(t[i].keys) :
             t[i].values[a] \in 1..Len(list) /\ list[t[i].values[a]] = t[i].keys[a]
        /\ \A k \in K : \E i \in 1..L : \E a \in 1..Len(t[i].keys) :
             t[i].is_leaf /\ t[i].keys[a] = k
    BY DEF Contents
  <1>6. ORDER \in Nat /\ ORDER >= 4 /\ L \in Nat /\ m + 1 \in 1..ORDER
    BY <1>2, IndexAssumption
  <1>7. w.is_leaf => /\ Len(l.keys) = m /\ Len(r.keys) = ORDER - m
                     /\ \A a \in 1..m : l.keys[a] = w.keys[0 + a] /\ l.values[a] = w.values[0 + a]
                     /\ \A a \in 1..(ORDER - m) : r.keys[a] = w.keys[m + a] /\ r.values[a] = w.values[m + a]
    BY <1>2 DEF NodeSplit, Part
  <1>8. \A a \in 1..ORDER : w.keys[a] \in K
    BY <1>2, <1>5
  <1> HIDE DEF s, L
  <1>9. \A i \in 1..(L + 1) : i = at \/ i = L + 1 \/ (i \in 1..L /\ i # at)
    BY <1>6
  <1>10. ASSUME NEW i \in 1..(L + 1) PROVE \A a \in 1..Len(s[i].keys) : s[i].keys[a] \in K
    <2>1. CASE i = at
      BY <1>3, <1>4, <1>8, <2>1
    <2>2. CASE i = L + 1
      BY <1>3, <1>4, <1>8, <2>2
    <2>3. CASE i \in 1..L /\ i # at
      BY <1>3, <1>5, <2>3 DEF SameEntries
    <2> QED BY <1>9, <2>1, <2>2, <2>3
  <1>11. ASSUME NEW i \in 1..(L + 1), s[i].is_leaf, NEW a \in 1..Len(s[i].keys)
         PROVE  s[i].values[a] \in 1..Len(list) /\ list[s[i].values[a]] = s[i].keys[a]
    <2>1. CASE i = at
      <3>1. w.is_leaf /\ a \in 1..m
        BY <1>1, <1>3, <1>7, <1>11, <2>1
      <3>2. a \in 1..ORDER /\ 0 + a = a
        BY <1>2, <1>6, <3>1
      <3>3. l.keys[a] = w.keys[a] /\ l.values[a] = w.values[a]
        BY <1>7, <3>1, <3>2
      <3> QED BY <1>2, <1>3, <1>5, <2>1, <3>1, <3>2, <3>3
    <2>2. CASE i = L + 1
      <3>1. w.is_leaf /\ a \in 1..(ORDER - m)
        BY <1>1, <1>3, <1>7, <1>11, <2>2
      <3>2. m + a \in 1..ORDER
        BY <1>2, <1>6, <3>1
      <3>3. r.keys[a] = w.keys[m + a] /\ r.values[a] = w.values[m + a]
        BY <1>7, <3>1
      <3> QED BY <1>2, <1>3, <1>5, <2>2, <3>1, <3>2, <3>3
    <2>3. CASE i \in 1..L /\ i # at
      <3>1. SameEntries(s[i], t[i])
        BY <1>3, <2>3
      <3> QED BY <1>5, <1>11, <2>3, <3>1 DEF SameEntries
    <2> QED BY <1>9, <2>1, <2>2, <2>3
  <1>12. ASSUME NEW k \in K
         PROVE  \E i \in 1..(L + 1) : \E a \in 1..Len(s[i].keys) : s[i].is_leaf /\ s[i].keys[a] = k
    <2>1. PICK i \in 1..L : \E a \in 1..Len(t[i].keys) : t[i].is_leaf /\ t[i].keys[a] = k
      BY <1>5
    <2>2. PICK a \in 1..Len(t[i].keys) : t[i].is_leaf /\ t[i].keys[a] = k
      BY <2>1
    <2>3. i \in 1..(L + 1) /\ at \in 1..(L + 1) /\ L + 1 \in 1..(L + 1)
      BY <1>2, <1>6 DEF L
    <2>4. CASE i # at
      <3>1. SameEntries(s[i], t[i])
        BY <1>3, <2>4
      <3> QED BY <2>2, <2>3, <3>1 DEF SameEntries
    <2>5. CASE i = at /\ a <= m
      <3>1. a \in 1..m /\ 0 + a = a
        BY <1>2, <1>6, <2>2, <2>5
      <3>2. a \in 1..Len(l.keys) /\ l.keys[a] = k /\ l.is_leaf
        BY <1>1, <1>7, <2>2, <2>5, <3>1
      <3> QED BY <1>3, <2>3, <3>2
    <2>6. CASE i = at /\ a > m
      <3>1. a \in 1..ORDER
        BY <1>2, <2>2, <2>6
      <3>2. a - m \in 1..(ORDER - m) /\ m + (a - m) = a
        BY <1>2, <1>6, <2>6, <3>1
      <3>3. r.keys[a - m] = w.keys[m + (a - m)] /\ a - m \in 1..Len(r.keys)
        BY <1>7, <2>2, <2>6, <3>2
      <3>4. r.keys[a - m] = k /\ r.is_leaf
        BY <1>1, <2>2, <2>6, <3>2, <3>3
      <3> QED BY <1>3, <2>3, <3>3, <3>4
    <2>7. a <= m \/ a > m
      BY <1>2, <1>6, <2>2
    <2> QED BY <2>4, <2>5, <2>6, <2>7
  <1>13. Contents(s, K, list)
    BY <1>3, <1>10, <1>11, <1>12 DEF Contents
  <1> QED BY <1>6, <1>8, <1>13 DEF s

\* Hanging the new half into the parent adds no key to the tree.
LEMMA HangContents ==
  ASSUME NEW s, NEW rt, NEW at, NEW d, NEW h, NEW x, NEW D, Parted(s, rt, at, d, h, x, D),
         at # rt, NEW v \in Nat, NEW K, NEW list, Contents(s, K, list), x \in K
  PROVE  Contents(Hang(s, s[at].parent, x, v), K, list)
  <1> DEFINE p == s[at].parent
             u == Hang(s, p, x, v)
             L == Len(s)
  <1>1. PICK c : Slot(s, d, h, at, x, D, c)
    BY DEF Parted
  <1>2. /\ Len(u) = L /\ NodeInserted(u[p], s[p], c, x, v, L)
        /\ \A i \in 1..L : i # p => SameEntries(u[i], s[i])
    BY <1>1, HangNodes DEF NodesHung
  <1>3. /\ ~s[p].is_leaf /\ Len(s[p].keys) \in Nat /\ Fits(s[p].keys, c, x) /\ p \in 1..L
    <2>1. ~s[p].is_leaf /\ Len(s[p].keys) \in Nat /\ Fits(s[p].keys, c, x) /\ p \in 1..(Len(s) - 1) /\ Len(s) \in Nat
      BY <1>1, SlotFits
    <2> QED BY <2>1
  <1>4. /\ \A i \in 1..L : \A a \in 1..Len(s[i].keys) : s[i].keys[a] \in K
        /\ \A i \in 1..L : s[i].is_leaf => \A a \in 1..Len(s[i].keys) :
             s[i].values[a] \in 1..Len(list) /\ list[s[i].values[a]] = s[i].keys[a]
        /\ \A k \in K : \E i \in 1..L : \E a \in 1..Len(s[i].keys) :
             s[i].is_leaf /\ s[i].keys[a] = k
    BY DEF Contents
  <1> HIDE DEF u, L, p
  <1>5. u[p].is_leaf = s[p].is_leaf /\ Inserted(u[p].keys, s[p].keys, c, x)
    BY <1>2 DEF NodeInserted
  <1>6. \A a \in 1..Len(u[p].keys) : u[p].keys[a] \in K
    <2> DEFINE ks == s[p].keys
               us == u[p].keys
               n == Len(s[p].keys)
    <2>1. n \in Nat /\ Len(ks) = n /\ c \in 1..(n + 1) /\ Inserted(us, ks, c, x)
      BY <1>3, <1>5 DEF Fits
    <2>2. \A b \in 1..n : ks[b] \in K
      BY <1>3, <1>4
    <2> HIDE DEF ks, us, n
    <2>3. Len(us) = n + 1 /\ \A a \in 1..(n + 1) : us[a] = x \/ \E b \in 1..n : us[a] = ks[b]
      <3>1. BothInserted(us, us, ks, ks, n, c, x, x)
        BY <2>1 DEF BothInserted
      <3>2. PairsInserted(us, us, ks, ks, n, c, x, x)
        BY <3>1, InsertedPairs
      <3> QED BY <3>2 DEF PairsInserted
    <2>4. \A a \in 1..Len(us) : us[a] \in K
      BY <2>2, <2>3
    <2> QED BY <2>4 DEF us
  <1>7. \A i \in 1..L : \A a \in 1..Len(u[i].keys) : u[i].keys[a] \in K
    BY <1>2, <1>4, <1>6 DEF SameEntries
  <1>8. ASSUME NEW i \in 1..L, u[i].is_leaf, NEW a \in 1..Len(u[i].keys)
        PROVE  u[i].values[a] \in 1..Len(list) /\ list[u[i].values[a]] = u[i].keys[a]
    <2>1. i # p
      BY <1>3, <1>5, <1>8
    <2>2. SameEntries(u[i], s[i])
      BY <1>2, <2>1
    <2> QED BY <1>4, <1>8, <2>2 DEF SameEntries
  <1>9. ASSUME NEW k \in K
        PROVE  \E i \in 1..L : \E a \in 1..Len(u[i].keys) : u[i].is_leaf /\ u[i].keys[a] = k
    <2>1. PICK i \in 1..L : \E a \in 1..Len(s[i].keys) : s[i].is_leaf /\ s[i].keys[a] = k
      BY <1>4
    <2>2. i # p
      BY <1>3, <2>1
    <2>3. SameEntries(u[i], s[i])
      BY <1>2, <2>2
    <2> QED BY <2>1, <2>3 DEF SameEntries
  <1>10. Contents(u, K, list)
    BY <1>2, <1>7, <1>8, <1>9 DEF Contents
  <1> QED BY <1>10 DEF u, p

\* A new root adds no key to the tree.
LEMMA GrowContents ==
  ASSUME NEW s, NEW rt, NEW at, NEW d, NEW h, NEW x, NEW D, Parted(s, rt, at, d, h, x, D),
         NEW K, NEW list, Contents(s, K, list), x \in K
  PROVE  Contents(Grow(s, at, x), K, list)
  <1> DEFINE u == Grow(s, at, x)
             L == Len(s)
             o == u[L + 1]
  <1>1. s \in Seq(Node) /\ at \in 1..(L - 1) /\ x \in Keys
    BY DEF Parted
  <1>2. /\ Len(u) = L + 1 /\ o = RootOver(at, L, x)
        /\ \A i \in 1..L : SameEntries(u[i], s[i])
    BY <1>1, GrowNodes DEF NodesGrown
  <1>3. L \in Nat /\ at \in Nat
    BY <1>1
  <1>4. o.keys[1] = x /\ Len(o.keys) = 1 /\ o.is_leaf = FALSE
    <2> HIDE DEF L
    <2>1. RootMade(RootOver(at, L, x), at, L, x)
      BY <1>1, <1>3, RootNode
    <2>2. RootMade(o, at, L, x)
      BY <1>2, <2>1
    <2> HIDE DEF o
    <2> QED BY <2>2 DEF RootMade
  <1>5. /\ \A i \in 1..L : \A a \in 1..Len(s[i].keys) : s[i].keys[a] \in K
        /\ \A i \in 1..L : s[i].is_leaf => \A a \in 1..Len(s[i].keys) :
             s[i].values[a] \in 1..Len(list) /\ list[s[i].values[a]] = s[i].keys[a]
        /\ \A k \in K : \E i \in 1..L : \E a \in 1..Len(s[i].keys) :
             s[i].is_leaf /\ s[i].keys[a] = k
    BY DEF Contents
  <1> HIDE DEF u, L, o
  <1>6. /\ \A i \in 1..(L + 1) : i = L + 1 \/ i \in 1..L
        /\ \A i \in 1..L : i \in 1..(L + 1)
    BY <1>3
  <1>7. \A a \in 1..Len(o.keys) : o.keys[a] \in K
    BY <1>4
  <1>8. ASSUME NEW i \in 1..(L + 1)
        PROVE  \A a \in 1..Len(u[i].keys) : u[i].keys[a] \in K
    BY <1>2, <1>5, <1>6, <1>7 DEF SameEntries, o
  <1>9. ASSUME NEW i \in 1..(L + 1), u[i].is_leaf, NEW a \in 1..Len(u[i].keys)
        PROVE  u[i].values[a] \in 1..Len(list) /\ list[u[i].values[a]] = u[i].keys[a]
    <2>1. i \in 1..L
      BY <1>4, <1>6, <1>9 DEF o
    <2>2. SameEntries(u[i], s[i])
      BY <1>2, <2>1
    <2> QED BY <1>5, <1>9, <2>1, <2>2 DEF SameEntries
  <1>10. ASSUME NEW k \in K
         PROVE  \E i \in 1..(L + 1) : \E a \in 1..Len(u[i].keys) : u[i].is_leaf /\ u[i].keys[a] = k
    <2>1. PICK i \in 1..L : \E a \in 1..Len(s[i].keys) : s[i].is_leaf /\ s[i].keys[a] = k
      BY <1>5
    <2>2. SameEntries(u[i], s[i]) /\ i \in 1..(L + 1)
      BY <1>2, <1>6
    <2> QED BY <2>1, <2>2 DEF SameEntries
  <1>11. Contents(u, K, list)
    BY <1>2, <1>8, <1>9, <1>10 DEF Contents
  <1> QED BY <1>11 DEF u
-----------------------------------------------------------------------------
(* A key is put into a leaf.                                               *)

\* u is the tree t with the key k and its value v at place p of the leaf at.
LeafStored(u, t, at, p, k, v) ==
  /\ u \in Seq(Node) /\ Len(u) = Len(t)
  /\ NodeInserted(u[at], t[at], p, k, v, NoNode)
  /\ \A i \in 1..Len(t) : i # at => u[i] = t[i]

\* A key that belongs under a leaf leaves the tree a tree.
LEMMA StoreTree ==
  ASSUME NEW t, NEW rt, NEW d, NEW h, Tree(t, rt, NoNode, d, h), NEW at \in 1..Len(t), t[at].is_leaf,
         NEW k \in d[at], NEW p, Fits(t[at].keys, p, k), NEW v, NEW u, LeafStored(u, t, at, p, k, v),
         NEW over, over = at \/ (over = NoNode /\ ~IsFull(t[at]))
  PROVE  Tree(u, rt, over, d, h)
  <1> DEFINE L == Len(t)
  <1>1. /\ u \in Seq(Node) /\ Len(u) = L /\ NodeInserted(u[at], t[at], p, k, v, NoNode)
        /\ \A i \in 1..L : i # at => u[i] = t[i]
    BY DEF LeafStored
  <1>2. /\ t \in Seq(Node) /\ d \in [1..L -> SUBSET Keys] /\ h \in [1..L -> Nat] /\ rt \in 1..L
        /\ t[rt].parent = NoNode /\ d[rt] = Keys /\ h[rt] < L
        /\ \A i \in 1..L : NodeShape(t[i], IF i = NoNode THEN ORDER ELSE ORDER - 1)
        /\ \A i \in 1..L : \A a \in 1..Len(t[i].keys) : t[i].keys[a] \in d[i]
        /\ \A i \in 1..L : t[i].is_leaf <=> h[i] = 0
        /\ \A i \in 1..L : h[i] <= h[rt]
        /\ \A i \in 1..L : i # rt => ParentShape(t, i)
        /\ \A i \in 1..L : ~t[i].is_leaf => \A c \in 1..Len(t[i].children) : ChildShape(t, d, h, i, c)
        /\ \A i, j \in 1..L : i # j /\ h[i] = h[j] => \A y \in Keys : ~(y \in d[i] /\ y \in d[j])
    BY DEF Tree
  <1>3. L \in Nat /\ ORDER \in Nat /\ ORDER >= 4
    BY <1>2, IndexAssumption
  <1> HIDE DEF L
  <1>4. \A i \in 1..L : NodeShape(t[i], ORDER - 1)
    BY <1>2, <1>3 DEF NoNode
  <1>5. at \in 1..L /\ t[at] \in Node /\ k \in Keys /\ ORDER - 1 \in Nat /\ NodeShape(t[at], ORDER - 1)
    BY <1>2, <1>3, <1>4 DEF L
  <1>6. NodeShape(u[at], ORDER - 1 + 1) /\ Len(u[at].keys) = Len(t[at].keys) + 1
    BY <1>1, <1>5, InsertedShape
  <1>7. NodeShape(u[at], IF at = over THEN ORDER ELSE ORDER - 1)
    <2>1. CASE over = at
      <3>1. ORDER - 1 + 1 = ORDER
        BY <1>3
      <3> QED BY <1>6, <2>1, <3>1
    <2>2. CASE over = NoNode /\ ~IsFull(t[at])
      <3>1. at # over
        BY <1>3, <1>5, <2>2 DEF NoNode
      <3>2. Len(t[at].keys) \in 1..(ORDER - 1) /\ Len(t[at].keys) # ORDER - 1
        BY <1>5, <2>2 DEF NodeShape, IsFull, num_keys
      <3>3. Len(u[at].keys) \in 1..(ORDER - 1)
        BY <1>3, <1>6, <3>2
      <3>4. NodeShape(u[at], ORDER - 1)
        BY <1>6, <3>3 DEF NodeShape
      <3> QED BY <3>1, <3>4
    <2> QED BY <2>1, <2>2
  <1>8. ASSUME NEW i \in 1..L PROVE NodeShape(u[i], IF i = over THEN ORDER ELSE ORDER - 1)
    <2>1. CASE i = at
      BY <1>7, <2>1
    <2>2. CASE i # at
      <3>1. i # over
        BY <1>3, <2>2 DEF NoNode
      <3> QED BY <1>1, <1>4, <2>2, <3>1
    <2> QED BY <2>1, <2>2
  <1>9. \A i \in 1..L : /\ u[i].parent = t[i].parent /\ u[i].is_leaf = t[i].is_leaf
                        /\ u[i].children = t[i].children
    BY <1>1 DEF NodeInserted
  <1>10. \A a \in 1..Len(u[at].keys) : u[at].keys[a] \in d[at]
    <2> DEFINE ks == t[at].keys
               us == u[at].keys
               n == Len(t[at].keys)
    <2>1. n \in Nat
      BY <1>5, NodeFields
    <2>2. Len(ks) = n /\ p \in 1..(n + 1) /\ Inserted(us, ks, p, k)
      BY <1>1 DEF Fits, NodeInserted
    <2>3. \A b \in 1..n : ks[b] \in d[at]
      BY <1>2, <1>5
    <2> HIDE DEF ks, us, n
    <2>4. Len(us) = n + 1 /\ \A a \in 1..(n + 1) : us[a] = k \/ \E b \in 1..n : us[a] = ks[b]
      <3>1. BothInserted(us, us, ks, ks, n, p, k, k)
        BY <2>1, <2>2 DEF BothInserted
      <3>2. PairsInserted(us, us, ks, ks, n, p, k, k)
        BY <3>1, InsertedPairs
      <3> QED BY <3>2 DEF PairsInserted
    <2>5. \A a \in 1..Len(us) : us[a] \in d[at]
      BY <2>3, <2>4
    <2> QED BY <2>5 DEF us
  <1>11. \A i \in 1..L : \A a \in 1..Len(u[i].keys) : u[i].keys[a] \in d[i]
    BY <1>1, <1>2, <1>10
  <1>12. \A i \in 1..L : u[i].is_leaf <=> h[i] = 0
    BY <1>2, <1>9
  <1>13. ASSUME NEW i \in 1..L, i # rt PROVE ParentShape(u, i)
    <2>1. ParentShape(t, i)
      BY <1>2, <1>13
    <2> DEFINE q == t[i].parent
    <2>2. q \in 1..L /\ ~t[q].is_leaf /\ \E c \in 1..Len(t[q].children) : t[q].children[c] = i
      BY <2>1 DEF ParentShape, L
    <2>3. u[i].parent = q
      BY <1>9
    <2> HIDE DEF q
    <2>4. q \in 1..Len(u) /\ ~u[q].is_leaf /\ \E c \in 1..Len(u[q].children) : u[q].children[c] = i
      BY <1>1, <1>9, <2>2
    <2> QED BY <2>3, <2>4 DEF ParentShape
  <1>14. ASSUME NEW i \in 1..L, ~u[i].is_leaf, NEW c \in 1..Len(u[i].children)
         PROVE  ChildShape(u, d, h, i, c)
    <2>1. ~t[i].is_leaf /\ i # at /\ u[i] = t[i]
      BY <1>1, <1>9, <1>14
    <2>2. ChildShape(t, d, h, i, c)
      BY <1>2, <1>14, <2>1
    <2> DEFINE j == t[i].children[c]
    <2>3. /\ j \in 1..L /\ t[j].parent = i /\ h[i] = h[j] + 1
          /\ \A y \in Keys : y \in d[j] <=> (y \in d[i] /\ Between(t[i], c, y))
      BY <2>2 DEF ChildShape, L
    <2>4. u[i].children[c] = j
      BY <2>1
    <2> HIDE DEF j
    <2>5. j \in 1..Len(u) /\ u[j].parent = i
      BY <1>1, <1>9, <2>3
    <2> QED BY <2>1, <2>3, <2>4, <2>5 DEF ChildShape
  <1>15. u[rt].parent = NoNode
    BY <1>2, <1>9
  <1> QED BY <1>1, <1>2, <1>8, <1>11, <1>12, <1>13, <1>14, <1>15 DEF Tree

\* The tree then holds the new key, with its value.
LEMMA StoreContents ==
  ASSUME NEW t \in Seq(Node), NEW at \in 1..Len(t), t[at].is_leaf, NodeShape(t[at], ORDER - 1),
         NEW k, NEW p, Fits(t[at].keys, p, k), NEW v, NEW u, LeafStored(u, t, at, p, k, v),
         NEW K, NEW list, Contents(t, K, list), v \in 1..Len(list), list[v] = k
  PROVE  Contents(u, K \cup {k}, list)
  <1> DEFINE L == Len(t)
             M == K \cup {k}
  <1>1. /\ Len(u) = L /\ NodeInserted(u[at], t[at], p, k, v, NoNode)
        /\ \A i \in 1..L : i # at => u[i] = t[i]
    BY DEF LeafStored
  <1>2. /\ \A i \in 1..L : \A a \in 1..Len(t[i].keys) : t[i].keys[a] \in K
        /\ \A i \in 1..L : t[i].is_leaf => \A a \in 1..Len(t[i].keys) :
             t[i].values[a] \in 1..Len(list) /\ list[t[i].values[a]] = t[i].keys[a]
        /\ \A y \in K : \E i \in 1..L : \E a \in 1..Len(t[i].keys) :
             t[i].is_leaf /\ t[i].keys[a] = y
    BY DEF Contents
  <1> DEFINE ks == t[at].keys
             vs == t[at].values
             us == u[at].keys
             ws == u[at].values
             n == Len(t[at].keys)
  <1>3. n \in Nat
    BY NodeFields
  <1>4. /\ Len(ks) = n /\ Len(vs) = n /\ p \in 1..(n + 1)
        /\ Inserted(us, ks, p, k) /\ Inserted(ws, vs, p, v) /\ u[at].is_leaf
    BY <1>1 DEF Fits, NodeInserted, NodeShape
  <1>5. \A b \in 1..n : ks[b] \in K /\ vs[b] \in 1..Len(list) /\ list[vs[b]] = ks[b]
    BY <1>2
  <1> HIDE DEF ks, vs, us, ws, n
  <1>6. /\ Len(us) = n + 1 /\ us[p] = k
        /\ \A a \in 1..(n + 1) : \/ us[a] = k /\ ws[a] = v
                                 \/ \E b \in 1..n : us[a] = ks[b] /\ ws[a] = vs[b]
        /\ \A b \in 1..n : \E a \in 1..(n + 1) : us[a] = ks[b]
    <2>1. BothInserted(us, ws, ks, vs, n, p, k, v)
      BY <1>3, <1>4 DEF BothInserted
    <2>2. PairsInserted(us, ws, ks, vs, n, p, k, v)
      BY <2>1, InsertedPairs
    <2> QED BY <2>2 DEF PairsInserted
  <1>7. \A a \in 1..Len(us) : us[a] \in M /\ ws[a] \in 1..Len(list) /\ list[ws[a]] = us[a]
    BY <1>5, <1>6
  <1>8. ASSUME NEW i \in 1..L PROVE \A a \in 1..Len(u[i].keys) : u[i].keys[a] \in M
    BY <1>1, <1>2, <1>7 DEF us
  <1>9. ASSUME NEW i \in 1..L, u[i].is_leaf, NEW a \in 1..Len(u[i].keys)
        PROVE  u[i].values[a] \in 1..Len(list) /\ list[u[i].values[a]] = u[i].keys[a]
    BY <1>1, <1>2, <1>7, <1>9 DEF us, ws
  <1>10. ASSUME NEW y \in M
         PROVE  \E i \in 1..L : \E a \in 1..Len(u[i].keys) : u[i].is_leaf /\ u[i].keys[a] = y
    <2>1. CASE y = k
      <3>1. p \in 1..Len(us)
        BY <1>4, <1>6
      <3> QED BY <1>4, <1>6, <2>1, <3>1 DEF us
    <2>2. CASE y \in K
      <3>1. PICK i \in 1..L : \E a \in 1..Len(t[i].keys) : t[i].is_leaf /\ t[i].keys[a] = y
        BY <1>2, <2>2
      <3>2. CASE i # at
        BY <1>1, <3>1, <3>2
      <3>3. CASE i = at
        <4>1. \E b \in 1..n : ks[b] = y
          BY <3>1, <3>3 DEF ks, n
        <4>2. \E a \in 1..Len(us) : us[a] = y
          BY <1>6, <4>1
        <4> QED BY <1>4, <4>2 DEF us
      <3> QED BY <3>2, <3>3
    <2> QED BY <2>1, <2>2
  <1> HIDE DEF L, M
  <1>11. Contents(u, M, list)
    BY <1>1, <1>8, <1>9, <1>10 DEF Contents
  <1> QED BY <1>11 DEF M
-----------------------------------------------------------------------------
(* The way down.                                                           *)

\* The loader goes to the child to which the key belongs.
LEMMA LoadChild ==
  ASSUME NEW n \in Node, Sorted(n.keys), Len(n.keys) >= 1, Len(n.children) = Len(n.keys) + 1, NEW k \in Int
  PROVE  \E c \in 1..Len(n.children) : ChildToLoad(n, k) = n.children[c] /\ Between(n, c, k)
  <1> DEFINE s == n.keys
             last == Len(s)
             p == Position(n, k)
  <1>1. s \in Seq(Int) /\ last \in Nat /\ last >= 1 /\ (\A i \in 1..last : s[i] \in Int)
    BY NodeFields
  <1>2. /\ p \in 1..(last + 1) /\ \A i \in 1..(p - 1) : s[i] <= k
        /\ p <= last => k < s[p]
    BY <1>1, PositionFound
  <1>3. /\ k < s[1] => ChildToLoad(n, k) = n.children[1]
        /\ ~(k < s[1]) /\ k >= s[last] => ChildToLoad(n, k) = n.children[last + 1]
        /\ ~(k < s[1]) /\ ~(k >= s[last]) =>
             ChildToLoad(n, k) = n.children[1 + CHOOSE i \in 1..(last - 1) : s[i] <= k /\ k < s[i + 1]]
    BY DEF ChildToLoad, num_keys
  <1>4. \A c : Between(n, c, k) <=> ((c > 1 => s[c - 1] <= k) /\ (c <= last => k < s[c]))
    BY DEF Between
  <1>5. Len(n.children) = last + 1
    OBVIOUS
  <1> HIDE DEF s, last, p
  <1>6. CASE k < s[1]
    <2>1. ~(1 > 1) /\ 1 \in 1..(last + 1)
      BY <1>1
    <2> QED BY <1>3, <1>4, <1>5, <1>6, <2>1
  <1>7. CASE ~(k < s[1]) /\ k >= s[last]
    <2>1. last + 1 \in 1..(last + 1) /\ last + 1 - 1 = last /\ ~(last + 1 <= last) /\ last \in 1..last
      BY <1>1
    <2>2. s[last] <= k
      BY <1>1, <1>7, <2>1
    <2> QED BY <1>3, <1>4, <1>5, <1>7, <2>1, <2>2
  <1>8. CASE ~(k < s[1]) /\ ~(k >= s[last])
    <2> DEFINE i == CHOOSE i \in 1..(last - 1) : s[i] <= k /\ k < s[i + 1]
    <2>1. \E j \in 1..(last - 1) : s[j] <= k /\ k < s[j + 1]
      <3>1. p # 1
        BY <1>1, <1>2, <1>8
      <3>2. p # last + 1
        <4>1. last \in 1..last
          BY <1>1
        <4> QED BY <1>1, <1>2, <1>8, <4>1
      <3>3. p - 1 \in 1..(last - 1) /\ p - 1 \in 1..(p - 1) /\ (p - 1) + 1 = p /\ p <= last
        BY <1>1, <1>2, <3>1, <3>2
      <3> QED BY <1>2, <3>3
    <2>2. i \in 1..(last - 1) /\ s[i] <= k /\ k < s[i + 1]
      BY <2>1
    <2>3. ChildToLoad(n, k) = n.children[1 + i]
      BY <1>3, <1>8
    <2> HIDE DEF i
    <2>4. 1 + i \in 1..(last + 1) /\ 1 + i - 1 = i /\ 1 + i = i + 1
      BY <1>1, <2>2
    <2>5. Between(n, 1 + i, k)
      BY <1>4, <2>2, <2>4
    <2> QED BY <1>5, <2>3, <2>4, <2>5
  <1> QED BY <1>6, <1>7, <1>8

\* find_node_to_store goes to the child to which the key belongs, unless the
\* key is a separator behind the first.
LEMMA StoreChild ==
  ASSUME NEW n \in Node, Sorted(n.keys), Len(n.keys) >= 1, Len(n.children) = Len(n.keys) + 1, NEW k \in Int,
         \A a \in 2..Len(n.keys) : n.keys[a] # k
  PROVE  \E c \in 1..Len(n.children) : ChildToStore(n, k) = n.children[c] /\ Between(n, c, k)
  <1> DEFINE s == n.keys
             last == Len(s)
             p == Position(n, k)
             inner == {i \in 2..(last - 1) : s[i] < k /\ k < s[i + 1]}
  <1>1. s \in Seq(Int) /\ last \in Nat /\ last >= 1 /\ (\A i \in 1..last : s[i] \in Int)
    BY NodeFields
  <1>2. /\ p \in 1..(last + 1) /\ \A i \in 1..(p - 1) : s[i] <= k
        /\ p <= last => k < s[p]
    BY <1>1, PositionFound
  <1>3. /\ k < s[1] => ChildToStore(n, k) = n.children[1]
        /\ ~(k < s[1]) /\ k > s[last] => ChildToStore(n, k) = n.children[last + 1]
        /\ ~(k < s[1]) /\ ~(k > s[last]) /\ inner = {} => ChildToStore(n, k) = n.children[2]
        /\ ~(k < s[1]) /\ ~(k > s[last]) /\ inner # {} =>
             ChildToStore(n, k) = n.children[1 + CHOOSE i \in inner : TRUE]
    BY DEF ChildToStore, num_keys
  <1>4. \A c : Between(n, c, k) <=> ((c > 1 => s[c - 1] <= k) /\ (c <= last => k < s[c]))
    BY DEF Between
  <1>5. Len(n.children) = last + 1 /\ \A a \in 2..last : s[a] # k
    OBVIOUS
  <1> HIDE DEF s, last, p
  <1>6. CASE k < s[1]
    <2>1. ~(1 > 1) /\ 1 \in 1..(last + 1)
      BY <1>1
    <2> QED BY <1>3, <1>4, <1>5, <1>6, <2>1
  <1>7. CASE ~(k < s[1]) /\ k > s[last]
    <2>1. last + 1 \in 1..(last + 1) /\ last + 1 - 1 = last /\ ~(last + 1 <= last) /\ last \in 1..last
      BY <1>1
    <2>2. s[last] <= k
      BY <1>1, <1>7, <2>1
    <2> QED BY <1>3, <1>4, <1>5, <1>7, <2>1, <2>2
  <1>8. CASE ~(k < s[1]) /\ ~(k > s[last]) /\ inner # {}
    <2> DEFINE i == CHOOSE i \in inner : TRUE
    <2>1. i \in inner
      BY <1>8
    <2>2. ChildToStore(n, k) = n.children[1 + i]
      BY <1>3, <1>8
    <2>3. i \in 2..(last - 1) /\ s[i] < k /\ k < s[i + 1]
      BY <2>1
    <2> HIDE DEF i, inner
    <2>4. i \in 2..(last - 1)
      BY <2>3
    <2>5. 1 + i \in 1..(last + 1) /\ 1 + i - 1 = i /\ 1 + i = i + 1 /\ i \in 1..last
      BY <1>1, <2>4
    <2>6. s[i] <= k
      BY <1>1, <2>3, <2>5
    <2>7. Between(n, 1 + i, k)
      BY <1>4, <2>3, <2>5, <2>6
    <2> QED BY <1>5, <2>2, <2>5, <2>7
  <1>9. CASE ~(k < s[1]) /\ ~(k > s[last]) /\ inner = {}
    <2>1. p # 1
      BY <1>1, <1>2, <1>9
    <2>2. last \in 1..last /\ 1 \in 1..last
      BY <1>1
    <2>3. ~(3 <= p /\ p <= last)
      <3>1. SUFFICES ASSUME 3 <= p, p <= last PROVE FALSE
        OBVIOUS
      <3>2. p - 1 \in 2..(last - 1) /\ p - 1 \in 2..last /\ p - 1 \in 1..(p - 1) /\ (p - 1) + 1 = p /\ p - 1 \in 1..last
        BY <1>1, <1>2, <3>1
      <3>3. s[p - 1] <= k /\ s[p - 1] # k
        BY <1>2, <1>5, <3>2
      <3>4. s[p - 1] < k /\ k < s[(p - 1) + 1]
        BY <1>1, <1>2, <3>1, <3>2, <3>3
      <3> QED BY <1>9, <3>2, <3>4
    <2>4. p = last + 1 => last = 1
      <3>1. SUFFICES ASSUME p = last + 1, last # 1 PROVE FALSE
        OBVIOUS
      <3>2. last \in 2..last /\ last \in 1..(p - 1)
        BY <1>1, <1>2, <3>1
      <3>3. s[last] <= k /\ s[last] # k
        BY <1>2, <1>5, <3>2
      <3> QED BY <1>1, <1>9, <2>2, <3>3
    <2>5. p = 2
      BY <1>1, <1>2, <2>1, <2>3, <2>4
    <2>6. 1 \in 1..(p - 1) /\ 2 - 1 = 1 /\ 2 \in 1..(last + 1)
      BY <1>1, <2>5
    <2>7. s[2 - 1] <= k /\ (2 <= last => k < s[2])
      BY <1>2, <2>5, <2>6
    <2>8. ChildToStore(n, k) = n.children[2]
      BY <1>3, <1>9
    <2> QED BY <1>4, <1>5, <2>6, <2>7, <2>8
  <1> QED BY <1>6, <1>7, <1>8, <1>9

\* A key that is a separator behind the first goes to the second child, to
\* which it does not belong.
LEMMA StoreAstray ==
  ASSUME NEW n \in Node, Sorted(n.keys), Len(n.children) = Len(n.keys) + 1, NEW k \in Int,
         NEW a \in 2..Len(n.keys), n.keys[a] = k
  PROVE  2 \in 1..Len(n.children) /\ ChildToStore(n, k) = n.children[2] /\ ~Between(n, 2, k)
  <1> DEFINE s == n.keys
             last == Len(s)
             inner == {i \in 2..(last - 1) : s[i] < k /\ k < s[i + 1]}
  <1>1. s \in Seq(Int) /\ last \in Nat /\ (\A i \in 1..last : s[i] \in Int)
    BY NodeFields
  <1>2. /\ ~(k < s[1]) /\ ~(k > s[last]) /\ inner = {} => ChildToStore(n, k) = n.children[2]
    BY DEF ChildToStore, num_keys
  <1>3. \A i, j \in 1..last : i < j => s[i] < s[j]
    BY DEF Sorted
  <1>4. a \in 2..last /\ s[a] = k /\ Len(n.children) = last + 1
    OBVIOUS
  <1>5. Between(n, 2, k) => (2 <= last => k < s[2])
    BY DEF Between
  <1> HIDE DEF s, last
  <1>6. a \in 1..last /\ 1 \in 1..last /\ 2 \in 1..last /\ last \in 1..last
    BY <1>1, <1>4
  <1>7. ~(k < s[1])
    <2>1. 1 < a
      BY <1>4
    <2>2. s[1] < s[a]
      BY <1>3, <1>6, <2>1
    <2> QED BY <1>1, <1>4, <1>6, <2>2
  <1>8. ~(k > s[last])
    <2>1. a = last \/ a < last
      BY <1>1, <1>4
    <2>2. s[a] = s[last] \/ s[a] < s[last]
      BY <1>3, <1>6, <2>1
    <2> QED BY <1>1, <1>4, <1>6, <2>2
  <1>9. ASSUME NEW i \in 2..(last - 1), s[i] < k, k < s[i + 1] PROVE FALSE
    <2>1. i \in 1..last /\ i + 1 \in 1..last /\ (a < i \/ a = i \/ a = i + 1 \/ i + 1 < a)
      BY <1>1, <1>4
    <2>2. s[a] < s[i] \/ s[a] = s[i] \/ s[a] = s[i + 1] \/ s[i + 1] < s[a]
      BY <1>3, <1>6, <2>1
    <2>3. s[a] \in Int /\ s[i] \in Int /\ s[i + 1] \in Int
      BY <1>1, <1>6, <2>1
    <2> QED BY <1>4, <1>9, <2>2, <2>3
  <1>10. inner = {}
    BY <1>9
  <1>11. ~(k < s[2])
    <2>1. a = 2 \/ 2 < a
      BY <1>4
    <2>2. s[2] = s[a] \/ s[2] < s[a]
      BY <1>3, <1>6, <2>1
    <2> QED BY <1>1, <1>4, <1>6, <2>2
  <1>12. 2 <= last /\ 2 \in 1..(last + 1)
    BY <1>1, <1>4
  <1> QED BY <1>2, <1>4, <1>5, <1>7, <1>8, <1>10, <1>11, <1>12
-----------------------------------------------------------------------------
(* The tree during a call.                                                 *)

\* Nothing is on its way up but during a split.
LEMMA VirtualSame ==
  ASSUME NEW t \in Seq(Node), NEW c, c.op # "split"
  PROVE  Virtual(t, c) = t /\ Over(c) = NoNode
  <1>1. Virtual(t, c) = [i \in 1..Len(t) |-> t[i]]
    BY DEF Virtual
  <1>2. t = [i \in 1..Len(t) |-> t[i]]
    OBVIOUS
  <1> QED BY <1>1, <1>2 DEF Over

\* The nodes V of the tree during the split c of the nodes t.
SplitNodes(V, t, c) ==
  /\ Len(V) = Len(t)
  /\ V[c.at] = insert_into_node(t[c.at], c.key, c.value, c.targ)
  /\ \A i \in 1..Len(t) : i # c.at =>
       /\ i = c.targ => V[i] = [t[i] EXCEPT !.parent = c.at]
       /\ i # c.targ => V[i] = t[i]

\* The call of a split.
LEMMA SplitOp ==
  ASSUME NEW t, NEW c, SplitCall(t, c)
  PROVE  c.op = "split"
  BY DEF SplitCall, Splitting

\* The tree during a split.
LEMMA VirtualSplit ==
  ASSUME NEW t \in Seq(Node), NEW c, SplitCall(t, c)
  PROVE  SplitNodes(Virtual(t, c), t, c) /\ Over(c) = c.at
  <1> DEFINE L == Len(t)
             w(i) == insert_into_node(t[i], c.key, c.value, c.targ)
             e(i) == [t[i] EXCEPT !.parent = c.at]
             V == [i \in 1..L |-> IF i = c.at THEN w(i) ELSE IF i = c.targ THEN e(i) ELSE t[i]]
  <1>1. c.op = "split" /\ c.at \in 1..L
    BY SplitOp DEF SplitCall
  <1>2. Virtual(t, c) = V
    BY <1>1 DEF Virtual
  <1>3. L \in Nat
    OBVIOUS
  <1> HIDE DEF L, w, e
  <1>4. Len(V) = L
    BY <1>3
  <1>5. V[c.at] = w(c.at)
    BY <1>1
  <1>6. \A i \in 1..L : i # c.at => (i = c.targ => V[i] = e(i)) /\ (i # c.targ => V[i] = t[i])
    OBVIOUS
  <1> HIDE DEF V
  <1>7. Over(c) = c.at
    BY <1>1 DEF Over
  <1> QED BY <1>2, <1>4, <1>5, <1>6, <1>7 DEF SplitNodes, L, w, e

\* The over-full node is cut as split_insert_node splits the full one.
LEMMA VirtualCut ==
  ASSUME NEW t \in Seq(Node), NEW rt, NEW c, NEW d, NEW h, SplitCall(t, c),
         Tree(Virtual(t, c), rt, Over(c), d, h)
  PROVE  LET V == Virtual(t, c)
             n == t[c.at]
         IN  \E m : /\ Cuttable(V, rt, c.at, d, h, LeftHalf(n, c.key, c.value, c.targ),
                                RightHalf(n, c.key, c.value, c.targ), m)
                    /\ n.keys[med_idx + 1] = V[c.at].keys[m + 1]
  <1> DEFINE V == Virtual(t, c)
             n == t[c.at]
             k == c.key
             v == c.value
             g == c.targ
             l == LeftHalf(n, k, v, g)
             r == RightHalf(n, k, v, g)
             w == insert_into_node(n, k, v, g)
  <1>1. Full(n, k, v, g) /\ c.at \in 1..Len(t)
    BY DEF SplitCall
  <1>2. Len(V) = Len(t) /\ V[c.at] = w /\ Over(c) = c.at
    BY VirtualSplit DEF SplitNodes
  <1>3. Len(w.keys) = ORDER
    <2> HIDE DEF n, k, v, g
    <2> QED BY <1>1, FullPlaces
  <1>4. PICK m \in 1..(ORDER - 2) : NodeSplit(l, r, w, m) /\ n.keys[med_idx + 1] = w.keys[m + 1]
    <2> HIDE DEF n, k, v, g
    <2> QED BY <1>1, SplitNode
  <1> HIDE DEF V, l, r, w
  <1>5. Cuttable(V, rt, c.at, d, h, l, r, m)
    BY <1>1, <1>2, <1>3, <1>4 DEF Cuttable, V
  <1>6. n.keys[med_idx + 1] = V[c.at].keys[m + 1]
    BY <1>2, <1>4
  <1> QED BY <1>5, <1>6 DEF V, l, r

\* Only the last parent that is set counts.
LEMMA ParentTwice ==
  ASSUME NEW n \in Node, NEW a \in Nat, NEW b \in Nat
  PROVE  [[n EXCEPT !.parent = a] EXCEPT !.parent = b] = [n EXCEPT !.parent = b]
  BY DEF Node

\* What split_insert_node makes of the file is the tree after the cut.
LEMMA AfterSplitCuts ==
  ASSUME node \in Seq(Node), SplitCall(node, call), Virtual(node, call) \in Seq(Node)
  PROVE  LET n == node[call.at]
             l == LeftHalf(n, call.key, call.value, call.targ)
             r == RightHalf(n, call.key, call.value, call.targ)
         IN  AfterSplit(call.at, call.key, call.value, call.targ)
               = Cut(Virtual(node, call), call.at, l, r)
  <1> DEFINE V == Virtual(node, call)
             n == node[call.at]
             at == call.at
             targ == call.targ
             L == Len(node)
             l == LeftHalf(n, call.key, call.value, targ)
             r == RightHalf(n, call.key, call.value, targ)
             C == Cut(V, at, l, r)
             half(i) == IF i \in Range(r.children) THEN L + 1 ELSE IF i = targ THEN at ELSE node[i].parent
             e(i) == [node[i] EXCEPT !.parent = half(i)]
             f == [i \in 1..L |-> IF i = at THEN l ELSE e(i)]
             A == Append(f, r)
  <1>1. /\ L \in Nat /\ at \in 1..L /\ targ \in 0..L /\ Full(n, call.key, call.value, targ)
        /\ DOMAIN node = 1..L /\ \A i \in 1..L : node[i] \in Node
    BY DEF SplitCall
  <1>2. AfterSplit(at, call.key, call.value, targ) = A
    BY <1>1 DEF AfterSplit, LeftHalf, RightHalf, Halves
  <1>3. /\ Len(V) = L
        /\ \A i \in 1..L : i # at => /\ i = targ => V[i] = [node[i] EXCEPT !.parent = at]
                                     /\ i # targ => V[i] = node[i]
    BY VirtualSplit DEF SplitNodes
  <1>4. l \in Node /\ r \in Node
    <2>1. \E m : NodeSplit(l, r, insert_into_node(n, call.key, call.value, targ), m)
      <3> HIDE DEF n, targ
      <3> QED BY <1>1, SplitNode
    <2> QED BY <2>1 DEF NodeSplit
  <1>5. C \in Seq(Node) /\ Len(C) = L + 1 /\ C[L + 1] = r /\ C[at] = l
    <2>1. V \in Seq(Node) /\ at \in 1..Len(V)
      BY <1>1, <1>3
    <2> HIDE DEF V, at, l, r
    <2>2. NodesCut(C, V, at, l, r)
      BY <1>4, <2>1, CutNodes
    <2> HIDE DEF C
    <2> QED BY <1>3, <2>2 DEF NodesCut
  <1>6. \A i \in 1..L : i # at =>
          C[i] = [V[i] EXCEPT !.parent = IF i \in Range(r.children) THEN L + 1 ELSE V[i].parent]
    <2>1. C = [i \in 1..(L + 1) |->
                 IF i = L + 1 THEN r ELSE IF i = at THEN l
                 ELSE [V[i] EXCEPT !.parent = IF i \in Range(r.children) THEN L + 1 ELSE V[i].parent]]
      BY <1>3 DEF Cut
    <2> HIDE DEF C, V, L, at, l, r
    <2>2. \A i \in 1..L : i \in 1..(L + 1) /\ i # L + 1
      BY <1>1
    <2> QED BY <2>1, <2>2
  <1>7. \A i \in 1..L : node[i].parent \in Nat
    BY <1>1, NodeFields
  <1> HIDE DEF V, L, l, r, C, n, at, targ
  <1>8. at \in Nat /\ L + 1 \in Nat
    BY <1>1
  <1>9. \A i \in 1..L : half(i) \in Nat
    BY <1>7, <1>8
  <1>10. \A i \in 1..L : e(i) \in Node
    BY <1>1, <1>9, ParentUpdate
  <1>11. ASSUME NEW i \in 1..L, i # at PROVE C[i] = e(i)
    <2>1. node[i] \in Node /\ node[i].parent \in Nat
      BY <1>1, <1>7
    <2>2. CASE i = targ
      <3>1. V[i] = [node[i] EXCEPT !.parent = at] /\ V[i].parent = at
        <4>1. V[i] = [node[i] EXCEPT !.parent = at]
          BY <1>3, <1>11, <2>2
        <4>2. [node[i] EXCEPT !.parent = at].parent = at
          BY <1>8, <2>1, ParentUpdate
        <4> QED BY <4>1, <4>2
      <3>2. C[i] = [V[i] EXCEPT !.parent = half(i)]
        BY <1>6, <1>11, <2>2, <3>1
      <3>3. half(i) \in Nat
        BY <1>9
      <3> HIDE DEF half
      <3>4. [[node[i] EXCEPT !.parent = at] EXCEPT !.parent = half(i)] = [node[i] EXCEPT !.parent = half(i)]
        BY <1>8, <2>1, <3>3, ParentTwice
      <3> QED BY <3>1, <3>2, <3>4
    <2>3. CASE i # targ
      BY <1>3, <1>6, <1>11, <2>3
    <2> QED BY <2>2, <2>3
  <1> HIDE DEF e
  <1>12. f \in Seq(Node) /\ Len(f) = L /\ f[at] = l /\ \A i \in 1..L : i # at => f[i] = e(i)
    <2>1. \A i \in 1..L : f[i] \in Node
      BY <1>4, <1>10
    <2>2. f = [i \in 1..L |-> f[i]]
      OBVIOUS
    <2>3. f[at] = l /\ \A i \in 1..L : i # at => f[i] = e(i)
      BY <1>1
    <2> HIDE DEF f
    <2>4. [i \in 1..L |-> f[i]] \in Seq(Node) /\ Len([i \in 1..L |-> f[i]]) = L
      BY <1>1, <2>1
    <2> QED BY <2>2, <2>3, <2>4
  <1> HIDE DEF f
  <1>13. A \in Seq(Node) /\ Len(A) = L + 1 /\ A[L + 1] = r /\ \A i \in 1..L : A[i] = f[i]
    BY <1>4, <1>12
  <1>14. \A i \in 1..(L + 1) : A[i] = C[i]
    <2>1. \A i \in 1..(L + 1) : i = L + 1 \/ i \in 1..L
      BY <1>1
    <2> QED BY <1>5, <1>11, <1>12, <1>13, <2>1
  <1> HIDE DEF A
  <1>15. A = C
    BY <1>5, <1>13, <1>14, SeqEqual
  <1> QED BY <1>2, <1>15 DEF C, V, L, l, r, n, at, targ

\* The nodes S after the node at was split; the keys K are in the tree.
SplitDone(S, rt, at, x, K, list, d, h, D) ==
  /\ Parted(S, rt, at, d, h, x, D)
  /\ Contents(S, K, list)
  /\ x \in K

\* A split leaves a tree but for the place of the halves.
LEMMA SplitParts ==
  ASSUME node \in Seq(Node), SplitCall(node, call), NEW d, NEW h, Built(node, root, inodes, call, d, h)
  PROVE  LET S == AfterSplit(call.at, call.key, call.value, call.targ)
             x == node[call.at].keys[med_idx + 1]
         IN  \E e, g : SplitDone(S, root, call.at, x, Range(inodes), inodes, e, g, d[call.at])
  <1> DEFINE V == Virtual(node, call)
             n == node[call.at]
             l == LeftHalf(n, call.key, call.value, call.targ)
             r == RightHalf(n, call.key, call.value, call.targ)
             S == AfterSplit(call.at, call.key, call.value, call.targ)
             x == n.keys[med_idx + 1]
             at == call.at
  <1>1. Tree(V, root, Over(call), d, h) /\ Contents(V, Stored(inodes, call), inodes)
    BY DEF Built
  <1>2. call.op = "split"
    BY SplitOp
  <1>3. Contents(V, Range(inodes), inodes)
    BY <1>1, <1>2 DEF Stored
  <1>4. PICK m : Cuttable(V, root, at, d, h, l, r, m) /\ x = V[at].keys[m + 1]
    BY <1>1, VirtualCut
  <1>5. V \in Seq(Node)
    BY <1>1 DEF Tree
  <1>6. S = Cut(V, at, l, r)
    BY <1>5, AfterSplitCuts
  <1> HIDE DEF V, l, r, S, x, at
  <1> DEFINE e == CutKeys(d, at, Len(V), x)
             g == CutHeights(h, at, Len(V))
  <1>7. Parted(S, root, at, e, g, x, d[at])
    BY <1>4, <1>6, CutTree
  <1>8. Contents(S, Range(inodes), inodes) /\ x \in Range(inodes)
    BY <1>3, <1>4, <1>6, CutContents
  <1> HIDE DEF e, g
  <1>9. SplitDone(S, root, at, x, Range(inodes), inodes, e, g, d[at])
    BY <1>7, <1>8 DEF SplitDone
  <1> QED BY <1>9 DEF S, x, at, n

\* The parents that split_insert_node goes by.
LEMMA SplitParents ==
  ASSUME node \in Seq(Node), SplitCall(node, call), NEW d, NEW h, Built(node, root, inodes, call, d, h)
  PROVE  LET S == AfterSplit(call.at, call.key, call.value, call.targ)
             p == node[call.at].parent
         IN  /\ S[call.at].parent = p
             /\ call.at = root <=> p = NoNode
             /\ p # NoNode => S[p].keys = node[p].keys
  <1> DEFINE V == Virtual(node, call)
             n == node[call.at]
             l == LeftHalf(n, call.key, call.value, call.targ)
             r == RightHalf(n, call.key, call.value, call.targ)
             S == AfterSplit(call.at, call.key, call.value, call.targ)
             at == call.at
             p == n.parent
  <1>1. Tree(V, root, Over(call), d, h)
    BY DEF Built
  <1>2. PICK m : Cuttable(V, root, at, d, h, l, r, m)
    BY <1>1, VirtualCut
  <1>3. V \in Seq(Node)
    BY <1>1 DEF Tree
  <1>4. S = Cut(V, at, l, r)
    BY <1>3, AfterSplitCuts
  <1>5. V[at].parent = p
    <2> DEFINE w == insert_into_node(n, call.key, call.value, call.targ)
    <2>1. Full(n, call.key, call.value, call.targ)
      BY DEF SplitCall
    <2>2. V[at] = w
      BY VirtualSplit DEF SplitNodes
    <2> HIDE DEF n
    <2>3. NodeInserted(w, n, Position(n, call.key), call.key, call.value, call.targ)
      BY <2>1, FullPlaces
    <2>4. w.parent = n.parent
      BY <2>3 DEF NodeInserted
    <2> QED BY <2>2, <2>4
  <1>6. /\ Len(V) = Len(node)
        /\ \A i \in 1..Len(node) : i # at => /\ i = call.targ => V[i] = [node[i] EXCEPT !.parent = at]
                                             /\ i # call.targ => V[i] = node[i]
    BY VirtualSplit DEF SplitNodes
  <1>7. at \in 1..Len(node) /\ Len(node) \in Nat /\ \A i \in 1..Len(node) : node[i] \in Node
    BY DEF SplitCall
  <1> HIDE DEF V, n, l, r, S, at, p
  <1>8. l.parent = V[at].parent /\ l \in Node /\ r \in Node
    BY <1>2, Moved
  <1>9. S[at] = l /\ \A i \in 1..Len(V) : i # at => SameEntries(S[i], V[i])
    <2>1. at \in 1..Len(V)
      BY <1>6, <1>7
    <2>2. NodesCut(S, V, at, l, r)
      BY <1>3, <1>4, <1>8, <2>1, CutNodes
    <2> QED BY <2>2 DEF NodesCut
  <1>10. CASE at = root
    <2>1. V[root].parent = NoNode
      BY <1>1 DEF Tree
    <2> QED BY <1>5, <1>8, <1>9, <1>10, <2>1 DEF S, at, p, n
  <1>11. CASE at # root
    <2>1. ParentShape(V, at)
      BY <1>1, <1>6, <1>7, <1>11 DEF Tree
    <2>2. p \in 1..Len(V) /\ ~V[p].is_leaf /\ \E c \in 1..Len(V[p].children) : V[p].children[c] = at
      BY <1>5, <2>1 DEF ParentShape
    <2>3. p # at
      BY <1>1, <2>2, TreeChild
    <2>4. V[p].keys = node[p].keys
      <3>1. p \in 1..Len(node) /\ node[p] \in Node /\ at \in Nat
        BY <1>6, <1>7, <2>2
      <3>2. [node[p] EXCEPT !.parent = at].keys = node[p].keys
        BY <3>1, ParentUpdate DEF SameEntries
      <3> QED BY <1>6, <2>3, <3>1, <3>2
    <2>5. S[p].keys = node[p].keys
      BY <1>9, <2>2, <2>3, <2>4 DEF SameEntries
    <2>6. p # NoNode
      BY <1>6, <1>7, <2>2 DEF NoNode
    <2> QED BY <1>5, <1>8, <1>9, <1>11, <2>5, <2>6 DEF S, at, p, n
  <1> QED BY <1>10, <1>11

\* The tree when the parent has room for the new half.
LEMMA BuiltHung ==
  ASSUME NEW S, NEW rt, NEW at, NEW x, NEW list, NEW d, NEW h, NEW D,
         SplitDone(S, rt, at, x, Range(list), list, d, h, D), at # rt, ~IsFull(S[S[at].parent]), NEW v \in Nat
  PROVE  /\ Hang(S, S[at].parent, x, v) \in Seq(Node)
         /\ Len(Hang(S, S[at].parent, x, v)) = Len(S)
         /\ Built(Hang(S, S[at].parent, x, v), rt, list, Idle, d, h)
  <1> DEFINE u == Hang(S, S[at].parent, x, v)
  <1>1. Parted(S, rt, at, d, h, x, D) /\ Contents(S, Range(list), list) /\ x \in Range(list)
    BY DEF SplitDone
  <1>2. Tree(u, rt, NoNode, d, h)
    BY <1>1, HangTree
  <1>3. Contents(u, Range(list), list)
    BY <1>1, HangContents
  <1>4. u \in Seq(Node)
    BY <1>2 DEF Tree
  <1>5. Len(u) = Len(S)
    <2>1. S \in Seq(Node)
      BY <1>1 DEF Parted
    <2>2. Len(S) \in Nat
      BY <2>1
    <2> QED BY <2>2 DEF Hang
  <1> HIDE DEF u
  <1>6. Idle.op = "idle" /\ Idle.op # "split" /\ Idle.op # "find"
    BY DEF Idle
  <1>7. Virtual(u, Idle) = u /\ Over(Idle) = NoNode /\ Stored(list, Idle) = Range(list)
    BY <1>4, <1>6, VirtualSame DEF Stored
  <1>8. Built(u, rt, list, Idle, d, h)
    BY <1>2, <1>3, <1>7 DEF Built
  <1> QED BY <1>4, <1>5, <1>8 DEF u

\* The tree when the parent has to be split in its turn.
LEMMA BuiltCarried ==
  ASSUME NEW S, NEW rt, NEW at, NEW x, NEW list, NEW d, NEW h, NEW D,
         SplitDone(S, rt, at, x, Range(list), list, d, h, D), at # rt, IsFull(S[S[at].parent])
  PROVE  Built(S, rt, list, Splitting(x, 0, S[at].parent, Len(S)), d, h)
  <1> DEFINE p == S[at].parent
             L == Len(S)
             c == Splitting(x, 0, p, L)
             u == Hang(S, p, x, 0)
  <1>1. Parted(S, rt, at, d, h, x, D) /\ Contents(S, Range(list), list) /\ x \in Range(list)
    BY DEF SplitDone
  <1>2. Tree(u, rt, p, d, h)
    BY <1>1, HangTree
  <1>3. Contents(u, Range(list), list)
    BY <1>1, HangContents
  <1>4. PICK b : Slot(S, d, h, at, x, D, b)
    BY <1>1 DEF Parted
  <1>5. /\ S[p] \in Node /\ p \in 1..(L - 1) /\ ~S[p].is_leaf
        /\ Len(S[p].keys) \in Nat /\ Fits(S[p].keys, b, x) /\ x \in Keys /\ x \in Int /\ L \in Nat
    BY <1>1, <1>4, SlotFits
  <1>6. NodeShape(S[p], ORDER - 1)
    <2>1. p \in 1..L
      BY <1>5
    <2> QED BY <1>1, <2>1 DEF Parted, NodesShape
  <1>7. \A a \in 1..Len(S[p].keys) : S[p].keys[a] # x
    <2> DEFINE ks == S[p].keys
    <2>1. ks \in Seq(Int) /\ Len(ks) \in Nat
      BY <1>5, NodeFields
    <2>2. /\ b \in 1..(Len(ks) + 1)
          /\ \A a \in 1..(b - 1) : ks[a] < x
          /\ \A a \in b..Len(ks) : x < ks[a]
      BY <1>5 DEF Fits
    <2> HIDE DEF ks
    <2>3. \A a \in 1..Len(ks) : a \in 1..(b - 1) \/ a \in b..Len(ks)
      BY <2>1, <2>2
    <2>4. \A a \in 1..Len(ks) : ks[a] \in Int
      BY <2>1
    <2>5. \A a \in 1..Len(ks) : ks[a] # x
      BY <1>5, <2>2, <2>3, <2>4
    <2> QED BY <2>5 DEF ks
  <1>8. c.op = "split" /\ c.key = x /\ c.value = 0 /\ c.at = p /\ c.targ = L
    BY DEF Splitting
  <1>9. c = Splitting(c.key, c.value, c.at, c.targ)
    BY DEF Splitting
  <1>10. Virtual(S, c) = u
    BY <1>8 DEF Virtual, Hang
  <1> HIDE DEF c, u, p, L
  <1>11. p \in 1..L /\ L \in 0..L /\ L # NoNode /\ L \in Nat /\ 0 \in Nat
    BY <1>5 DEF NoNode
  <1>12. Full(S[p], x, 0, L)
    BY <1>5, <1>6, <1>7, <1>11 DEF Full, p
  <1>13. SplitCall(S, c)
    BY <1>8, <1>9, <1>11, <1>12 DEF SplitCall, L
  <1>14. Over(c) = p /\ Stored(list, c) = Range(list)
    BY <1>8 DEF Over, Stored
  <1>15. Built(S, rt, list, c, d, h)
    BY <1>2, <1>3, <1>10, <1>13, <1>14 DEF Built
  <1> QED BY <1>15 DEF c, p, L

\* The tree when the root was split.
LEMMA BuiltGrown ==
  ASSUME NEW S, NEW at, NEW x, NEW list, NEW d, NEW h, NEW D,
         SplitDone(S, at, at, x, Range(list), list, d, h, D)
  PROVE  /\ Grow(S, at, x) \in Seq(Node)
         /\ Len(Grow(S, at, x)) = Len(S) + 1
         /\ \E e, g : Built(Grow(S, at, x), Len(S) + 1, list, Idle, e, g)
  <1> DEFINE u == Grow(S, at, x)
             e == GrowKeys(d, Len(S))
             g == GrowHeights(h, at, Len(S))
  <1>1. Parted(S, at, at, d, h, x, D) /\ Contents(S, Range(list), list) /\ x \in Range(list)
    BY DEF SplitDone
  <1>2. Tree(u, Len(S) + 1, NoNode, e, g)
    BY <1>1, GrowTree
  <1>3. Contents(u, Range(list), list)
    BY <1>1, GrowContents
  <1>4. u \in Seq(Node)
    BY <1>2 DEF Tree
  <1>5. Len(u) = Len(S) + 1
    <2>1. S \in Seq(Node) /\ at \in 1..(Len(S) - 1) /\ x \in Keys
      BY <1>1 DEF Parted
    <2> QED BY <2>1, GrowNodes DEF NodesGrown
  <1> HIDE DEF u, e, g
  <1>6. Idle.op # "split" /\ Idle.op # "find"
    BY DEF Idle
  <1>7. Virtual(u, Idle) = u /\ Over(Idle) = NoNode /\ Stored(list, Idle) = Range(list)
    BY <1>4, <1>6, VirtualSame DEF Stored
  <1>8. Built(u, Len(S) + 1, list, Idle, e, g)
    BY <1>2, <1>3, <1>7 DEF Built
  <1> QED BY <1>4, <1>5, <1>8 DEF u
-----------------------------------------------------------------------------
(* The actions keep the invariant.                                         *)

\* The first inode makes a tree of one leaf.
LEMMA FirstLeaf ==
  ASSUME NEW k \in Keys
  PROVE  LET n == [parent |-> NoNode, is_leaf |-> TRUE, keys |-> <<k>>, values |-> <<1>>, children |-> << >>]
         IN  << n >> \in Seq(Node) /\ \E d, h : Built(<< n >>, 1, <<k>>, Idle, d, h)
  <1> DEFINE ks == <<k>>
             vs == <<1>>
             cs == << >>
             K == Seq(Keys)
             V == Seq(Nat)
             n == [parent |-> NoNode, is_leaf |-> TRUE, keys |-> ks, values |-> vs, children |-> cs]
             t == << n >>
             d == [i \in 1..1 |-> Keys]
             h == [i \in 1..1 |-> 0]
             list == <<k>>
  <1>1. ks \in K /\ Len(ks) = 1 /\ ks[1] = k
    OBVIOUS
  <1>2. vs \in V /\ Len(vs) = 1 /\ vs[1] = 1 /\ cs \in V
    OBVIOUS
  <1>3. Node = [parent : Nat, is_leaf : BOOLEAN, keys : K, values : V, children : V] /\ NoNode \in Nat
    BY DEF Node, NoNode
  <1>4. cs = << >> /\ list = ks
    OBVIOUS
  <1> HIDE DEF ks, vs, cs, K, V
  <1>5. n \in Node
    BY <1>1, <1>2, <1>3
  <1>6. n.parent = NoNode /\ n.is_leaf = TRUE /\ n.keys = ks /\ n.values = vs /\ n.children = cs
    OBVIOUS
  <1> HIDE DEF n
  <1>7. t \in Seq(Node) /\ Len(t) = 1 /\ t[1] = n
    BY <1>5
  <1>8. NodeShape(n, ORDER - 1)
    <2>1. 1 \in 1..(ORDER - 1)
      BY IndexAssumption
    <2>2. Sorted(ks)
      BY <1>1 DEF Sorted
    <2>3. Len(n.keys) \in 1..(ORDER - 1) /\ Sorted(n.keys)
      BY <1>1, <1>6, <2>1, <2>2
    <2>4. n.is_leaf /\ Len(n.values) = Len(n.keys) /\ n.children = << >>
      BY <1>1, <1>2, <1>4, <1>6
    <2> QED BY <2>3, <2>4 DEF NodeShape
  <1>9. d \in [1..1 -> SUBSET Keys] /\ d[1] = Keys /\ h \in [1..1 -> Nat] /\ h[1] = 0
    OBVIOUS
  <1>10. \A i \in 1..1 : i = 1 /\ i # NoNode
    BY DEF NoNode
  <1> HIDE DEF d, h, t
  <1>11. Tree(t, 1, NoNode, d, h)
    <2>1. \A i \in 1..Len(t) : NodeShape(t[i], IF i = NoNode THEN ORDER ELSE ORDER - 1)
      BY <1>7, <1>8, <1>10
    <2>2. \A a \in 1..Len(ks) : ks[a] \in d[1]
      BY <1>1, <1>9
    <2>3. \A i \in 1..Len(t) : \A a \in 1..Len(t[i].keys) : t[i].keys[a] \in d[i]
      BY <1>6, <1>7, <1>10, <2>2
    <2>4. \A i \in 1..Len(t) : (t[i].is_leaf <=> h[i] = 0) /\ h[i] <= h[1]
      BY <1>6, <1>7, <1>9, <1>10
    <2>5. \A i \in 1..Len(t) : i = 1
      BY <1>7, <1>10
    <2>6. t[1].parent = NoNode /\ t[1].is_leaf /\ 1 \in 1..Len(t) /\ h[1] < Len(t)
      BY <1>6, <1>7, <1>9
    <2>7. \A i, j \in 1..Len(t) : i = j
      BY <2>5
    <2> QED BY <1>7, <1>9, <2>1, <2>3, <2>4, <2>5, <2>6, <2>7 DEF Tree
  <1>12. Contents(t, Range(list), list)
    <2>1. Len(list) = 1 /\ list[1] = k
      OBVIOUS
    <2>2. Range(list) = {k}
      BY <2>1 DEF Range
    <2> HIDE DEF list
    <2>3. \A i \in 1..Len(t) : i = 1
      BY <1>7, <1>10
    <2>4. \A a \in 1..Len(t[1].keys) : a = 1
      <3>1. Len(t[1].keys) = 1
        BY <1>1, <1>6, <1>7
      <3>2. \A a \in 1..1 : a = 1
        OBVIOUS
      <3> QED BY <3>1, <3>2
    <2>5. t[1].keys[1] = k /\ t[1].values[1] = 1 /\ t[1].is_leaf /\ 1 \in 1..Len(t) /\ 1 \in 1..Len(t[1].keys)
      BY <1>1, <1>2, <1>6, <1>7
    <2>6. 1 \in 1..Len(list)
      BY <2>1
    <2>7. \A i \in 1..Len(t) : \A a \in 1..Len(t[i].keys) : t[i].keys[a] \in Range(list)
      BY <2>2, <2>3, <2>4, <2>5
    <2>8. \A i \in 1..Len(t) : t[i].is_leaf => \A a \in 1..Len(t[i].keys) :
            t[i].values[a] \in 1..Len(list) /\ list[t[i].values[a]] = t[i].keys[a]
      BY <2>1, <2>3, <2>4, <2>5, <2>6
    <2>9. \A y \in Range(list) : \E i \in 1..Len(t) : \E a \in 1..Len(t[i].keys) :
            t[i].is_leaf /\ t[i].keys[a] = y
      BY <2>2, <2>5
    <2> QED BY <2>7, <2>8, <2>9 DEF Contents
  <1>13. Idle.op # "split" /\ Idle.op # "find"
    BY DEF Idle
  <1>14. Virtual(t, Idle) = t /\ Over(Idle) = NoNode /\ Stored(list, Idle) = Range(list)
    BY <1>7, <1>13, VirtualSame DEF Stored
  <1>15. Built(t, 1, list, Idle, d, h)
    BY <1>11, <1>12, <1>14 DEF Built
  <1> QED BY <1>7, <1>15 DEF t, n, ks, vs, cs

\* The places of the inodes stay when the list gets longer.
LEMMA ContentsAppend ==
  ASSUME NEW t, NEW K, NEW list \in Seq(Keys), NEW k \in Keys, Contents(t, K, list)
  PROVE  Contents(t, K, Append(list, k))
  <1> DEFINE u == Append(list, k)
  <1>1. Len(u) = Len(list) + 1 /\ Len(list) \in Nat /\ \A a \in 1..Len(list) : u[a] = list[a]
    OBVIOUS
  <1> HIDE DEF u
  <1>2. \A a \in 1..Len(list) : a \in 1..Len(u) /\ u[a] = list[a]
    BY <1>1
  <1>3. Contents(t, K, u)
    BY <1>2 DEF Contents
  <1> QED BY <1>3 DEF u

\* A search begins at the root.
LEMMA BuiltFinding ==
  ASSUME NEW t \in Seq(Node), NEW rt, NEW list \in Seq(Keys), NEW d, NEW h, Built(t, rt, list, Idle, d, h),
         NEW k \in Keys, k \notin Range(list)
  PROVE  Built(t, rt, Append(list, k), Finding(k, Len(list) + 1, rt), d, h)
  <1> DEFINE u == Append(list, k)
             c == Finding(k, Len(list) + 1, rt)
  <1>1. Len(u) = Len(list) + 1 /\ Len(list) \in Nat /\ u[Len(list) + 1] = k
        /\ u # << >> /\ DOMAIN u = 1..(Len(list) + 1) /\ DOMAIN list = 1..Len(list)
        /\ \A a \in 1..Len(list) : u[a] = list[a]
    OBVIOUS
  <1>2. c.op = "find" /\ c.key = k /\ c.at = rt /\ c = Finding(k, Len(list) + 1, c.at)
    BY DEF Finding
  <1>3. Idle.op # "split" /\ Idle.op # "find"
    BY DEF Idle
  <1>4. Virtual(t, Idle) = t /\ Over(Idle) = NoNode /\ Stored(list, Idle) = Range(list)
    BY <1>3, VirtualSame DEF Stored
  <1>5. Tree(t, rt, NoNode, d, h) /\ Contents(t, Range(list), list)
    BY <1>4 DEF Built
  <1>6. Contents(t, Range(list), u)
    BY <1>5, ContentsAppend
  <1> HIDE DEF u, c
  <1>7. Virtual(t, c) = t /\ Over(c) = NoNode
    BY <1>2, VirtualSame
  <1>8. Range(u) \ {k} = Range(list)
    <2>1. \A a \in 1..(Len(list) + 1) : a = Len(list) + 1 \/ a \in 1..Len(list)
      BY <1>1
    <2>2. \A a \in 1..Len(list) : a \in 1..(Len(list) + 1)
      BY <1>1
    <2> QED BY <1>1, <2>1, <2>2 DEF Range
  <1>9. Stored(u, c) = Range(list)
    BY <1>2, <1>8 DEF Stored
  <1>10. FindCall(t, u, c, d)
    <2>1. rt \in 1..Len(t) /\ d[rt] = Keys
      BY <1>5 DEF Tree
    <2> QED BY <1>1, <1>2, <2>1 DEF FindCall
  <1>11. Built(t, rt, u, c, d, h)
    BY <1>5, <1>6, <1>7, <1>9, <1>10 DEF Built
  <1> QED BY <1>11 DEF u, c

\* The list of inodes when one is added.
LEMMA ListAppend ==
  ASSUME NEW list \in Seq(Keys), \A a, b \in 1..Len(list) : a # b => list[a] # list[b],
         NEW k \in Keys, k \notin Range(list)
  PROVE  LET u == Append(list, k)
         IN  u \in Seq(Keys) /\ \A a, b \in 1..Len(u) : a # b => u[a] # u[b]
  <1> DEFINE u == Append(list, k)
  <1>1. /\ u \in Seq(Keys) /\ Len(u) = Len(list) + 1 /\ Len(list) \in Nat /\ u[Len(list) + 1] = k
        /\ DOMAIN list = 1..Len(list) /\ \A a \in 1..Len(list) : u[a] = list[a]
    OBVIOUS
  <1>2. \A a \in 1..Len(list) : list[a] # k
    BY <1>1 DEF Range
  <1> HIDE DEF u
  <1>3. \A a \in 1..Len(u) : a = Len(list) + 1 \/ a \in 1..Len(list)
    BY <1>1
  <1>4. \A a, b \in 1..Len(u) : a # b => u[a] # u[b]
    BY <1>1, <1>2, <1>3
  <1> QED BY <1>1, <1>4 DEF u

\* add_inode keeps the invariant.
LEMMA AddInode ==
  ASSUME IndexInv, NEW k \in Keys, add_inode(k)
  PROVE  IndexInv'
  <1>1. /\ node \in Seq(Node) /\ root \in 0..Len(node) /\ inodes \in Seq(Keys)
        /\ \A a, b \in 1..Len(inodes) : a # b => inodes[a] # inodes[b]
        /\ root = NoNode => node = << >> /\ inodes = << >>
        /\ root # NoNode => \E d, h : Built(node, root, inodes, call, d, h)
    BY DEF IndexInv
  <1>2. call = Idle /\ k \notin Range(inodes) /\ inodes' = Append(inodes, k)
    BY DEF add_inode
  <1>3. inodes' \in Seq(Keys) /\ \A a, b \in 1..Len(inodes') : a # b => inodes'[a] # inodes'[b]
    BY <1>1, <1>2, ListAppend
  <1>4. CASE root = NoNode
    <2> DEFINE n == [parent |-> NoNode, is_leaf |-> TRUE, keys |-> <<k>>, values |-> <<1>>, children |-> << >>]
    <2>1. node' = << n >> /\ root' = 1 /\ call' = Idle
      BY <1>2, <1>4 DEF add_inode
    <2>2. inodes' = <<k>>
      BY <1>1, <1>2, <1>4
    <2>3. << n >> \in Seq(Node) /\ \E d, h : Built(<< n >>, 1, <<k>>, Idle, d, h)
      BY FirstLeaf
    <2>4. Len(<< n >>) = 1
      OBVIOUS
    <2> HIDE DEF n
    <2>5. root' \in 0..Len(node') /\ root' # NoNode
      BY <2>1, <2>4 DEF NoNode
    <2>6. \E d, h : Built(node', root', inodes', call', d, h)
      BY <2>1, <2>2, <2>3
    <2> QED BY <1>3, <2>1, <2>3, <2>5, <2>6 DEF IndexInv
  <1>5. CASE root # NoNode
    <2>1. call' = Finding(k, Len(inodes) + 1, root) /\ node' = node /\ root' = root
      BY <1>5 DEF add_inode
    <2>2. PICK d, h : Built(node, root, inodes, Idle, d, h)
      BY <1>1, <1>2, <1>5
    <2>3. Built(node, root, Append(inodes, k), Finding(k, Len(inodes) + 1, root), d, h)
      BY <1>1, <1>2, <2>2, BuiltFinding
    <2>4. \E e, g : Built(node', root', inodes', call', e, g)
      BY <1>2, <2>1, <2>3
    <2> QED BY <1>1, <1>3, <1>5, <2>1, <2>4 DEF IndexInv
  <1> QED BY <1>4, <1>5

\* The call of a search, and the tree while it goes on.
LEMMA FindTree ==
  ASSUME NEW t \in Seq(Node), NEW rt, NEW list \in Seq(Keys), NEW c, NEW d, NEW h,
         Built(t, rt, list, c, d, h), c.op = "find"
  PROVE  /\ FindCall(t, list, c, d)
         /\ Tree(t, rt, NoNode, d, h)
         /\ Contents(t, Range(list) \ {c.key}, list)
         /\ Virtual(t, c) = t
  <1>1. Idle.op # "find"
    BY DEF Idle
  <1>2. SplitCall(t, c) => c.op = "split"
    BY SplitOp
  <1>3. FindCall(t, list, c, d)
    BY <1>1, <1>2 DEF Built
  <1>4. Virtual(t, c) = t /\ Over(c) = NoNode
    BY VirtualSame
  <1>5. Tree(t, rt, NoNode, d, h) /\ Contents(t, Stored(list, c), list)
    BY <1>4 DEF Built
  <1> QED BY <1>3, <1>4, <1>5 DEF Stored

\* One turn of find_node_to_store stays on the way to the leaf of the key.
LEMMA BuiltDeeper ==
  ASSUME NEW t \in Seq(Node), NEW rt, NEW list \in Seq(Keys), NEW c, NEW d, NEW h,
         Built(t, rt, list, c, d, h), c.op = "find", ~t[c.at].is_leaf
  PROVE  Built(t, rt, list, [c EXCEPT !.at = ChildToStore(t[c.at], c.key)], d, h)
  <1> DEFINE i == c.at
             k == c.key
             n == t[i]
             j == ChildToStore(n, k)
             e == [c EXCEPT !.at = j]
  <1>1. /\ FindCall(t, list, c, d) /\ Tree(t, rt, NoNode, d, h)
        /\ Contents(t, Range(list) \ {k}, list)
    BY FindTree
  <1>2. /\ i \in 1..Len(t) /\ k \in d[i] /\ list # << >>
        /\ c = Finding(list[Len(list)], Len(list), i) /\ k = list[Len(list)]
    BY <1>1 DEF FindCall, Finding
  <1>3. e = Finding(list[Len(list)], Len(list), j)
    BY <1>2 DEF Finding
  <1>4. e.op = "find" /\ e.key = k /\ e.at = j
    BY <1>2, <1>3 DEF Finding
  <1> HIDE DEF e
  <1>5. k \in Keys /\ k \in Int
    <2>1. d[i] \in SUBSET Keys
      BY <1>1, <1>2, TreeNode
    <2> QED BY <1>2, <2>1, IndexAssumption
  <1>6. \A a \in 2..Len(n.keys) : n.keys[a] # k
    <2>1. \A a \in 1..Len(n.keys) : n.keys[a] \in Range(list) \ {k}
      BY <1>1, <1>2 DEF Contents
    <2> QED BY <2>1
  <1>7. /\ n \in Node /\ Sorted(n.keys) /\ Len(n.keys) >= 1 /\ Len(n.children) = Len(n.keys) + 1
    BY <1>1, <1>2, TreeNode
  <1> HIDE DEF i, k, n, j
  <1>8. PICK b \in 1..Len(n.children) : j = n.children[b] /\ Between(n, b, k)
    BY <1>5, <1>6, <1>7, StoreChild DEF j
  <1>9. j \in 1..Len(t) /\ k \in d[j]
    <2>1. ~t[i].is_leaf /\ b \in 1..Len(t[i].children)
      BY <1>8 DEF i, n
    <2>2. LET y == t[i].children[b]
          IN  y \in 1..Len(t) /\ \A z \in Keys : z \in d[y] <=> (z \in d[i] /\ Between(t[i], b, z))
      BY <1>1, <1>2, <2>1, TreeChild
    <2> QED BY <1>2, <1>5, <1>8, <2>2 DEF n
  <1>10. FindCall(t, list, e, d)
    BY <1>2, <1>3, <1>4, <1>9 DEF FindCall
  <1>11. Virtual(t, e) = t /\ Over(e) = NoNode /\ Stored(list, e) = Range(list) \ {k}
    BY <1>4, VirtualSame DEF Stored
  <1>12. Built(t, rt, list, e, d, h)
    BY <1>1, <1>10, <1>11 DEF Built
  <1> QED BY <1>12 DEF e, j, n, k, i

\* The call c has found the leaf of its key, and the place in it.
LeafFound(t, list, c, d) ==
  LET n == t[c.at]
      p == Position(n, c.key)
  IN  /\ c.at \in 1..Len(t) /\ c.key \in d[c.at] /\ c.key \in Keys /\ c.value \in Nat
      /\ c.value \in 1..Len(list) /\ list[c.value] = c.key
      /\ n \in Node /\ NodeShape(n, ORDER - 1)
      /\ \A a \in 1..Len(n.keys) : n.keys[a] # c.key
      /\ Fits(n.keys, p, c.key)
      /\ NodeInserted(insert_into_node(n, c.key, c.value, NoNode), n, p, c.key, c.value, NoNode)

\* The leaf that a search ends at.
LEMMA FoundLeaf ==
  ASSUME NEW t \in Seq(Node), NEW rt, NEW list \in Seq(Keys), NEW c, NEW d, NEW h,
         Built(t, rt, list, c, d, h), c.op = "find", t[c.at].is_leaf
  PROVE  LeafFound(t, list, c, d)
  <1> DEFINE i == c.at
             k == c.key
             v == c.value
             n == t[i]
             p == Position(n, k)
  <1>1. /\ FindCall(t, list, c, d) /\ Tree(t, rt, NoNode, d, h)
        /\ Contents(t, Range(list) \ {k}, list)
    BY FindTree
  <1>2. /\ i \in 1..Len(t) /\ k \in d[i] /\ list # << >> /\ k = list[Len(list)] /\ v = Len(list)
    BY <1>1 DEF FindCall, Finding
  <1>3. v \in Nat /\ v \in 1..Len(list)
    BY <1>2
  <1>4. k \in Keys /\ k \in Int
    <2>1. d[i] \in SUBSET Keys
      BY <1>1, <1>2, TreeNode
    <2> QED BY <1>2, <2>1, IndexAssumption
  <1>5. \A a \in 1..Len(n.keys) : n.keys[a] # k
    <2>1. \A a \in 1..Len(n.keys) : n.keys[a] \in Range(list) \ {k}
      BY <1>1, <1>2 DEF Contents
    <2> QED BY <2>1
  <1>6. n \in Node /\ NodeShape(n, ORDER - 1)
    <2>1. i # NoNode
      BY <1>2 DEF NoNode
    <2> QED BY <1>1, <1>2, <2>1 DEF Tree
  <1> HIDE DEF i, k, v, n, p
  <1>7. Fits(n.keys, p, k)
    <2>1. n.keys \in Seq(Int) /\ Sorted(n.keys)
      BY <1>6, NodeFields DEF NodeShape
    <2> QED BY <1>4, <1>5, <2>1, PositionFits DEF p
  <1>8. NodeInserted(insert_into_node(n, k, v, NoNode), n, p, k, v, NoNode)
    <2>1. NoNode \in Nat
      BY DEF NoNode
    <2>2. /\ n.is_leaf => Len(n.values) = Len(n.keys)
          /\ ~n.is_leaf => Len(n.children) = Len(n.keys) + 1
      BY <1>6 DEF NodeShape
    <2> QED BY <1>3, <1>4, <1>6, <2>1, <2>2, InsertedNode DEF p
  <1> QED BY <1>2, <1>3, <1>4, <1>5, <1>6, <1>7, <1>8 DEF i, k, v, n, p, LeafFound

\* The nodes t when the call c has put its key into the leaf.
StoredNodes(t, c) == [t EXCEPT ![c.at] = insert_into_node(@, c.key, c.value, NoNode)]

\* The leaf with the key put in leaves a tree, which may be over-full there.
LEMMA BuiltStored ==
  ASSUME NEW t \in Seq(Node), NEW rt, NEW list \in Seq(Keys), NEW c, NEW d, NEW h,
         Built(t, rt, list, c, d, h), c.op = "find", t[c.at].is_leaf,
         NEW over, over = c.at \/ (over = NoNode /\ ~IsFull(t[c.at]))
  PROVE  LET u == StoredNodes(t, c)
         IN  /\ u \in Seq(Node) /\ Len(u) = Len(t)
             /\ Tree(u, rt, over, d, h) /\ Contents(u, Range(list), list)
  <1> DEFINE i == c.at
             k == c.key
             v == c.value
             n == t[i]
             p == Position(n, k)
             w == insert_into_node(n, k, v, NoNode)
             u == StoredNodes(t, c)
  <1>1. /\ i \in 1..Len(t) /\ k \in d[i] /\ k \in Keys /\ v \in 1..Len(list) /\ list[v] = k
        /\ n \in Node /\ NodeShape(n, ORDER - 1) /\ Fits(n.keys, p, k) /\ NodeInserted(w, n, p, k, v, NoNode)
    <2>1. LeafFound(t, list, c, d)
      BY FoundLeaf
    <2> QED BY <2>1 DEF LeafFound
  <1>2. Tree(t, rt, NoNode, d, h) /\ Contents(t, Range(list) \ {k}, list)
    BY FindTree
  <1>3. u = [t EXCEPT ![i] = w]
    BY DEF StoredNodes
  <1>4. n.is_leaf /\ (over = i \/ (over = NoNode /\ ~IsFull(t[i])))
    OBVIOUS
  <1>5. (Range(list) \ {k}) \cup {k} = Range(list)
    BY <1>1 DEF Range
  <1> HIDE DEF u, w, p, k, v
  <1>6. w \in Node
    BY <1>1 DEF NodeInserted
  <1>7. u \in Seq(Node) /\ Len(u) = Len(t) /\ u[i] = w /\ \A j \in 1..Len(t) : j # i => u[j] = t[j]
    BY <1>1, <1>3, <1>6
  <1> HIDE DEF i
  <1>8. LeafStored(u, t, i, p, k, v)
    BY <1>1, <1>7 DEF LeafStored
  <1>9. Tree(u, rt, over, d, h)
    BY <1>1, <1>2, <1>4, <1>8, StoreTree
  <1>10. Contents(u, (Range(list) \ {k}) \cup {k}, list)
    BY <1>1, <1>2, <1>4, <1>8, StoreContents
  <1> QED BY <1>5, <1>7, <1>9, <1>10 DEF u

\* Storing the key in a leaf that has room.
LEMMA BuiltInLeaf ==
  ASSUME NEW t \in Seq(Node), NEW rt, NEW list \in Seq(Keys), NEW c, NEW d, NEW h,
         Built(t, rt, list, c, d, h), c.op = "find", t[c.at].is_leaf, ~IsFull(t[c.at])
  PROVE  Built(StoredNodes(t, c), rt, list, Idle, d, h)
  <1> DEFINE u == StoredNodes(t, c)
  <1>1. u \in Seq(Node) /\ Tree(u, rt, NoNode, d, h) /\ Contents(u, Range(list), list)
    BY BuiltStored
  <1> HIDE DEF u
  <1>2. Idle.op # "split" /\ Idle.op # "find"
    BY DEF Idle
  <1>3. Virtual(u, Idle) = u /\ Over(Idle) = NoNode /\ Stored(list, Idle) = Range(list)
    BY <1>1, <1>2, VirtualSame DEF Stored
  <1>4. Built(u, rt, list, Idle, d, h)
    BY <1>1, <1>3 DEF Built
  <1> QED BY <1>4 DEF u

\* A full leaf is split.
LEMMA BuiltSplitting ==
  ASSUME NEW t \in Seq(Node), NEW rt, NEW list \in Seq(Keys), NEW c, NEW d, NEW h,
         Built(t, rt, list, c, d, h), c.op = "find", t[c.at].is_leaf, IsFull(t[c.at])
  PROVE  Built(t, rt, list, Splitting(c.key, c.value, c.at, NoNode), d, h)
  <1> DEFINE u == StoredNodes(t, c)
             e == Splitting(c.key, c.value, c.at, NoNode)
             n == t[c.at]
  <1>1. u \in Seq(Node) /\ Len(u) = Len(t) /\ Tree(u, rt, c.at, d, h) /\ Contents(u, Range(list), list)
    BY BuiltStored
  <1>2. /\ c.at \in 1..Len(t) /\ c.key \in Keys /\ c.value \in Nat /\ n \in Node
        /\ NodeShape(n, ORDER - 1) /\ \A a \in 1..Len(n.keys) : n.keys[a] # c.key
    <2>1. LeafFound(t, list, c, d)
      BY FoundLeaf
    <2> QED BY <2>1 DEF LeafFound
  <1>3. e.op = "split" /\ e.key = c.key /\ e.value = c.value /\ e.at = c.at /\ e.targ = NoNode
    BY DEF Splitting
  <1>4. e = Splitting(e.key, e.value, e.at, e.targ)
    BY DEF Splitting
  <1>5. NoNode \in Nat /\ NoNode \in 0..Len(t)
    BY DEF NoNode
  <1>6. IsFull(n) /\ n.is_leaf
    OBVIOUS
  <1> HIDE DEF e, n
  <1>7. Full(n, c.key, c.value, NoNode)
    BY <1>2, <1>5, <1>6 DEF Full
  <1>8. SplitCall(t, e)
    BY <1>2, <1>3, <1>4, <1>5, <1>7 DEF SplitCall, n
  <1>9. Virtual(t, e) = u
    <2> DEFINE w == insert_into_node(t[c.at], c.key, c.value, NoNode)
               V == Virtual(t, e)
    <2>1. V = [i \in 1..Len(t) |-> IF i = c.at THEN insert_into_node(t[i], c.key, c.value, NoNode)
                                   ELSE IF i = NoNode THEN [t[i] EXCEPT !.parent = c.at] ELSE t[i]]
      BY <1>3 DEF Virtual
    <2>2. V[c.at] = w
      BY <1>2, <2>1
    <2>3. \A i \in 1..Len(t) : i # c.at => V[i] = t[i]
      <3>1. \A i \in 1..Len(t) : i # NoNode
        BY DEF NoNode
      <3> QED BY <2>1, <3>1
    <2>4. u = [t EXCEPT ![c.at] = w]
      BY DEF StoredNodes
    <2> HIDE DEF w
    <2>5. u = [i \in 1..Len(t) |-> IF i = c.at THEN w ELSE t[i]]
      <3>1. DOMAIN t = 1..Len(t)
        OBVIOUS
      <3> QED BY <2>4, <3>1
    <2>6. V = [i \in 1..Len(t) |-> V[i]]
      BY <2>1
    <2> HIDE DEF V, u
    <2>7. \A i \in 1..Len(t) : V[i] = IF i = c.at THEN w ELSE t[i]
      BY <2>2, <2>3
    <2>8. V = u
      BY <2>5, <2>6, <2>7
    <2> QED BY <2>8 DEF V
  <1>10. Over(e) = c.at /\ Stored(list, e) = Range(list)
    BY <1>3 DEF Over, Stored
  <1>11. Built(t, rt, list, e, d, h)
    BY <1>1, <1>8, <1>9, <1>10 DEF Built
  <1> QED BY <1>11 DEF e

\* find_node_to_store keeps the invariant.
LEMMA FindNode ==
  ASSUME IndexInv, find_node_to_store
  PROVE  IndexInv'
  <1>1. /\ node \in Seq(Node) /\ root \in 0..Len(node) /\ inodes \in Seq(Keys)
        /\ \A a, b \in 1..Len(inodes) : a # b => inodes[a] # inodes[b]
        /\ root = NoNode => call = Idle
        /\ root # NoNode => \E d, h : Built(node, root, inodes, call, d, h)
    BY DEF IndexInv
  <1>2. /\ call.op = "find" /\ ~node[call.at].is_leaf
        /\ call' = [call EXCEPT !.at = ChildToStore(node[call.at], call.key)]
        /\ node' = node /\ root' = root /\ inodes' = inodes
    BY DEF find_node_to_store
  <1>3. root # NoNode
    BY <1>1, <1>2 DEF Idle
  <1>4. PICK d, h : Built(node, root, inodes, call, d, h)
    BY <1>1, <1>3
  <1>5. Built(node, root, inodes, [call EXCEPT !.at = ChildToStore(node[call.at], call.key)], d, h)
    BY <1>1, <1>2, <1>4, BuiltDeeper
  <1>6. \E e, g : Built(node', root', inodes', call', e, g)
    BY <1>2, <1>5
  <1> QED BY <1>1, <1>2, <1>3, <1>6 DEF IndexInv

\* store_in_leaf keeps the invariant.
LEMMA StoreInLeaf ==
  ASSUME IndexInv, store_in_leaf
  PROVE  IndexInv'
  <1>1. /\ node \in Seq(Node) /\ root \in 0..Len(node) /\ inodes \in Seq(Keys)
        /\ \A a, b \in 1..Len(inodes) : a # b => inodes[a] # inodes[b]
        /\ root = NoNode => call = Idle
        /\ root # NoNode => \E d, h : Built(node, root, inodes, call, d, h)
    BY DEF IndexInv
  <1>2. call.op = "find" /\ node[call.at].is_leaf /\ root' = root /\ inodes' = inodes
    BY DEF store_in_leaf
  <1>3. root # NoNode
    BY <1>1, <1>2 DEF Idle
  <1>4. PICK d, h : Built(node, root, inodes, call, d, h)
    BY <1>1, <1>3
  <1>5. CASE IsFull(node[call.at])
    <2>1. call' = Splitting(call.key, call.value, call.at, NoNode) /\ node' = node
      BY <1>5 DEF store_in_leaf
    <2>2. Built(node, root, inodes, Splitting(call.key, call.value, call.at, NoNode), d, h)
      BY <1>1, <1>2, <1>4, <1>5, BuiltSplitting
    <2>3. \E e, g : Built(node', root', inodes', call', e, g)
      BY <1>2, <2>1, <2>2
    <2> QED BY <1>1, <1>2, <1>3, <2>1, <2>3 DEF IndexInv
  <1>6. CASE ~IsFull(node[call.at])
    <2> DEFINE u == StoredNodes(node, call)
    <2>1. call' = Idle /\ node' = u
      BY <1>6 DEF store_in_leaf, StoredNodes
    <2>2. Built(u, root, inodes, Idle, d, h)
      BY <1>1, <1>2, <1>4, <1>6, BuiltInLeaf
    <2>3. u \in Seq(Node) /\ Len(u) = Len(node)
      BY <1>1, <1>2, <1>4, <1>6, BuiltStored
    <2> HIDE DEF u
    <2>4. \E e, g : Built(node', root', inodes', call', e, g)
      BY <1>2, <2>1, <2>2
    <2> QED BY <1>1, <1>2, <1>3, <2>1, <2>3, <2>4 DEF IndexInv
  <1> QED BY <1>5, <1>6

\* The last node of S put into the parent p, as split_insert_node does it.
InsertedInto(S, p, x, v) == [S EXCEPT ![p] = insert_into_node(@, x, v, Len(S)), ![Len(S)].parent = p]

\* This hangs the new half into the parent.
LEMMA HangIs ==
  ASSUME NEW S \in Seq(Node), NEW p \in 1..(Len(S) - 1), NEW x, NEW v
  PROVE  InsertedInto(S, p, x, v) = Hang(S, p, x, v)
  <1> DEFINE L == Len(S)
             w == insert_into_node(S[p], x, v, L)
             f == [S EXCEPT ![p] = w]
             e(i) == [S[i] EXCEPT !.parent = p]
  <1>1. L \in Nat /\ DOMAIN S = 1..L /\ p \in 1..L /\ L \in 1..L /\ p # L
    OBVIOUS
  <1>2. InsertedInto(S, p, x, v) = [f EXCEPT ![L] = [f[L] EXCEPT !.parent = p]]
    BY DEF InsertedInto
  <1>3. Hang(S, p, x, v) = [i \in 1..L |-> IF i = p THEN w ELSE IF i = L THEN e(i) ELSE S[i]]
    BY DEF Hang
  <1> HIDE DEF L, w
  <1>4. f = [i \in 1..L |-> IF i = p THEN w ELSE S[i]]
    BY <1>1
  <1>5. f[L] = S[L] /\ f[p] = w /\ \A i \in 1..L : i # p => f[i] = S[i]
    BY <1>1, <1>4
  <1>6. [f[L] EXCEPT !.parent = p] = e(L) /\ DOMAIN f = 1..L
    BY <1>4, <1>5
  <1> HIDE DEF f, e
  <1>7. [f EXCEPT ![L] = e(L)] = [i \in 1..L |-> IF i = L THEN e(L) ELSE f[i]]
    BY <1>1, <1>6
  <1>8. \A i \in 1..L : (IF i = L THEN e(L) ELSE f[i]) = (IF i = p THEN w ELSE IF i = L THEN e(i) ELSE S[i])
    BY <1>1, <1>5
  <1>9. [f EXCEPT ![L] = e(L)] = [i \in 1..L |-> IF i = p THEN w ELSE IF i = L THEN e(i) ELSE S[i]]
    BY <1>7, <1>8
  <1> QED BY <1>2, <1>3, <1>6, <1>9 DEF L

\* The code's way to make a new root.
LEMMA GrowIs ==
  ASSUME NEW S \in Seq(Node), NEW at \in 1..(Len(S) - 1), NEW x \in Keys
  PROVE  Append([S EXCEPT ![at].parent = Len(S) + 1, ![Len(S)].parent = Len(S) + 1],
                RootOver(at, Len(S), x)) = Grow(S, at, x)
  <1> DEFINE L == Len(S)
             e(i) == [S[i] EXCEPT !.parent = L + 1]
             f == [S EXCEPT ![at] = e(at)]
             g == [f EXCEPT ![L] = [f[L] EXCEPT !.parent = L + 1]]
             o == RootOver(at, L, x)
             u == Grow(S, at, x)
             A == Append(g, o)
  <1>1. L \in Nat /\ DOMAIN S = 1..L /\ at \in 1..L /\ L \in 1..L /\ at # L /\ \A i \in 1..L : S[i] \in Node
    OBVIOUS
  <1>2. [S EXCEPT ![at].parent = L + 1, ![L].parent = L + 1] = g
    OBVIOUS
  <1>3. u = [i \in 1..(L + 1) |-> IF i = L + 1 THEN o ELSE IF i = at \/ i = L THEN e(i) ELSE S[i]]
    BY DEF Grow
  <1>4. u \in Seq(Node) /\ Len(u) = L + 1 /\ u[L + 1] = o
    BY GrowNodes DEF NodesGrown
  <1> HIDE DEF L, o, u
  <1>5. f[L] = S[L] /\ f[at] = e(at) /\ (\A i \in 1..L : i # at => f[i] = S[i]) /\ DOMAIN f = 1..L
    BY <1>1
  <1>6. [f[L] EXCEPT !.parent = L + 1] = e(L)
    BY <1>5
  <1> HIDE DEF f
  <1>7. /\ DOMAIN g = 1..L /\ g[L] = e(L) /\ g[at] = e(at) /\ g = [i \in 1..L |-> g[i]]
        /\ \A i \in 1..L : i # at /\ i # L => g[i] = S[i]
    BY <1>1, <1>5, <1>6
  <1> HIDE DEF g
  <1>8. L + 1 \in Nat /\ \A i \in 1..L : e(i) \in Node
    BY <1>1, ParentUpdate
  <1>9. o \in Node
    <2>1. L + 1 \in 1..Len(u)
      BY <1>1, <1>4
    <2> QED BY <1>4, <2>1
  <1>10. \A i \in 1..L : g[i] \in Node
    BY <1>1, <1>7, <1>8
  <1> HIDE DEF e
  <1>11. g \in Seq(Node) /\ Len(g) = L
    <2>1. [i \in 1..L |-> g[i]] \in Seq(Node) /\ Len([i \in 1..L |-> g[i]]) = L
      BY <1>1, <1>10
    <2> QED BY <1>7, <2>1
  <1>12. A \in Seq(Node) /\ Len(A) = L + 1 /\ A[L + 1] = o /\ \A i \in 1..L : A[i] = g[i]
    BY <1>9, <1>11
  <1>13. \A i \in 1..L : (i = at \/ i = L => u[i] = e(i)) /\ (i # at /\ i # L => u[i] = S[i])
    <2>1. \A i \in 1..L : i \in 1..(L + 1) /\ i # L + 1
      BY <1>1
    <2> QED BY <1>3, <2>1
  <1>14. \A i \in 1..(L + 1) : A[i] = u[i]
    <2>1. \A i \in 1..(L + 1) : i = L + 1 \/ i \in 1..L
      BY <1>1
    <2> QED BY <1>4, <1>7, <1>12, <1>13, <2>1
  <1> HIDE DEF A
  <1>15. A = u
    BY <1>4, <1>12, <1>14, SeqEqual
  <1> QED BY <1>2, <1>15 DEF A, u, o, L

\* split_insert_node keeps the invariant.
LEMMA SplitInsert ==
  ASSUME IndexInv, split_insert_node
  PROVE  IndexInv'
  <1> DEFINE at == call.at
             S == AfterSplit(at, call.key, call.value, call.targ)
             L == Len(S)
             x == node[at].keys[med_idx + 1]
             p == node[at].parent
  <1>1. /\ node \in Seq(Node) /\ root \in 0..Len(node) /\ inodes \in Seq(Keys)
        /\ \A a, b \in 1..Len(inodes) : a # b => inodes[a] # inodes[b]
        /\ root = NoNode => call = Idle
        /\ root # NoNode => \E d, h : Built(node, root, inodes, call, d, h)
    BY DEF IndexInv
  <1>2. call.op = "split" /\ inodes' = inodes
    BY DEF split_insert_node
  <1>3. root # NoNode
    BY <1>1, <1>2 DEF Idle
  <1>4. PICK d, h : Built(node, root, inodes, call, d, h)
    BY <1>1, <1>3
  <1>5. SplitCall(node, call)
    <2>1. call # Idle
      BY <1>2 DEF Idle
    <2>2. ~FindCall(node, inodes, call, d)
      BY <1>2 DEF FindCall, Finding
    <2> QED BY <1>4, <2>1, <2>2 DEF Built
  <1>6. PICK e, g : SplitDone(S, root, at, x, Range(inodes), inodes, e, g, d[at])
    BY <1>1, <1>4, <1>5, SplitParts
  <1>7. S[at].parent = p /\ (at = root <=> p = NoNode) /\ (p # NoNode => S[p].keys = node[p].keys)
    BY <1>1, <1>4, <1>5, SplitParents
  <1>8. call.value \in Nat
    BY <1>5 DEF SplitCall, Full
  <1>9. \/ /\ p = NoNode
           /\ node' = Append([S EXCEPT ![at].parent = L + 1, ![L].parent = L + 1], RootOver(at, L, x))
           /\ root' = L + 1
           /\ call' = Idle
        \/ /\ p # NoNode /\ ~IsFull(node[p])
           /\ node' = [S EXCEPT ![p] = insert_into_node(@, x, call.value, L), ![L].parent = p]
           /\ call' = Idle /\ root' = root
        \/ /\ p # NoNode /\ IsFull(node[p])
           /\ node' = S
           /\ call' = Splitting(x, 0, p, L) /\ root' = root
    BY DEF split_insert_node, RootOver
  <1>10. p # NoNode => (IsFull(S[p]) <=> IsFull(node[p]))
    BY <1>7 DEF IsFull, num_keys
  <1> HIDE DEF S, L, x, p, at
  <1>11. /\ S \in Seq(Node) /\ L \in Nat /\ at \in 1..(L - 1) /\ root \in 1..(L - 1) /\ x \in Keys
         /\ Parted(S, root, at, e, g, x, d[at])
    <2>1. Parted(S, root, at, e, g, x, d[at])
      BY <1>6 DEF SplitDone
    <2> QED BY <2>1 DEF Parted, L
  <1>12. CASE p = NoNode
    <2>1. node' = Append([S EXCEPT ![at].parent = L + 1, ![L].parent = L + 1], RootOver(at, L, x))
          /\ root' = L + 1 /\ call' = Idle
      BY <1>9, <1>12
    <2>2. node' = Grow(S, at, x)
      BY <1>11, <2>1, GrowIs DEF L
    <2>3. SplitDone(S, at, at, x, Range(inodes), inodes, e, g, d[at])
      BY <1>6, <1>7, <1>12
    <2>4. /\ Grow(S, at, x) \in Seq(Node) /\ Len(Grow(S, at, x)) = L + 1
          /\ \E y, z : Built(Grow(S, at, x), L + 1, inodes, Idle, y, z)
      BY <2>3, BuiltGrown DEF L
    <2>5. root' \in 0..Len(node') /\ root' # NoNode
      BY <1>11, <2>1, <2>2, <2>4 DEF NoNode
    <2>6. node' \in Seq(Node) /\ \E y, z : Built(node', root', inodes', call', y, z)
      BY <1>2, <2>1, <2>2, <2>4
    <2> QED BY <1>1, <1>2, <2>5, <2>6 DEF IndexInv
  <1>13. CASE p # NoNode /\ ~IsFull(node[p])
    <2> DEFINE u == Hang(S, p, x, call.value)
    <2>1. node' = [S EXCEPT ![p] = insert_into_node(@, x, call.value, L), ![L].parent = p]
          /\ call' = Idle /\ root' = root
      BY <1>9, <1>13
    <2>2. p \in 1..(L - 1)
      <3>1. at # root
        BY <1>7, <1>13
      <3>2. \E c : Slot(S, e, g, at, x, d[at], c)
        BY <1>11, <3>1 DEF Parted
      <3> QED BY <1>7, <3>2 DEF Slot, L
    <2>3. node' = u
      <3>1. S \in Seq(Node) /\ p \in 1..(Len(S) - 1)
        BY <1>11, <2>2 DEF L
      <3>2. InsertedInto(S, p, x, call.value) = Hang(S, p, x, call.value)
        BY <3>1, HangIs
      <3>3. node' = InsertedInto(S, p, x, call.value)
        BY <2>1 DEF InsertedInto, L
      <3> QED BY <3>2, <3>3
    <2>4. at # root /\ ~IsFull(S[S[at].parent])
      BY <1>7, <1>10, <1>13
    <2>5. u \in Seq(Node) /\ Len(u) = L /\ Built(u, root, inodes, Idle, e, g)
      BY <1>6, <1>7, <1>8, <2>4, BuiltHung DEF L
    <2> HIDE DEF u
    <2>6. root' \in 0..Len(node') /\ root' # NoNode
      BY <1>3, <1>11, <2>1, <2>3, <2>5
    <2>7. node' \in Seq(Node) /\ \E y, z : Built(node', root', inodes', call', y, z)
      BY <1>2, <2>1, <2>3, <2>5
    <2> QED BY <1>1, <1>2, <2>6, <2>7 DEF IndexInv
  <1>14. CASE p # NoNode /\ IsFull(node[p])
    <2>1. node' = S /\ call' = Splitting(x, 0, p, L) /\ root' = root
      BY <1>9, <1>14
    <2>2. at # root /\ IsFull(S[S[at].parent])
      BY <1>7, <1>10, <1>14
    <2>3. Built(S, root, inodes, Splitting(x, 0, p, L), e, g)
      BY <1>6, <1>7, <2>2, BuiltCarried DEF L
    <2>4. root' \in 0..Len(node') /\ root' # NoNode
      <3>1. root \in 0..L
        BY <1>11
      <3> QED BY <1>3, <2>1, <3>1 DEF L
    <2>5. node' \in Seq(Node) /\ \E y, z : Built(node', root', inodes', call', y, z)
      BY <1>2, <1>11, <2>1, <2>3
    <2> QED BY <1>1, <1>2, <2>4, <2>5 DEF IndexInv
  <1> QED BY <1>12, <1>13, <1>14

\* Every step keeps the invariant.
LEMMA IndexStep == IndexInv /\ [Next]_vars => IndexInv'
  <1> SUFFICES ASSUME IndexInv, [Next]_vars PROVE IndexInv'
    OBVIOUS
  <1>1. ASSUME NEW k \in Keys, add_inode(k) PROVE IndexInv'
    BY <1>1, AddInode
  <1>2. CASE find_node_to_store
    BY <1>2, FindNode
  <1>3. CASE store_in_leaf
    BY <1>3, StoreInLeaf
  <1>4. CASE split_insert_node
    BY <1>4, SplitInsert
  <1>5. CASE UNCHANGED vars
    BY <1>5 DEF vars, IndexInv
  <1> QED BY <1>1, <1>2, <1>3, <1>4, <1>5 DEF Next, Step

\* What is built keeps the invariant: in every state the tree, with what is
\* on its way up in place, is a search tree of the inodes added so far.
THEOREM IndexInvariant == Spec => []IndexInv
  <1>1. Init => IndexInv
    BY DEF Init, IndexInv, NoNode
  <1> QED BY <1>1, IndexStep, PTL DEF Spec
-----------------------------------------------------------------------------
(* The tree between two insertions.                                        *)

\* The tree when no call is under way.
LEMMA IdleTree ==
  ASSUME IndexInv, call = Idle, root # NoNode
  PROVE  \E d, h : Tree(node, root, NoNode, d, h) /\ Contents(node, Range(inodes), inodes)
  <1>1. node \in Seq(Node) /\ Idle.op # "split" /\ Idle.op # "find"
    BY DEF IndexInv, Idle
  <1>2. PICK d, h : Built(node, root, inodes, Idle, d, h)
    BY DEF IndexInv
  <1>3. Virtual(node, Idle) = node /\ Over(Idle) = NoNode /\ Stored(inodes, Idle) = Range(inodes)
    BY <1>1, VirtualSame DEF Stored
  <1> QED BY <1>2, <1>3 DEF Built

\* Induction on the places of a path.
LEMMA UpTo ==
  ASSUME NEW N \in Nat, NEW T, 0 \in T, \A i \in 1..N : i - 1 \in T => i \in T
  PROVE  \A i \in 0..N : i \in T
  <1> DEFINE F == {i \in 0..N : i \notin T}
  <1>1. SUFFICES ASSUME F # {} PROVE FALSE
    OBVIOUS
  <1>2. PICK i \in F : \A j \in F : i <= j
    <2>1. F \subseteq Nat
      OBVIOUS
    <2> QED BY <1>1, <2>1, Least
  <1>3. i \in 0..N /\ i \notin T /\ i # 0
    BY <1>2
  <1>4. i \in 1..N /\ i - 1 \in 0..N /\ ~(i <= i - 1)
    BY <1>3
  <1>5. i - 1 \in T
    BY <1>2, <1>4
  <1> QED BY <1>3, <1>4, <1>5

\* The path f starts at r and goes from each place to the next by nx.
Follows(f, N, S, r, nx) ==
  /\ f \in [0..N -> S]
  /\ f[0] = r
  /\ \A i \in 1..N : f[i] = nx[f[i - 1]]

\* There is such a path.
LEMMA PathExists ==
  ASSUME NEW S, NEW nx \in [S -> S], NEW r \in S, NEW N \in Nat
  PROVE  \E f : Follows(f, N, S, r, nx)
  <1> DEFINE Q(m) == \E f \in [0..m -> S] : f[0] = r /\ \A i \in 1..m : f[i] = nx[f[i - 1]]
             T == {m \in Nat : Q(m)}
  <1>1. 0 \in T
    <2> DEFINE f == [i \in 0..0 |-> r]
    <2>1. f \in [0..0 -> S] /\ f[0] = r /\ \A i \in 1..0 : f[i] = nx[f[i - 1]]
      OBVIOUS
    <2> HIDE DEF f
    <2> QED BY <2>1
  <1>2. ASSUME NEW m \in 1..N, m - 1 \in T PROVE m \in T
    <2>1. PICK f \in [0..(m - 1) -> S] : f[0] = r /\ \A i \in 1..(m - 1) : f[i] = nx[f[i - 1]]
      BY <1>2
    <2> DEFINE g == [i \in 0..m |-> IF i = m THEN nx[f[m - 1]] ELSE f[i]]
    <2>2. /\ \A i \in 0..m : i = m \/ i \in 0..(m - 1)
          /\ \A i \in 0..(m - 1) : i \in 0..m /\ i # m
          /\ m \in 0..m /\ 0 \in 0..(m - 1) /\ m - 1 \in 0..(m - 1) /\ m \in Nat
          /\ \A i \in 1..m : (i = m \/ i \in 1..(m - 1)) /\ i \in 0..m /\ i - 1 \in 0..(m - 1)
      OBVIOUS
    <2>3. g[m] = nx[f[m - 1]] /\ \A i \in 0..(m - 1) : g[i] = f[i]
      BY <2>2
    <2>4. nx[f[m - 1]] \in S
      BY <2>1, <2>2
    <2>5. g \in [0..m -> S]
      BY <2>1, <2>2, <2>4
    <2> HIDE DEF g
    <2>6. g[0] = r
      BY <2>1, <2>2, <2>3
    <2>7. ASSUME NEW i \in 1..m PROVE g[i] = nx[g[i - 1]]
      <3>1. CASE i = m
        BY <2>2, <2>3, <3>1
      <3>2. CASE i \in 1..(m - 1)
        <4>1. i \in 0..(m - 1) /\ i - 1 \in 0..(m - 1)
          BY <2>2, <3>2
        <4> QED BY <2>1, <2>3, <3>2, <4>1
      <3> QED BY <2>2, <3>1, <3>2
    <2>8. Q(m)
      BY <2>5, <2>6, <2>7
    <2> QED BY <2>2, <2>8
  <1>3. N \in 0..N
    OBVIOUS
  <1> HIDE DEF T
  <1>4. N \in T
    BY <1>1, <1>2, <1>3, UpTo
  <1> QED BY <1>4 DEF T, Follows

\* The path of the loader for the key k, and of find.
LoadPath(k) ==
  CHOOSE at : at = [i \in 0..Len(node) |->
    IF i = 0 THEN root ELSE IF node[at[i - 1]].is_leaf THEN at[i - 1] ELSE ChildToLoad(node[at[i - 1]], k)]
StorePath(k) ==
  CHOOSE at : at = [i \in 0..Len(node) |->
    IF i = 0 THEN root ELSE IF node[at[i - 1]].is_leaf THEN at[i - 1] ELSE ChildToStore(node[at[i - 1]], k)]

\* The searches follow these paths.
LEMMA DescendPaths ==
  ASSUME NEW k
  PROVE  /\ Descend(ChildToLoad, k) = LoadPath(k)[Len(node)]
         /\ Descend(ChildToStore, k) = StorePath(k)[Len(node)]
  <1>1. Descend(ChildToLoad, k) = LoadPath(k)[Len(node)]
    BY DEF Descend, LoadPath
  <1>2. Descend(ChildToStore, k) = StorePath(k)[Len(node)]
    BY DEF Descend, StorePath
  <1> QED BY <1>1, <1>2

\* The loader's path for k starts at the root and goes from child to child.
LEMMA LoadPathSteps ==
  ASSUME NEW d, NEW h, Tree(node, root, NoNode, d, h), NEW k \in Int
  PROVE  /\ LoadPath(k)[0] = root
         /\ \A i \in 1..Len(node) :
              LET j == LoadPath(k)[i - 1]
              IN  /\ node[j].is_leaf => LoadPath(k)[i] = j
                  /\ ~node[j].is_leaf => LoadPath(k)[i] = ChildToLoad(node[j], k)
  <1> DEFINE L == Len(node)
             S == 1..L
             nx == [j \in S |-> IF node[j].is_leaf THEN j ELSE ChildToLoad(node[j], k)]
             Eq(f) == f = [i \in 0..L |-> IF i = 0 THEN root ELSE IF node[f[i - 1]].is_leaf THEN f[i - 1]
                                          ELSE ChildToLoad(node[f[i - 1]], k)]
             a == LoadPath(k)
  <1>1. L \in Nat /\ root \in S
    BY DEF Tree
  <1>2. ASSUME NEW j \in S, ~node[j].is_leaf PROVE ChildToLoad(node[j], k) \in S
    <2>1. node[j] \in Node /\ Sorted(node[j].keys) /\ Len(node[j].keys) >= 1
          /\ Len(node[j].children) = Len(node[j].keys) + 1
      BY <1>2, TreeNode
    <2>2. PICK c \in 1..Len(node[j].children) : ChildToLoad(node[j], k) = node[j].children[c]
      BY <2>1, LoadChild
    <2>3. node[j].children[c] \in 1..Len(node)
      BY <1>2, TreeChild
    <2> QED BY <2>2, <2>3
  <1> HIDE DEF S, L
  <1>3. nx \in [S -> S]
    BY <1>2
  <1>4. PICK f \in [0..L -> S] : f[0] = root /\ \A i \in 1..L : f[i] = nx[f[i - 1]]
    <2> HIDE DEF nx
    <2>1. \E f : Follows(f, L, S, root, nx)
      BY <1>1, <1>3, PathExists
    <2> QED BY <2>1 DEF Follows
  <1>5. \A i \in 0..L : i # 0 => i \in 1..L /\ i - 1 \in 0..L /\ f[i - 1] \in S
    BY <1>1, <1>4
  <1>6. \A i \in 0..L : f[i] = IF i = 0 THEN root ELSE IF node[f[i - 1]].is_leaf THEN f[i - 1]
                               ELSE ChildToLoad(node[f[i - 1]], k)
    BY <1>4, <1>5
  <1>7. Eq(f)
    BY <1>4, <1>6
  <1>8. a = CHOOSE g : Eq(g)
    BY DEF LoadPath, L
  <1>9. Eq(a)
    <2> HIDE DEF Eq, a
    <2> QED BY <1>7, <1>8
  <1> HIDE DEF a
  <1>10. 0 \in 0..L /\ \A i \in 1..L : i \in 0..L /\ i # 0
    BY <1>1
  <1>11. a[0] = root
    BY <1>9, <1>10
  <1>12. \A i \in 1..L : /\ node[a[i - 1]].is_leaf => a[i] = a[i - 1]
                         /\ ~node[a[i - 1]].is_leaf => a[i] = ChildToLoad(node[a[i - 1]], k)
    BY <1>9, <1>10
  <1> QED BY <1>11, <1>12 DEF a, L

\* So does the path of find.
LEMMA StorePathSteps ==
  ASSUME NEW d, NEW h, Tree(node, root, NoNode, d, h), NEW k \in Int
  PROVE  /\ StorePath(k)[0] = root
         /\ \A i \in 1..Len(node) :
              LET j == StorePath(k)[i - 1]
              IN  /\ node[j].is_leaf => StorePath(k)[i] = j
                  /\ ~node[j].is_leaf => StorePath(k)[i] = ChildToStore(node[j], k)
  <1> DEFINE L == Len(node)
             S == 1..L
             nx == [j \in S |-> IF node[j].is_leaf THEN j ELSE ChildToStore(node[j], k)]
             Eq(f) == f = [i \in 0..L |-> IF i = 0 THEN root ELSE IF node[f[i - 1]].is_leaf THEN f[i - 1]
                                          ELSE ChildToStore(node[f[i - 1]], k)]
             a == StorePath(k)
  <1>1. L \in Nat /\ root \in S
    BY DEF Tree
  <1>2. ASSUME NEW j \in S, ~node[j].is_leaf PROVE ChildToStore(node[j], k) \in S
    <2>1. node[j] \in Node /\ Sorted(node[j].keys) /\ Len(node[j].keys) >= 1
          /\ Len(node[j].children) = Len(node[j].keys) + 1
      BY <1>2, TreeNode
    <2>2. \E c \in 1..Len(node[j].children) : ChildToStore(node[j], k) = node[j].children[c]
      <3>1. CASE \A b \in 2..Len(node[j].keys) : node[j].keys[b] # k
        BY <2>1, <3>1, StoreChild
      <3>2. CASE \E b \in 2..Len(node[j].keys) : node[j].keys[b] = k
        BY <2>1, <3>2, StoreAstray
      <3> QED BY <3>1, <3>2
    <2>3. PICK c \in 1..Len(node[j].children) : ChildToStore(node[j], k) = node[j].children[c]
      BY <2>2
    <2>4. node[j].children[c] \in 1..Len(node)
      BY <1>2, TreeChild
    <2> QED BY <2>3, <2>4
  <1> HIDE DEF S, L
  <1>3. nx \in [S -> S]
    BY <1>2
  <1>4. PICK f \in [0..L -> S] : f[0] = root /\ \A i \in 1..L : f[i] = nx[f[i - 1]]
    <2> HIDE DEF nx
    <2>1. \E f : Follows(f, L, S, root, nx)
      BY <1>1, <1>3, PathExists
    <2> QED BY <2>1 DEF Follows
  <1>5. \A i \in 0..L : i # 0 => i \in 1..L /\ i - 1 \in 0..L /\ f[i - 1] \in S
    BY <1>1, <1>4
  <1>6. \A i \in 0..L : f[i] = IF i = 0 THEN root ELSE IF node[f[i - 1]].is_leaf THEN f[i - 1]
                               ELSE ChildToStore(node[f[i - 1]], k)
    BY <1>4, <1>5
  <1>7. Eq(f)
    BY <1>4, <1>6
  <1>8. a = CHOOSE g : Eq(g)
    BY DEF StorePath, L
  <1>9. Eq(a)
    <2> HIDE DEF Eq, a
    <2> QED BY <1>7, <1>8
  <1> HIDE DEF a
  <1>10. 0 \in 0..L /\ \A i \in 1..L : i \in 0..L /\ i # 0
    BY <1>1
  <1>11. a[0] = root
    BY <1>9, <1>10
  <1>12. \A i \in 1..L : /\ node[a[i - 1]].is_leaf => a[i] = a[i - 1]
                         /\ ~node[a[i - 1]].is_leaf => a[i] = ChildToStore(node[a[i - 1]], k)
    BY <1>9, <1>10
  <1> QED BY <1>11, <1>12 DEF a, L

\* The node j at place i of a path: one level lower at every step until it
\* is a leaf.
OnPath(h, i, j) ==
  /\ j \in 1..Len(node)
  /\ h[j] = h[root] - i \/ (h[j] = 0 /\ h[root] <= i)

\* One step of a path.
LEMMA PathStep ==
  ASSUME NEW d, NEW h, Tree(node, root, NoNode, d, h), NEW i \in 1..Len(node), NEW j, OnPath(h, i - 1, j)
  PROVE  /\ node[j].is_leaf => OnPath(h, i, j)
         /\ ~node[j].is_leaf => \A c \in 1..Len(node[j].children) : OnPath(h, i, node[j].children[c])
  <1>1. /\ j \in 1..Len(node) /\ (h[j] = h[root] - (i - 1) \/ (h[j] = 0 /\ h[root] <= i - 1))
    BY DEF OnPath
  <1>2. h[j] \in Nat /\ h[root] \in Nat /\ root \in 1..Len(node) /\ (node[j].is_leaf <=> h[j] = 0)
    BY <1>1 DEF Tree
  <1>3. ASSUME node[j].is_leaf PROVE OnPath(h, i, j)
    <2>1. h[j] = 0 /\ h[root] <= i
      BY <1>1, <1>2, <1>3
    <2> QED BY <1>1, <2>1 DEF OnPath
  <1>4. ASSUME ~node[j].is_leaf, NEW c \in 1..Len(node[j].children) PROVE OnPath(h, i, node[j].children[c])
    <2> DEFINE y == node[j].children[c]
    <2>1. y \in 1..Len(node) /\ h[j] = h[y] + 1 /\ h[y] \in Nat
      BY <1>1, <1>4, TreeChild
    <2> HIDE DEF y
    <2>2. h[y] = h[root] - i
      BY <1>1, <1>2, <1>4, <2>1
    <2>3. OnPath(h, i, y)
      BY <2>1, <2>2 DEF OnPath
    <2> QED BY <2>3 DEF y
  <1> QED BY <1>3, <1>4

\* A path is long enough to reach a leaf.
LEMMA PathEnds ==
  ASSUME NEW d, NEW h, Tree(node, root, NoNode, d, h), NEW j, OnPath(h, Len(node), j)
  PROVE  j \in 1..Len(node) /\ h[j] = 0 /\ node[j].is_leaf
  <1>1. /\ j \in 1..Len(node) /\ (h[j] = h[root] - Len(node) \/ h[j] = 0)
    BY DEF OnPath
  <1>2. /\ h[j] \in Nat /\ h[root] \in Nat /\ h[root] < Len(node) /\ Len(node) \in Nat
        /\ (node[j].is_leaf <=> h[j] = 0)
    BY <1>1 DEF Tree
  <1>3. h[j] = 0
    BY <1>1, <1>2
  <1> QED BY <1>1, <1>2, <1>3

\* The loader comes to the leaf to which the key belongs.
LEMMA LoadEnds ==
  ASSUME NEW d, NEW h, Tree(node, root, NoNode, d, h), NEW k \in Keys
  PROVE  LET j == Descend(ChildToLoad, k)
         IN  j \in 1..Len(node) /\ h[j] = 0 /\ node[j].is_leaf /\ k \in d[j]
  <1> DEFINE L == Len(node)
             a == LoadPath(k)
             T == {i \in 0..L : OnPath(h, i, a[i]) /\ k \in d[a[i]]}
  <1>1. k \in Int /\ L \in Nat /\ root \in 1..L /\ d[root] = Keys /\ h[root] \in Nat
    BY IndexAssumption DEF Tree
  <1>2. /\ a[0] = root
        /\ \A i \in 1..L : /\ node[a[i - 1]].is_leaf => a[i] = a[i - 1]
                           /\ ~node[a[i - 1]].is_leaf => a[i] = ChildToLoad(node[a[i - 1]], k)
    BY <1>1, LoadPathSteps
  <1> HIDE DEF a
  <1>3. 0 \in T
    <2>1. 0 \in 0..L /\ h[root] = h[root] - 0
      BY <1>1
    <2> QED BY <1>1, <1>2, <2>1 DEF OnPath
  <1>4. ASSUME NEW i \in 1..L, i - 1 \in T PROVE i \in T
    <2> DEFINE j == a[i - 1]
    <2>1. OnPath(h, i - 1, j) /\ k \in d[j] /\ i \in 0..L
      BY <1>1, <1>4
    <2>2. /\ node[j].is_leaf => a[i] = j
          /\ ~node[j].is_leaf => a[i] = ChildToLoad(node[j], k)
      BY <1>2
    <2> HIDE DEF j
    <2>3. j \in 1..Len(node)
      BY <2>1 DEF OnPath
    <2>4. CASE node[j].is_leaf
      BY <2>1, <2>2, <2>4, PathStep
    <2>5. CASE ~node[j].is_leaf
      <3>1. node[j] \in Node /\ Sorted(node[j].keys) /\ Len(node[j].keys) >= 1
            /\ Len(node[j].children) = Len(node[j].keys) + 1
        BY <2>3, <2>5, TreeNode
      <3>2. PICK c \in 1..Len(node[j].children) :
              ChildToLoad(node[j], k) = node[j].children[c] /\ Between(node[j], c, k)
        BY <1>1, <3>1, LoadChild
      <3>3. OnPath(h, i, node[j].children[c])
        BY <2>1, <2>5, PathStep
      <3>4. k \in d[node[j].children[c]]
        BY <2>1, <2>3, <2>5, <3>2, TreeChild
      <3> QED BY <2>1, <2>2, <2>5, <3>2, <3>3, <3>4
    <2> QED BY <2>4, <2>5
  <1>5. L \in 0..L
    BY <1>1
  <1> HIDE DEF T
  <1>6. L \in T
    BY <1>1, <1>3, <1>4, <1>5, UpTo
  <1>7. OnPath(h, L, a[L]) /\ k \in d[a[L]]
    BY <1>6 DEF T
  <1>8. a[L] \in 1..L /\ h[a[L]] = 0 /\ node[a[L]].is_leaf
    BY <1>7, PathEnds
  <1>9. Descend(ChildToLoad, k) = a[L]
    BY DescendPaths DEF a
  <1> QED BY <1>7, <1>8, <1>9

\* The keys of the leaf to which a key belongs.
LEMMA LeafOfKey ==
  ASSUME NEW d, NEW h, Tree(node, root, NoNode, d, h), Contents(node, Range(inodes), inodes),
         NEW k \in Keys, NEW j \in 1..Len(node), h[j] = 0, k \in d[j]
  PROVE  (\E a \in 1..Len(node[j].keys) : node[j].keys[a] = k) <=> k \in Range(inodes)
  <1>1. ASSUME NEW a \in 1..Len(node[j].keys), node[j].keys[a] = k PROVE k \in Range(inodes)
    BY <1>1 DEF Contents
  <1>2. ASSUME k \in Range(inodes) PROVE \E a \in 1..Len(node[j].keys) : node[j].keys[a] = k
    <2>1. PICK i \in 1..Len(node) : \E a \in 1..Len(node[i].keys) : node[i].is_leaf /\ node[i].keys[a] = k
      BY <1>2 DEF Contents
    <2>2. h[i] = 0 /\ k \in d[i]
      BY <2>1 DEF Tree
    <2>3. i = j
      BY <2>2 DEF Tree
    <2> QED BY <2>1, <2>3
  <1> QED BY <1>1, <1>2

\* find goes astray at a node of which the key is a separator behind the
\* first, and does not come back.
LEMMA AstrayEnds ==
  ASSUME NEW d, NEW h, Tree(node, root, NoNode, d, h), NEW k \in Keys,
         NEW q \in 1..Len(node), ~node[q].is_leaf, NEW b \in 2..Len(node[q].keys), node[q].keys[b] = k
  PROVE  LET j == Descend(ChildToStore, k)
         IN  j \in 1..Len(node) /\ k \notin d[j]
  <1> DEFINE L == Len(node)
             a == StorePath(k)
             T == {i \in 0..L : OnPath(h, i, a[i]) /\ (h[a[i]] < h[q] => k \notin d[a[i]])}
  <1>1. k \in Int /\ L \in Nat /\ root \in 1..L /\ h[root] \in Nat /\ h[q] \in Nat /\ h[q] <= h[root] /\ h[q] # 0
    <2>1. k \in Int
      BY IndexAssumption
    <2>2. L \in Nat /\ root \in 1..L
      BY DEF Tree
    <2>3. \A i \in 1..L : h[i] \in Nat /\ h[i] <= h[root] /\ (node[i].is_leaf <=> h[i] = 0)
      BY DEF Tree
    <2> QED BY <2>1, <2>2, <2>3
  <1>2. /\ a[0] = root
        /\ \A i \in 1..L : /\ node[a[i - 1]].is_leaf => a[i] = a[i - 1]
                           /\ ~node[a[i - 1]].is_leaf => a[i] = ChildToStore(node[a[i - 1]], k)
    BY <1>1, StorePathSteps
  <1>3. k \in d[q]
    <2>1. Len(node[q].keys) \in Nat
      BY TreeNode
    <2>2. b \in 1..Len(node[q].keys)
      BY <2>1
    <2> QED BY <2>2 DEF Tree
  <1> HIDE DEF a
  <1>4. 0 \in T
    <2>1. 0 \in 0..L /\ h[root] = h[root] - 0 /\ ~(h[root] < h[q])
      BY <1>1
    <2> QED BY <1>1, <1>2, <2>1 DEF OnPath
  <1>5. ASSUME NEW i \in 1..L, i - 1 \in T PROVE i \in T
    <2> DEFINE j == a[i - 1]
    <2>1. OnPath(h, i - 1, j) /\ (h[j] < h[q] => k \notin d[j]) /\ i \in 0..L
      BY <1>1, <1>5
    <2>2. /\ node[j].is_leaf => a[i] = j
          /\ ~node[j].is_leaf => a[i] = ChildToStore(node[j], k)
      BY <1>2
    <2> HIDE DEF j
    <2>3. j \in 1..Len(node) /\ h[j] \in Nat
      BY <2>1 DEF OnPath, Tree
    <2>4. CASE node[j].is_leaf
      BY <2>1, <2>2, <2>4, PathStep
    <2>5. CASE ~node[j].is_leaf
      <3>1. node[j] \in Node /\ Sorted(node[j].keys) /\ Len(node[j].keys) >= 1
            /\ Len(node[j].children) = Len(node[j].keys) + 1
        BY <2>3, <2>5, TreeNode
      <3>2. PICK c \in 1..Len(node[j].children) :
              /\ ChildToStore(node[j], k) = node[j].children[c]
              /\ j = q => ~Between(node[j], c, k)
        <4>1. CASE \A e \in 2..Len(node[j].keys) : node[j].keys[e] # k
          <5>1. j # q
            BY <4>1
          <5> QED BY <1>1, <3>1, <4>1, <5>1, StoreChild
        <4>2. CASE \E e \in 2..Len(node[j].keys) : node[j].keys[e] = k
          BY <1>1, <3>1, <4>2, StoreAstray
        <4> QED BY <4>1, <4>2
      <3> DEFINE y == node[j].children[c]
      <3>3. OnPath(h, i, y)
        BY <2>1, <2>5, PathStep
      <3>4. y \in 1..L /\ h[j] = h[y] + 1 /\ h[y] \in Nat /\ (k \in d[y] => k \in d[j] /\ Between(node[j], c, k))
        <4>1. /\ y \in 1..Len(node) /\ h[j] = h[y] + 1 /\ h[y] \in Nat
              /\ \A z \in Keys : z \in d[y] <=> (z \in d[j] /\ Between(node[j], c, z))
          BY <2>3, <2>5, TreeChild
        <4> QED BY <4>1
      <3> HIDE DEF y
      <3>5. ASSUME h[y] < h[q], k \in d[y] PROVE FALSE
        <4>1. k \in d[j] /\ Between(node[j], c, k)
          BY <3>4, <3>5
        <4>2. h[j] = h[q]
          <5>1. ~(h[j] < h[q])
            BY <2>1, <4>1
          <5>2. h[j] = h[y] + 1 /\ h[y] \in Nat /\ h[q] \in Nat /\ h[y] < h[q]
            BY <1>1, <3>4, <3>5
          <5> QED BY <5>1, <5>2
        <4>3. j = q
          BY <1>3, <2>3, <4>1, <4>2 DEF Tree
        <4> QED BY <3>2, <4>1, <4>3
      <3>6. a[i] = y
        BY <2>2, <2>5, <3>2 DEF y
      <3> QED BY <2>1, <3>3, <3>5, <3>6
    <2> QED BY <2>4, <2>5
  <1>6. L \in 0..L
    BY <1>1
  <1> HIDE DEF T
  <1>7. L \in T
    BY <1>1, <1>4, <1>5, <1>6, UpTo
  <1>8. OnPath(h, L, a[L]) /\ (h[a[L]] < h[q] => k \notin d[a[L]])
    BY <1>7 DEF T
  <1>9. a[L] \in 1..L /\ h[a[L]] = 0
    BY <1>8, PathEnds
  <1>10. Descend(ChildToStore, k) = a[L]
    BY DescendPaths DEF a
  <1> QED BY <1>1, <1>8, <1>9, <1>10

\* find comes to the leaf to which the key belongs when the key is no such
\* separator.
LEMMA StoreEnds ==
  ASSUME NEW d, NEW h, Tree(node, root, NoNode, d, h), NEW k \in Keys,
         \A q \in 1..Len(node) : ~node[q].is_leaf => \A b \in 2..Len(node[q].keys) : node[q].keys[b] # k
  PROVE  LET j == Descend(ChildToStore, k)
         IN  j \in 1..Len(node) /\ h[j] = 0 /\ k \in d[j]
  <1> DEFINE L == Len(node)
             a == StorePath(k)
             T == {i \in 0..L : OnPath(h, i, a[i]) /\ k \in d[a[i]]}
  <1>1. k \in Int /\ L \in Nat /\ root \in 1..L /\ d[root] = Keys /\ h[root] \in Nat
    BY IndexAssumption DEF Tree
  <1>2. /\ a[0] = root
        /\ \A i \in 1..L : /\ node[a[i - 1]].is_leaf => a[i] = a[i - 1]
                           /\ ~node[a[i - 1]].is_leaf => a[i] = ChildToStore(node[a[i - 1]], k)
    BY <1>1, StorePathSteps
  <1> HIDE DEF a
  <1>3. 0 \in T
    <2>1. 0 \in 0..L /\ h[root] = h[root] - 0
      BY <1>1
    <2> QED BY <1>1, <1>2, <2>1 DEF OnPath
  <1>4. ASSUME NEW i \in 1..L, i - 1 \in T PROVE i \in T
    <2> DEFINE j == a[i - 1]
    <2>1. OnPath(h, i - 1, j) /\ k \in d[j] /\ i \in 0..L
      BY <1>1, <1>4
    <2>2. /\ node[j].is_leaf => a[i] = j
          /\ ~node[j].is_leaf => a[i] = ChildToStore(node[j], k)
      BY <1>2
    <2> HIDE DEF j
    <2>3. j \in 1..Len(node)
      BY <2>1 DEF OnPath
    <2>4. CASE node[j].is_leaf
      BY <2>1, <2>2, <2>4, PathStep
    <2>5. CASE ~node[j].is_leaf
      <3>1. node[j] \in Node /\ Sorted(node[j].keys) /\ Len(node[j].keys) >= 1
            /\ Len(node[j].children) = Len(node[j].keys) + 1
        BY <2>3, <2>5, TreeNode
      <3>2. \A b \in 2..Len(node[j].keys) : node[j].keys[b] # k
        BY <2>3, <2>5
      <3>3. PICK c \in 1..Len(node[j].children) :
              ChildToStore(node[j], k) = node[j].children[c] /\ Between(node[j], c, k)
        BY <1>1, <3>1, <3>2, StoreChild
      <3>4. OnPath(h, i, node[j].children[c])
        BY <2>1, <2>5, PathStep
      <3>5. k \in d[node[j].children[c]]
        BY <2>1, <2>3, <2>5, <3>3, TreeChild
      <3> QED BY <2>1, <2>2, <2>5, <3>3, <3>4, <3>5
    <2> QED BY <2>4, <2>5
  <1>5. L \in 0..L
    BY <1>1
  <1> HIDE DEF T
  <1>6. L \in T
    BY <1>1, <1>3, <1>4, <1>5, UpTo
  <1>7. OnPath(h, L, a[L]) /\ k \in d[a[L]]
    BY <1>6 DEF T
  <1>8. a[L] \in 1..L /\ h[a[L]] = 0
    BY <1>7, PathEnds
  <1>9. Descend(ChildToStore, k) = a[L]
    BY DescendPaths DEF a
  <1> QED BY <1>7, <1>8, <1>9
-----------------------------------------------------------------------------
(* What the runs check.                                                    *)

\* The node n is within its arrays and its children are among L nodes.
InArrays(n, L) ==
  /\ Len(n.keys) \in 1..(ORDER - 1)
  /\ \A c \in 1..Len(n.children) : n.children[c] \in 1..L

\* The nodes between two levels of an insertion.
LEMMA NodesInArrays ==
  ASSUME IndexInv, NEW i \in 1..Len(node)
  PROVE  InArrays(node[i], Len(node))
  <1> DEFINE L == Len(node)
             V == Virtual(node, call)
             n == node[i]
  <1>1. node \in Seq(Node) /\ L \in Nat /\ i # NoNode /\ n \in Node /\ ORDER \in Nat
    BY IndexAssumption DEF IndexInv, NoNode
  <1>2. root # NoNode
    BY DEF IndexInv
  <1>3. PICK d, h : Built(node, root, inodes, call, d, h)
    BY <1>2 DEF IndexInv
  <1>4. Tree(V, root, Over(call), d, h)
    BY <1>3 DEF Built
  <1>5. ASSUME NEW m, m \in Node, m.keys = n.keys, m.children = n.children, m.is_leaf = n.is_leaf,
               Len(V) = L, V[i] = m, i # Over(call)
        PROVE  InArrays(n, L)
    <2>1. NodeShape(m, ORDER - 1)
      BY <1>4, <1>5 DEF Tree
    <2>2. CASE m.is_leaf
      <3>1. n.children = << >>
        BY <1>5, <2>1, <2>2 DEF NodeShape
      <3> QED BY <1>5, <2>1, <3>1 DEF NodeShape, InArrays
    <2>3. CASE ~m.is_leaf
      <3>1. \A c \in 1..Len(m.children) : m.children[c] \in 1..L
        BY <1>4, <1>5, <2>3, TreeChild
      <3> QED BY <1>5, <2>1, <3>1 DEF NodeShape, InArrays
    <2> QED BY <2>2, <2>3
  <1>6. CASE ~SplitCall(node, call)
    <2>1. call.op # "split"
      BY <1>3, <1>6 DEF Built, FindCall, Finding, Idle
    <2>2. V = node /\ Over(call) = NoNode
      BY <1>1, <2>1, VirtualSame
    <2> QED BY <1>1, <1>5, <2>2
  <1>7. CASE SplitCall(node, call)
    <2>1. SplitNodes(V, node, call) /\ Over(call) = call.at
      BY <1>1, <1>7, VirtualSplit
    <2>2. CASE i # call.at
      <3> DEFINE m == IF i = call.targ THEN [n EXCEPT !.parent = call.at] ELSE n
      <3>1. V[i] = m /\ Len(V) = L
        BY <2>1, <2>2 DEF SplitNodes
      <3>2. call.at \in Nat
        BY <1>1, <1>7 DEF SplitCall
      <3>3. m \in Node /\ m.keys = n.keys /\ m.children = n.children /\ m.is_leaf = n.is_leaf
        BY <1>1, <3>2 DEF Node
      <3> HIDE DEF m
      <3> QED BY <1>5, <2>1, <2>2, <3>1, <3>3
    <2>3. CASE i = call.at
      <3> DEFINE k == call.key
                 v == call.value
                 g == call.targ
                 p == Position(n, k)
                 w == insert_into_node(n, k, v, g)
      <3>1. Full(n, k, v, g) /\ V[i] = w /\ Len(V) = L
        BY <1>7, <2>1, <2>3 DEF SplitCall, SplitNodes
      <3> HIDE DEF k, v, g
      <3>2. NodeShape(n, ORDER - 1) /\ n.is_leaf \in BOOLEAN
        BY <1>1, <3>1, NodeFields DEF Full
      <3>3. CASE n.is_leaf
        BY <3>2, <3>3 DEF NodeShape, InArrays
      <3>4. CASE ~n.is_leaf
        <4>1. p \in 1..ORDER /\ NodeInserted(w, n, p, k, v, g)
          BY <3>1, FullPlaces
        <4>2. ~w.is_leaf /\ Inserted(w.children, n.children, p + 1, g) /\ Len(n.children) \in Nat
          BY <1>1, <3>4, <4>1, NodeFields DEF NodeInserted
        <4>3. \A c \in 1..Len(w.children) : w.children[c] \in 1..L
          BY <1>4, <3>1, <4>2, TreeChild
        <4> HIDE DEF p, w
        <4>4. ASSUME NEW c \in 1..Len(n.children) PROVE n.children[c] \in 1..L
          <5>1. CASE c <= p
            <6>1. c \in 1..((p + 1) - 1) /\ c \in 1..(Len(n.children) + 1)
              BY <4>1, <4>2, <5>1
            <6> QED BY <4>2, <4>3, <6>1 DEF Inserted
          <5>2. CASE p < c
            <6>1. c + 1 \in ((p + 1) + 1)..(Len(n.children) + 1) /\ c + 1 \in 1..(Len(n.children) + 1) /\ (c + 1) - 1 = c
              BY <4>1, <4>2, <5>2
            <6> QED BY <4>2, <4>3, <6>1 DEF Inserted
          <5> QED BY <4>1, <5>1, <5>2
        <4> QED BY <3>2, <4>4 DEF NodeShape, InArrays
      <3> QED BY <3>2, <3>3, <3>4
    <2> QED BY <2>2, <2>3
  <1> QED BY <1>6, <1>7

\* Nodes stay within their arrays, children are nodes, and a node that is
\* split is full.
THEOREM TypeCorrect == Spec => []TypeOK
  <1>1. ASSUME IndexInv PROVE TypeOK
    <2>1. node \in Seq(Node) /\ root \in 0..Len(node) /\ inodes \in Seq(Keys) /\ DOMAIN node = 1..Len(node)
      BY <1>1 DEF IndexInv
    <2>0. ASSUME NEW i \in DOMAIN node
          PROVE  num_keys(node[i]) \in 1..(ORDER - 1) /\ Range(node[i].children) \subseteq DOMAIN node
      <3>1. InArrays(node[i], Len(node)) /\ node[i] \in Node
        BY <1>1, <2>1, NodesInArrays
      <3>2. DOMAIN node[i].children = 1..Len(node[i].children)
        BY <3>1, NodeFields
      <3> QED BY <2>1, <3>1, <3>2 DEF InArrays, num_keys, Range
    <2>2. CASE call = Idle
      BY <2>0, <2>1, <2>2 DEF TypeOK, Idle
    <2>3. CASE call # Idle
      <3>1. PICK d, h : Built(node, root, inodes, call, d, h)
        BY <1>1, <2>3 DEF IndexInv
      <3>2. CASE FindCall(node, inodes, call, d)
        <4>1. /\ inodes # << >> /\ call = Finding(inodes[Len(inodes)], Len(inodes), call.at)
              /\ call.at \in DOMAIN node
          BY <2>1, <3>2 DEF FindCall
        <4>2. call.op = "find" /\ call.key = inodes[Len(inodes)]
          BY <4>1 DEF Finding
        <4>3. inodes[Len(inodes)] \in Keys
          BY <2>1, <4>1
        <4> QED BY <2>0, <2>1, <4>1, <4>2, <4>3 DEF TypeOK
      <3>3. CASE SplitCall(node, call)
        <4>1. /\ call.op = "split" /\ call.at \in DOMAIN node /\ call.key \in Keys /\ IsFull(node[call.at])
          BY <2>1, <3>3, SplitOp DEF SplitCall, Full
        <4> QED BY <2>0, <2>1, <4>1 DEF TypeOK
      <3> QED BY <2>3, <3>1, <3>2, <3>3 DEF Built
    <2> QED BY <2>2, <2>3
  <1> QED BY <1>1, IndexInvariant, PTL

\* Between insertions find_latest_inode's search finds every inode at its
\* place and nothing else.
THEOREM SearchCorrect == Spec => []SearchFindsInodes
  <1>1. ASSUME IndexInv PROVE SearchFindsInodes
    <2>1. SUFFICES ASSUME call = Idle, root # NoNode, NEW k \in Keys
                   PROVE  SearchTree(k) = IF k \in Range(inodes)
                                            THEN CHOOSE i \in DOMAIN inodes : inodes[i] = k ELSE 0
      BY DEF SearchFindsInodes
    <2>2. PICK d, h : Tree(node, root, NoNode, d, h) /\ Contents(node, Range(inodes), inodes)
      BY <1>1, <2>1, IdleTree
    <2> DEFINE j == Descend(ChildToLoad, k)
               n == node[j]
               at == {i \in DOMAIN n.keys : n.keys[i] = k}
    <2>3. j \in 1..Len(node) /\ h[j] = 0 /\ n.is_leaf /\ k \in d[j]
      BY <2>2, LoadEnds
    <2>4. SearchTree(k) = IF at = {} THEN 0 ELSE n.values[CHOOSE i \in at : TRUE]
      BY DEF SearchTree
    <2>5. n \in Node
      BY <2>2, <2>3, TreeNode
    <2>6. DOMAIN n.keys = 1..Len(n.keys)
      BY <2>5, NodeFields
    <2> HIDE DEF j
    <2>7. (\E a \in 1..Len(n.keys) : n.keys[a] = k) <=> k \in Range(inodes)
      BY <2>2, <2>3, LeafOfKey
    <2>8. CASE k \notin Range(inodes)
      <3>1. at = {}
        BY <2>6, <2>7, <2>8
      <3> QED BY <2>4, <2>8, <3>1
    <2>9. CASE k \in Range(inodes)
      <3> DEFINE i == CHOOSE i \in at : TRUE
                 v == n.values[i]
      <3>1. at # {}
        BY <2>6, <2>7, <2>9
      <3>2. i \in at
        BY <3>1
      <3>3. SearchTree(k) = v
        BY <2>4, <3>1
      <3>4. i \in 1..Len(n.keys) /\ n.keys[i] = k
        BY <2>6, <3>2
      <3> HIDE DEF i
      <3>5. v \in 1..Len(inodes) /\ inodes[v] = k
        BY <2>2, <2>3, <3>4 DEF Contents
      <3> HIDE DEF v
      <3>6. DOMAIN inodes = 1..Len(inodes) /\ \A a, b \in 1..Len(inodes) : a # b => inodes[a] # inodes[b]
        BY <1>1 DEF IndexInv
      <3>7. (CHOOSE a \in DOMAIN inodes : inodes[a] = k) = v
        BY <3>5, <3>6
      <3> QED BY <2>9, <3>3, <3>7
    <2> QED BY <2>8, <2>9
  <1> QED BY <1>1, IndexInvariant, PTL

\* Between insertions BPLUSIndex::find finds the inodes whose key is not a
\* separator behind the first of some node, and misses the others.
THEOREM FindCorrect == Spec => []FindMissesSeparators
  <1>1. ASSUME IndexInv PROVE FindMissesSeparators
    <2>1. SUFFICES ASSUME call = Idle, root # NoNode, NEW k \in Keys
                   PROVE  find(k) <=> /\ k \in Range(inodes)
                                      /\ \A n \in Range(node) : ~n.is_leaf => k \notin Range(Tail(n.keys))
      BY DEF FindMissesSeparators
    <2>2. PICK d, h : Tree(node, root, NoNode, d, h) /\ Contents(node, Range(inodes), inodes)
      BY <1>1, <2>1, IdleTree
    <2> DEFINE j == Descend(ChildToStore, k)
    <2>3. find(k) <=> k \in Range(node[j].keys)
      BY DEF find
    <2> HIDE DEF j
    <2>4. node \in Seq(Node) /\ DOMAIN node = 1..Len(node)
      BY <1>1 DEF IndexInv
    <2>5. ASSUME NEW i \in 1..Len(node)
          PROVE  /\ DOMAIN node[i].keys = 1..Len(node[i].keys)
                 /\ k \in Range(Tail(node[i].keys)) <=> \E b \in 2..Len(node[i].keys) : node[i].keys[b] = k
      <3> DEFINE s == node[i].keys
      <3>1. s \in Seq(Keys) /\ Len(s) \in Nat /\ Len(s) >= 1
        BY <2>2, <2>4, NodeFields, TreeNode
      <3> HIDE DEF s
      <3>2. DOMAIN s = 1..Len(s) /\ s # << >>
        BY <3>1
      <3>3. DOMAIN Tail(s) = 1..(Len(s) - 1) /\ \A b \in 1..(Len(s) - 1) : Tail(s)[b] = s[b + 1]
        BY <3>1, <3>2
      <3>4. \A b \in 2..Len(s) : b - 1 \in 1..(Len(s) - 1) /\ (b - 1) + 1 = b
        BY <3>1
      <3>5. \A b \in 1..(Len(s) - 1) : b + 1 \in 2..Len(s)
        BY <3>1
      <3>6. k \in Range(Tail(s)) => \E b \in 2..Len(s) : s[b] = k
        BY <3>3, <3>5 DEF Range
      <3>7. ASSUME NEW b \in 2..Len(s), s[b] = k PROVE k \in Range(Tail(s))
        <4>1. Tail(s)[b - 1] = s[(b - 1) + 1]
          BY <3>3, <3>4
        <4>2. Tail(s)[b - 1] = k /\ b - 1 \in DOMAIN Tail(s)
          BY <3>3, <3>4, <3>7, <4>1
        <4> QED BY <4>2 DEF Range
      <3> QED BY <3>2, <3>6, <3>7 DEF s
    <2>6. CASE \A i \in 1..Len(node) : ~node[i].is_leaf => \A b \in 2..Len(node[i].keys) : node[i].keys[b] # k
      <3>1. j \in 1..Len(node) /\ h[j] = 0 /\ k \in d[j]
        BY <2>2, <2>6, StoreEnds DEF j
      <3>2. (\E a \in 1..Len(node[j].keys) : node[j].keys[a] = k) <=> k \in Range(inodes)
        BY <2>2, <3>1, LeafOfKey
      <3>3. k \in Range(node[j].keys) <=> \E a \in 1..Len(node[j].keys) : node[j].keys[a] = k
        BY <2>5, <3>1 DEF Range
      <3>4. \A i \in 1..Len(node) : ~node[i].is_leaf => k \notin Range(Tail(node[i].keys))
        BY <2>5, <2>6
      <3>5. \A n \in Range(node) : ~n.is_leaf => k \notin Range(Tail(n.keys))
        BY <2>4, <3>4 DEF Range
      <3> QED BY <2>3, <3>2, <3>3, <3>5
    <2>7. CASE \E i \in 1..Len(node) : ~node[i].is_leaf /\ \E b \in 2..Len(node[i].keys) : node[i].keys[b] = k
      <3>1. PICK q \in 1..Len(node) : ~node[q].is_leaf /\ \E b \in 2..Len(node[q].keys) : node[q].keys[b] = k
        BY <2>7
      <3>2. j \in 1..Len(node) /\ k \notin d[j]
        BY <2>2, <3>1, AstrayEnds DEF j
      <3>3. \A a \in 1..Len(node[j].keys) : node[j].keys[a] \in d[j]
        BY <2>2, <3>2 DEF Tree
      <3>4. k \notin Range(node[j].keys)
        BY <2>5, <3>2, <3>3 DEF Range
      <3>5. k \in Range(Tail(node[q].keys)) /\ node[q] \in Range(node)
        BY <2>4, <2>5, <3>1 DEF Range
      <3> QED BY <2>3, <3>1, <3>4, <3>5
    <2> QED BY <2>6, <2>7
  <1> QED BY <1>1, IndexInvariant, PTL

\* The nodes by height, as TreeShape counts them.
Levels ==
  CHOOSE Under : Under = [d \in 0..Len(node) |->
    IF d = 0 THEN {i \in DOMAIN node : node[i].is_leaf}
    ELSE {i \in DOMAIN node : ~node[i].is_leaf /\ Range(node[i].children) \subseteq Under[d - 1]}]

\* The height of a node in a tree is the level it is on.
LEMMA OnLevel ==
  ASSUME NEW d, NEW h, Tree(node, root, NoNode, d, h)
  PROVE  \E m \in 0..Len(node) : root \in Levels[m]
  <1> DEFINE L == Len(node)
             Eq(f) == f = [m \in 0..L |->
                        IF m = 0 THEN {i \in DOMAIN node : node[i].is_leaf}
                        ELSE {i \in DOMAIN node : ~node[i].is_leaf /\ Range(node[i].children) \subseteq f[m - 1]}]
             F == [m \in 0..L |-> {i \in 1..L : h[i] = m}]
             T == {m \in 0..L : \A i \in 1..L : h[i] = m => i \in Levels[m]}
  <1>1. /\ L \in Nat /\ DOMAIN node = 1..L /\ root \in 1..L /\ h[root] \in Nat /\ h[root] < L
        /\ \A i \in 1..L : h[i] \in Nat /\ (node[i].is_leaf <=> h[i] = 0)
    BY DEF Tree
  <1>2. ASSUME NEW i \in 1..L, ~node[i].is_leaf
        PROVE  /\ Range(node[i].children) # {}
               /\ \A y \in Range(node[i].children) : y \in 1..L /\ h[i] = h[y] + 1 /\ h[y] \in Nat
    <2>1. node[i] \in Node /\ Len(node[i].keys) \in Nat /\ Len(node[i].children) = Len(node[i].keys) + 1
      BY <1>2, TreeNode
    <2>2. DOMAIN node[i].children = 1..Len(node[i].children)
      BY <2>1, NodeFields
    <2>3. 1 \in 1..Len(node[i].children)
      BY <2>1
    <2>4. \A c \in 1..Len(node[i].children) :
            LET y == node[i].children[c] IN y \in 1..L /\ h[i] = h[y] + 1 /\ h[y] \in Nat
      BY <1>2, TreeChild
    <2> QED BY <2>2, <2>3, <2>4 DEF Range
  <1> HIDE DEF L
  <1>3. Eq(F)
    <2> DEFINE G(m) == IF m = 0 THEN {i \in DOMAIN node : node[i].is_leaf}
                       ELSE {i \in DOMAIN node : ~node[i].is_leaf /\ Range(node[i].children) \subseteq F[m - 1]}
    <2>1. ASSUME NEW m \in 0..L PROVE F[m] = G(m)
      <3>1. F[m] = {i \in 1..L : h[i] = m}
        OBVIOUS
      <3>2. CASE m = 0
        BY <1>1, <3>1, <3>2
      <3>3. CASE m # 0
        <4>1. m - 1 \in 0..L /\ m \in Nat
          BY <1>1, <3>3
        <4>2. F[m - 1] = {i \in 1..L : h[i] = m - 1}
          BY <4>1
        <4> HIDE DEF F
        <4>3. ASSUME NEW i \in 1..L
              PROVE  h[i] = m <=> (~node[i].is_leaf /\ Range(node[i].children) \subseteq F[m - 1])
          <5>1. ASSUME h[i] = m PROVE ~node[i].is_leaf /\ Range(node[i].children) \subseteq F[m - 1]
            <6>1. ~node[i].is_leaf
              BY <1>1, <3>3, <5>1
            <6>2. \A y \in Range(node[i].children) : y \in 1..L /\ h[i] = h[y] + 1 /\ h[y] \in Nat
              BY <1>2, <6>1
            <6>3. \A y \in Range(node[i].children) : h[y] = m - 1
              BY <4>1, <5>1, <6>2
            <6> QED BY <4>2, <6>1, <6>2, <6>3
          <5>2. ASSUME ~node[i].is_leaf, Range(node[i].children) \subseteq F[m - 1] PROVE h[i] = m
            <6>1. PICK y \in Range(node[i].children) : y \in 1..L /\ h[i] = h[y] + 1 /\ h[y] \in Nat
              BY <1>2, <5>2
            <6>2. h[y] = m - 1
              BY <4>2, <5>2, <6>1
            <6> QED BY <4>1, <6>1, <6>2
          <5> QED BY <5>1, <5>2
        <4>4. G(m) = {i \in 1..L : h[i] = m}
          BY <1>1, <3>3, <4>3
        <4> QED BY <3>1, <4>4
      <3> QED BY <3>2, <3>3
    <2>2. F = [m \in 0..L |-> F[m]]
      OBVIOUS
    <2> HIDE DEF F
    <2> QED BY <2>1, <2>2
  <1>4. Levels = CHOOSE f : Eq(f)
    BY DEF Levels, L
  <1>5. Eq(Levels)
    <2> HIDE DEF Eq, F
    <2> QED BY <1>3, <1>4
  <1>6. /\ Levels[0] = {i \in 1..L : node[i].is_leaf}
        /\ \A m \in 1..L :
             Levels[m] = {i \in 1..L : ~node[i].is_leaf /\ Range(node[i].children) \subseteq Levels[m - 1]}
    <2>1. 0 \in 0..L /\ \A m \in 1..L : m \in 0..L /\ m # 0
      BY <1>1
    <2>2. Levels = [m \in 0..L |->
            IF m = 0 THEN {i \in DOMAIN node : node[i].is_leaf}
            ELSE {i \in DOMAIN node : ~node[i].is_leaf /\ Range(node[i].children) \subseteq Levels[m - 1]}]
      BY <1>5
    <2> DEFINE f == Levels
    <2> HIDE DEF Eq, F, T, f
    <2>3. f[0] = {i \in DOMAIN node : node[i].is_leaf}
      BY <2>1, <2>2 DEF f
    <2>4. ASSUME NEW m \in 1..L
          PROVE  f[m] = {i \in DOMAIN node : ~node[i].is_leaf /\ Range(node[i].children) \subseteq f[m - 1]}
      BY <2>1, <2>2 DEF f
    <2> QED BY <1>1, <2>3, <2>4 DEF f
  <1>7. 0 \in T
    BY <1>1, <1>6
  <1>8. ASSUME NEW m \in 1..L, m - 1 \in T PROVE m \in T
    <2>1. SUFFICES ASSUME NEW i \in 1..L, h[i] = m PROVE i \in Levels[m]
      BY <1>1
    <2>2. ~node[i].is_leaf
      BY <1>1, <2>1
    <2>3. \A y \in Range(node[i].children) : y \in 1..L /\ h[i] = h[y] + 1 /\ h[y] \in Nat
      BY <1>2, <2>2
    <2>4. \A y \in Range(node[i].children) : y \in 1..L /\ h[y] = m - 1
      BY <2>1, <2>3
    <2>5. \A y \in Range(node[i].children) : y \in Levels[m - 1]
      BY <1>8, <2>4
    <2> QED BY <1>6, <2>2, <2>5
  <1> HIDE DEF T
  <1>9. h[root] \in 0..L
    BY <1>1
  <1>10. h[root] \in T
    BY <1>1, <1>7, <1>8, <1>9, UpTo
  <1> QED BY <1>1, <1>9, <1>10 DEF T, L

\* Between insertions the nodes are a balanced search tree, in which every
\* child names its parent: what split_insert_node relies on, and what it
\* leaves behind.
THEOREM ShapeCorrect == Spec => []TreeShape
  <1>1. ASSUME IndexInv, call = Idle, root # NoNode
        PROVE  /\ node[root].parent = NoNode
               /\ \E m \in 0..Len(node) : root \in Levels[m]
               /\ \A i \in DOMAIN node :
                    LET n == node[i]
                    IN  /\ num_keys(n) \in 1..(ORDER - 1)
                        /\ \A a, b \in DOMAIN n.keys : a < b => n.keys[a] < n.keys[b]
                        /\ i # root => n.parent \in DOMAIN node /\ i \in Range(node[n.parent].children)
                        /\ ~n.is_leaf =>
                             /\ Len(n.children) = num_keys(n) + 1
                             /\ \A c \in DOMAIN n.children :
                                  /\ node[n.children[c]].parent = i
                                  /\ \A x \in Range(node[n.children[c]].keys) :
                                       /\ c > 1 => n.keys[c - 1] <= x
                                       /\ c <= num_keys(n) => x < n.keys[c]
    <2>1. PICK d, h : Tree(node, root, NoNode, d, h)
      BY <1>1, IdleTree
    <2>2. node \in Seq(Node) /\ DOMAIN node = 1..Len(node) /\ node[root].parent = NoNode /\ root \in 1..Len(node)
      BY <2>1 DEF Tree
    <2>3. \E m \in 0..Len(node) : root \in Levels[m]
      BY <2>1, OnLevel
    <2>4. \A i \in 1..Len(node) : /\ DOMAIN node[i].keys = 1..Len(node[i].keys)
                                  /\ DOMAIN node[i].children = 1..Len(node[i].children)
      <3>1. \A i \in 1..Len(node) : node[i] \in Node
        BY <2>2
      <3> QED BY <3>1, NodeFields
    <2>5. ASSUME NEW i \in 1..Len(node)
          PROVE  /\ num_keys(node[i]) \in 1..(ORDER - 1)
                 /\ \A a, b \in DOMAIN node[i].keys : a < b => node[i].keys[a] < node[i].keys[b]
                 /\ ~node[i].is_leaf => Len(node[i].children) = num_keys(node[i]) + 1
      <3>1. i # NoNode
        BY DEF NoNode
      <3>2. NodeShape(node[i], ORDER - 1)
        BY <2>1, <3>1 DEF Tree
      <3> QED BY <2>4, <3>2 DEF NodeShape, Sorted, num_keys
    <2>6. ASSUME NEW i \in 1..Len(node), i # root
          PROVE  node[i].parent \in DOMAIN node /\ i \in Range(node[node[i].parent].children)
      <3> DEFINE p == node[i].parent
      <3>1. ParentShape(node, i)
        BY <2>1, <2>6 DEF Tree
      <3>2. p \in 1..Len(node) /\ \E c \in 1..Len(node[p].children) : node[p].children[c] = i
        BY <3>1 DEF ParentShape
      <3> HIDE DEF p
      <3>3. p \in DOMAIN node /\ i \in Range(node[p].children)
        BY <2>2, <2>4, <3>2 DEF Range
      <3> QED BY <3>3 DEF p
    <2>7. ASSUME NEW i \in 1..Len(node), ~node[i].is_leaf, NEW c \in DOMAIN node[i].children
          PROVE  /\ node[node[i].children[c]].parent = i
                 /\ \A x \in Range(node[node[i].children[c]].keys) :
                      /\ c > 1 => node[i].keys[c - 1] <= x
                      /\ c <= num_keys(node[i]) => x < node[i].keys[c]
      <3> DEFINE j == node[i].children[c]
      <3>1. c \in 1..Len(node[i].children)
        BY <2>4, <2>7
      <3>2. /\ j \in 1..Len(node) /\ node[j].parent = i
            /\ \A k \in Keys : k \in d[j] <=> (k \in d[i] /\ Between(node[i], c, k))
        BY <2>1, <2>7, <3>1, TreeChild
      <3> HIDE DEF j
      <3>3. d[j] \in SUBSET Keys
        BY <2>1, <3>2, TreeNode
      <3>4. \A x \in Range(node[j].keys) : x \in d[j]
        BY <2>1, <2>4, <3>2 DEF Tree, Range
      <3>5. \A x \in Range(node[j].keys) : Between(node[i], c, x)
        BY <3>2, <3>3, <3>4
      <3>6. \A x \in Range(node[j].keys) : /\ c > 1 => node[i].keys[c - 1] <= x
                                           /\ c <= num_keys(node[i]) => x < node[i].keys[c]
        BY <3>5 DEF Between, num_keys
      <3> QED BY <3>2, <3>6 DEF j
    <2> HIDE DEF Levels
    <2> QED BY <2>2, <2>3, <2>5, <2>6, <2>7
  <1>2. ASSUME IndexInv PROVE TreeShape
    BY <1>1, <1>2 DEF TreeShape, Levels
  <1> QED BY <1>2, IndexInvariant, PTL
=============================================================================
