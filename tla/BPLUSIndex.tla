----------------------------- MODULE BPLUSIndex -----------------------------
(***************************************************************************)
(* The B+tree of one TREE file: BPLUSIndex builds it while the cache is    *)
(* flushed (bplus_index.cpp), BPLUSIndexLoader searches it later through   *)
(* the mapped file (bplus_index_loader.cpp).                               *)
(*                                                                         *)
(* A node is an entry of the sequence node, numbered in the order in which *)
(* get_tire allocated it; 0 stands for the code's -1 (no node).  A key is  *)
(* an integer, ordered as strcmp orders the hashes.  The value of a key is *)
(* the position of its inode in the inode list.  Only the first num_keys   *)
(* entries of the arrays are kept: neither search reads past them.         *)
(*                                                                         *)
(* One insertion is many steps: one per level going down, one per split    *)
(* going up.  call holds the arguments of the pending step.                *)
(***************************************************************************)
EXTENDS Integers, Sequences, SequencesExt

CONSTANTS
  ORDER,   \* maximal number of children of a node (24 in the build)
  Keys     \* the hashes of the inodes that may be flushed together

ASSUME IndexAssumption ==
  /\ ORDER \in Nat /\ ORDER >= 4
  /\ Keys \subseteq Int

VARIABLES
  node,    \* the nodes, in allocation order
  root,    \* header.root and rootidx_
  inodes,  \* the inode list: the key of every inode, in insertion order
  call     \* the step in progress

vars == <<node, root, inodes, call>>

NoNode == 0

Node == [parent : Nat, is_leaf : BOOLEAN, keys : Seq(Keys),
         values : Seq(Nat), children : Seq(Nat)]

Idle == [op |-> "idle"]

Finding(k, v, n) == [op |-> "find", key |-> k, value |-> v, at |-> n]

\* The arguments of split_insert_node; targ = NoNode when a leaf is split
\* (isparent = false).
Splitting(k, v, n, targ) ==
  [op |-> "split", key |-> k, value |-> v, at |-> n, targ |-> targ]

Init ==
  /\ node = << >>
  /\ root = NoNode
  /\ inodes = << >>
  /\ call = Idle
-----------------------------------------------------------------------------
(* Steps on one node.                                                      *)

num_keys(n) == Len(n.keys)

IsFull(n) == num_keys(n) = ORDER - 1

med_idx == (ORDER - 1) \div 2   \* counted from 0, as in the code

\* The position where insert_into_node puts k: before the first larger key.
Position(n, k) ==
  CHOOSE p \in 1..(num_keys(n) + 1) :
    /\ \A i \in 1..(p - 1) : n.keys[i] <= k
    /\ p <= num_keys(n) => k < n.keys[p]

\* insert_into_node, always with isleft = false: in a leaf the value goes
\* beside its key, in a parent the child goes to the right of it.
insert_into_node(n, k, v, child) ==
  LET p == Position(n, k)
  IN  IF n.is_leaf
        THEN [n EXCEPT !.keys = InsertAt(@, p, k), !.values = InsertAt(@, p, v)]
        ELSE [n EXCEPT !.keys = InsertAt(@, p, k), !.children = InsertAt(@, p + 1, child)]

\* Mutant: the loop over the inner separators starts one too late, so the
\* child after the second separator is never taken.
InnerLoopLate(n, k) ==
  LET last == num_keys(n)
      inner == {i \in 3..(last - 1) : n.keys[i] < k /\ k < n.keys[i + 1]}
  IN  IF k < n.keys[1] THEN n.children[1]
      ELSE IF k > n.keys[last] THEN n.children[last + 1]
      ELSE n.children[IF inner = {} THEN 2 ELSE 1 + CHOOSE i \in inner : TRUE]

\* The child find_node_to_store descends to.  A key that equals a separator
\* goes to the second child, whichever separator it equals.
ChildToStore(n, k) ==
  LET last == num_keys(n)
      inner == {i \in 2..(last - 1) : n.keys[i] < k /\ k < n.keys[i + 1]}
  IN  IF k < n.keys[1] THEN n.children[1]
      ELSE IF k > n.keys[last] THEN n.children[last + 1]
      ELSE n.children[IF inner = {} THEN 2 ELSE 1 + CHOOSE i \in inner : TRUE]

\* The child the loader descends to: it takes a key that equals a separator
\* to the right of that separator.
ChildToLoad(n, k) ==
  LET last == num_keys(n)
  IN  IF k < n.keys[1] THEN n.children[1]
      ELSE IF k >= n.keys[last] THEN n.children[last + 1]
      ELSE n.children[1 + CHOOSE i \in 1..(last - 1) : n.keys[i] <= k /\ k < n.keys[i + 1]]
-----------------------------------------------------------------------------
(* add_inode.                                                              *)

\* The first inode makes the root leaf; a later one starts at the root.
add_inode(k) ==
  /\ call = Idle
  /\ k \notin Range(inodes)
  /\ inodes' = Append(inodes, k)
  /\ IF root = NoNode
       THEN /\ node' = << [parent |-> NoNode, is_leaf |-> TRUE, keys |-> <<k>>,
                           values |-> <<1>>, children |-> << >>] >>
            /\ root' = 1
            /\ UNCHANGED call
       ELSE /\ call' = Finding(k, Len(inodes) + 1, root)
            /\ UNCHANGED <<node, root>>

\* Mutant: the change flag is never set, so every turn of the loop starts at
\* the root again.
RestartAtRoot ==
  /\ call.op = "find"
  /\ ~node[call.at].is_leaf
  /\ call' = [call EXCEPT !.at = root]
  /\ UNCHANGED <<node, root, inodes>>

\* One turn of the loop of find_node_to_store.
find_node_to_store ==
  /\ call.op = "find"
  /\ ~node[call.at].is_leaf
  /\ call' = [call EXCEPT !.at = ChildToStore(node[call.at], call.key)]
  /\ UNCHANGED <<node, root, inodes>>

\* Mutant: a leaf is split while it still has room for one key.
SplitEarly ==
  /\ call.op = "find"
  /\ node[call.at].is_leaf
  /\ IF num_keys(node[call.at]) >= ORDER - 2
       THEN /\ call' = Splitting(call.key, call.value, call.at, NoNode)
            /\ UNCHANGED node
       ELSE /\ node' = [node EXCEPT ![call.at] =
                          insert_into_node(@, call.key, call.value, NoNode)]
            /\ call' = Idle
  /\ UNCHANGED <<root, inodes>>

\* The leaf is found: insert, or start splitting when it is full.
store_in_leaf ==
  /\ call.op = "find"
  /\ node[call.at].is_leaf
  /\ IF IsFull(node[call.at])
       THEN /\ call' = Splitting(call.key, call.value, call.at, NoNode)
            /\ UNCHANGED node
       ELSE /\ node' = [node EXCEPT ![call.at] =
                          insert_into_node(@, call.key, call.value, NoNode)]
            /\ call' = Idle
  /\ UNCHANGED <<root, inodes>>
-----------------------------------------------------------------------------
(* split_insert_node.                                                      *)

\* Mutant: the right half gets the values from the start of the array.
ValuesFromStart(n) ==
  [left  |-> [n EXCEPT !.keys = SubSeq(@, 1, med_idx),
                       !.values = SubSeq(@, 1, med_idx)],
   right |-> [n EXCEPT !.parent = NoNode,
                       !.keys = SubSeq(@, med_idx + 1, ORDER - 1),
                       !.values = SubSeq(@, 1, ORDER - 1 - med_idx)]]

\* The two halves of a leaf: the median key goes to the right half.
SplitLeaf(n) ==
  [left  |-> [n EXCEPT !.keys = SubSeq(@, 1, med_idx),
                       !.values = SubSeq(@, 1, med_idx)],
   right |-> [n EXCEPT !.parent = NoNode,
                       !.keys = SubSeq(@, med_idx + 1, ORDER - 1),
                       !.values = SubSeq(@, med_idx + 1, ORDER - 1)]]

\* The two halves of a parent: the median key goes to neither.
SplitParent(n) ==
  [left  |-> [n EXCEPT !.keys = SubSeq(@, 1, med_idx),
                       !.children = SubSeq(@, 1, med_idx + 1)],
   right |-> [n EXCEPT !.parent = NoNode,
                       !.keys = SubSeq(@, med_idx + 2, ORDER - 1),
                       !.children = SubSeq(@, med_idx + 2, ORDER)]]

\* Mutant: the children that move to the new node keep their old parent.
ChildrenKeepParent(at, k, v, targ) ==
  LET n == node[at]
      leftofmed == k < n.keys[med_idx + 1]
      halves == IF targ = NoNode THEN SplitLeaf(n) ELSE SplitParent(n)
      l == IF leftofmed THEN insert_into_node(halves.left, k, v, targ) ELSE halves.left
      r == IF leftofmed THEN halves.right ELSE insert_into_node(halves.right, k, v, targ)
  IN  Append([i \in DOMAIN node |->
                IF i = at THEN l
                ELSE IF i = targ THEN [node[i] EXCEPT !.parent = IF leftofmed THEN at ELSE Len(node) + 1]
                ELSE node[i]], r)

\* The nodes after the node at is split and the key and the carried-up child
\* are in their half; the new node is the last one.  The children that moved
\* to it, and targ, get the parent they now hang under.
AfterSplit(at, k, v, targ) ==
  LET n == node[at]
      new == Len(node) + 1
      leftofmed == k < n.keys[med_idx + 1]
      halves == IF targ = NoNode THEN SplitLeaf(n) ELSE SplitParent(n)
      l == IF leftofmed THEN insert_into_node(halves.left, k, v, targ) ELSE halves.left
      r == IF leftofmed THEN halves.right ELSE insert_into_node(halves.right, k, v, targ)
      half(i) == IF i \in Range(r.children) THEN new
                 ELSE IF i = targ THEN at ELSE node[i].parent
  IN  Append([i \in DOMAIN node |->
                IF i = at THEN l ELSE [node[i] EXCEPT !.parent = half(i)]], r)

\* One level of split_insert_node: split, then hand the median to the
\* parent, which is a new root, or has room, or is split in its turn.
split_insert_node ==
  /\ call.op = "split"
  /\ LET at == call.at
         split == AfterSplit(at, call.key, call.value, call.targ)
         right == Len(split)
         nkey == node[at].keys[med_idx + 1]
         paroff == node[at].parent
     IN  \/ /\ paroff = NoNode
            /\ node' = Append([split EXCEPT ![at].parent = right + 1,
                                            ![right].parent = right + 1],
                              [parent |-> NoNode, is_leaf |-> FALSE, keys |-> <<nkey>>,
                               values |-> << >>, children |-> <<at, right>>])
            /\ root' = right + 1
            /\ call' = Idle
         \/ /\ paroff # NoNode
            /\ ~IsFull(node[paroff])
            /\ node' = [split EXCEPT ![paroff] = insert_into_node(@, nkey, call.value, right),
                                     ![right].parent = paroff]
            /\ call' = Idle
            /\ UNCHANGED root
         \/ /\ paroff # NoNode
            /\ IsFull(node[paroff])
            /\ node' = split
            /\ call' = Splitting(nkey, 0, paroff, right)
            /\ UNCHANGED root
  /\ UNCHANGED inodes

Step == find_node_to_store \/ store_in_leaf \/ split_insert_node

Next == (\E k \in Keys : add_inode(k)) \/ Step

\* add_inode is one thread's sequential call: once called it keeps running.
Spec == Init /\ [][Next]_vars /\ WF_vars(Step)
-----------------------------------------------------------------------------
(* The two searches.                                                       *)

\* The leaf a search reaches from the root, for either rule of descent.
Descend(Child(_, _), k) ==
  LET at[i \in 0..Len(node)] ==
        IF i = 0 THEN root
        ELSE IF node[at[i - 1]].is_leaf THEN at[i - 1]
        ELSE Child(node[at[i - 1]], k)
  IN  at[Len(node)]

\* find_latest_inode's search of one tree: the value of k, or 0.
SearchTree(k) ==
  LET n == node[Descend(ChildToLoad, k)]
      at == {i \in DOMAIN n.keys : n.keys[i] = k}
  IN  IF at = {} THEN 0 ELSE n.values[CHOOSE i \in at : TRUE]

\* BPLUSIndex::find.
find(k) == k \in Range(node[Descend(ChildToStore, k)].keys)
-----------------------------------------------------------------------------
\* No node has more keys than its array has room for, and every child is a
\* node, in the middle of an insertion too.  A node that is being split is
\* full: split_insert_node's early return for one that is not would drop the
\* key.
TypeOK ==
  /\ node \in Seq(Node)
  /\ \A i \in DOMAIN node : /\ num_keys(node[i]) \in 1..(ORDER - 1)
                            /\ Range(node[i].children) \subseteq DOMAIN node
  /\ root \in 0..Len(node)
  /\ inodes \in Seq(Keys)
  /\ call.op \in {"idle", "find", "split"}
  /\ call.op # "idle" => call.key \in Keys /\ call.at \in DOMAIN node
  /\ call.op = "split" => IsFull(node[call.at])

\* Between insertions the loader's search finds every inode of the tree, at
\* its own place in the inode list, and finds nothing else: flushing loses
\* no file and mixes up no two files (find_latest_inode's search against
\* what add_inode built).
SearchFindsInodes ==
  call = Idle /\ root # NoNode =>
    \A k \in Keys : SearchTree(k) = IF k \in Range(inodes)
                                      THEN CHOOSE i \in DOMAIN inodes : inodes[i] = k
                                      ELSE 0

\* The keys in the leaves from which the parent links do not lead to the root.
Unlinked ==
  LET top[n \in 0..Len(node), i \in DOMAIN node] ==   \* n links up from i, or less
        IF n = 0 \/ node[i].parent = NoNode THEN i ELSE top[n - 1, node[i].parent]
  IN  {k \in Keys : \E i \in DOMAIN node :
         node[i].is_leaf /\ k \in Range(node[i].keys) /\ top[Len(node), i] # root}

\* What a flush that is cut off between two levels of an insertion leaves: the
\* new inode is not in the tree before its leaf has it, and the half of a
\* split node is not, with all that hangs under it, before its parent has
\* it.  A search of the file finds every other inode, at its own place: inodes
\* added long before are hidden, and none is mistaken for another
\* (split_insert_node cuts the node off first and climbs afterwards).
CutSplitHidesHalf ==
  call # Idle =>
    LET hidden == IF call.op = "split" /\ call.targ # NoNode THEN Unlinked ELSE {call.key}
    IN  \A k \in Keys : SearchTree(k) = IF k \in Range(inodes) \ hidden
                                         THEN CHOOSE i \in DOMAIN inodes : inodes[i] = k
                                         ELSE 0

\* Between insertions the tree is a balanced search tree: every child names
\* its parent, no node is over-full or empty, keys are sorted, and a
\* separator has the smaller keys to its left and the others to its right.
\* split_insert_node relies on the parent links on its way up.
TreeShape ==
  LET Under[d \in 0..Len(node)] ==   \* nodes by height, leaves at 0
        IF d = 0 THEN {i \in DOMAIN node : node[i].is_leaf}
        ELSE {i \in DOMAIN node : ~node[i].is_leaf /\ Range(node[i].children) \subseteq Under[d - 1]}
  IN  call = Idle /\ root # NoNode =>
        /\ node[root].parent = NoNode
        /\ \E d \in 0..Len(node) : root \in Under[d]
        /\ \A i \in DOMAIN node :
             LET n == node[i]
             IN  /\ num_keys(n) \in 1..(ORDER - 1)
                 /\ \A a, b \in DOMAIN n.keys : a < b => n.keys[a] < n.keys[b]
                 /\ i # root => n.parent \in DOMAIN node /\ i \in Range(node[n.parent].children)
                 /\ ~n.is_leaf =>
                      /\ Len(n.children) = num_keys(n) + 1
                      /\ \A c \in DOMAIN n.children :
                           /\ node[n.children[c]].parent = i
                           /\ \A x \in Range(node[n.children[c]].keys) :
                                /\ c > 1 => n.keys[c - 1] <= x
                                /\ c <= num_keys(n) => x < n.keys[c]

\* Every insertion ends: neither the descent of find_node_to_store nor the
\* splits going up run for ever.
InsertTerminates == (call # Idle) ~> (call = Idle)

\* BPLUSIndex::find, which descends as an insertion does, finds exactly the
\* inserted keys that are not a separator behind the first of some node;
\* those it misses ("assert(flusher.find(...))", block_cache.cpp:335, is
\* commented out).  So no insertion of a new key is led astray by the
\* same rule: a new key equals no separator.
FindMissesSeparators ==
  call = Idle /\ root # NoNode =>
    \A k \in Keys :
      find(k) <=> /\ k \in Range(inodes)
                  /\ \A n \in Range(node) : ~n.is_leaf => k \notin Range(Tail(n.keys))
=============================================================================
