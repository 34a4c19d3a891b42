# A TLA+ model of ZippyFS

ZippyFS is a FUSE file system whose files live in an in-memory block cache and
are flushed, version after version, into `TREE-*` files: memory-mapped B+trees
that are never changed again and that a script copies between machines.  This
directory models the program in TLA+, checks the models with TLC on small
instances and proves some of the properties with TLAPS for all instances.

## 1. Inventory

### Components

| Component | Source | State | Operations | Called by |
|---|---|---|---|---|
| TireFire | `tire_fire.cpp` | file size, address of the mapping, index -> offset and index -> address tables | `get_tire`, `end`; `get_memory`, `get_offset` read | BPLUSIndex |
| BPLUSIndex | `bplus_index.cpp` | the nodes of one tree, its root, the inode list | `add_inode` (with `find_node_to_store`, `insert_into_node`, `split_insert_node`), `find` | BlockCache, when it flushes |
| BPLUSIndexLoader | `bplus_index_loader.cpp` | the map from TREE files to addresses | `load_trees`, `find_latest_inode`, `get_children`; the destructor unmaps | BlockCache |
| BlockCache | `block_cache.cpp` | `inode_idx_`, `inode_ptrs_`, `dirty_block_`, `dirty_block_mtime_`, `size_`, `has_changed_` | one method per FUSE request, `load_from_disk`, `flush_to_disk`, `flush_to_shdw` | fuse_ops |
| Inode | `inode.cpp` | mode, link count, times, size, deletion mark, `links_`, `blocks_` | constructors, `dec_link`, `delete_inode`, `set_size`, `read`, ... | BlockCache |
| Block | `block.cpp` | 4096 bytes and how many are used | `insert`, `get_data` | BlockCache, Inode |
| fuse_ops | `fuse_ops.cpp` | the one BlockCache object | one handler per FUSE request, `zippyfs_init`, `zippyfs_destroy` | the FUSE library |
| Start-up | `Main.c` | directories, machine name | argument handling, `fuse_main` | the user |
| sync.py | `sync.py` | a pid file, the directory of TREE files, the depth of the recursion | `init` (the pid file), `sync` (rsync to the server, rsync from it, sleep, `sync` again) | the user |
| Util | `util.h` | none | `crypto_hash`, `get_time` | everyone |

### Interactions

A FUSE request reaches one handler, which calls one method of the block cache.
The cache answers from memory when the path is in `inode_idx_`; otherwise it
asks the loader, which walks the mapped TREE files, in the order of an
`unordered_map`, and merges the versions it finds by modification time.  `write`
and `truncate` end with `flush_to_shdw(0)`: when `size_` has reached `MAX_SIZE`
the whole cache goes into one new TREE file (a BPLUSIndex over a TireFire) and
is emptied.  Unmounting flushes unconditionally.  The loader learns of new TREE
files only in `load_trees`, which runs in its constructor and at every
`readdir`.

The script runs beside the mounts and knows nothing of them: it copies whatever
TREE files it finds, finished or not, to the server and from it, and leaves alone
what the receiver already has.

### What is hard here

* **Ordering.** The loop over the trees stops early in two ways, and breaks
  ties between equal times in two different ways.  Its order is a hash order.
* **Stale state.** Pointers into a mapping that `mremap` moved; addresses in the
  loader after a copy whose original was destroyed; open files that somebody
  else's flush has dropped from the cache; paths that stay in `inode_idx_`
  after they were deleted.
* **Crash.** Everything that is not in a TREE file is lost.  What a flush
  writes (`dirty_block_`) and what a reader sees (`Inode::blocks_`) are two
  structures that share `Block` objects by pointer and can part ways.
* **Numeric edges.** `size_` is unsigned, never initialised, not incremented
  when a file is loaded and decremented whenever one is removed; times have
  millisecond resolution; keys that equal a separator; requests of zero bytes.
* **Long sequences.** A tree of order 24 needs hundreds of insertions before a
  parent is split.
* **Interleaving.** Without `-s` the handlers run in several threads, and
  nothing takes the cache's mutex.  Scripts that start together both pass the
  pid file, and the rsync of a killed script runs on beside that of the next.
* **Bytes.** A write takes its bytes from one of two places in the buffer, to one
  of two places in a block, depending on which blocks exist; a read runs to the
  number of blocks.
* **Sizes counted ahead.** A flush sizes the regions of its file from
  `dirty_block_` and the paths, and fills them from `inode_idx_` and the names in
  the inodes.
* **Delivery.** A tree is copied in whatever state it is found and never again;
  a round may fail half way; the rounds are numbered by Python's stack.

`PROJECT.json` lists these hazards one by one with the properties that
watch them, or with the reason why none does: most often that the code goes wrong there as soon as
the case arises.

### What makes each part correct

* TireFire: tires do not overlap, none reaches past the file, and no pointer in
  the table is from an earlier mapping.
* BPLUSIndex: the loader's search finds exactly the inserted keys, each with
  its own value; the tree is balanced and its parent links are right; every
  insertion ends.
* BlockCache and the trees together: a durable block store, in which a write
  changes one block, a flush makes everything written durable and a crash
  loses only what was not flushed.
* Loader: what it answers is the newest version, whatever the order of its loop.
* Listing: a name is listed when its newest version is not a deletion.
* The bytes of a file: a read returns what was written last.
* A TREE file, finished or cut off: what the loader finds in it is whole.
* The script: at most one at a time on a machine; peers get the same version of a
  tree; every tree gets through.

## 2. Modules

| Module | Models |
|---|---|
| `TireFire` | the allocator |
| `TireFireProofs` | its theorems |
| `BPLUSIndex` | insertion into one tree, step by step, and both searches of it |
| `BPLUSIndexProofs` | its theorems |
| `BPLUSIndexLoader` | operators: the merge of all trees (`find_latest_inode`) and the listing |
| `BlockCache` | the cache, the inodes, the FUSE handlers, the TREE files, the loader's map, crash and remount |
| `BlockCacheProofs` | type correctness of the cache for all instances; what the merge answers comes from the trees it walked |
| `DurableProofs` | the cache implements `BlockStore` and loses no visible block, without renames; what a rename moves, and which requests change which file, with them |
| `VersionProofs` | which version wins in the merge and in the listing |
| `BlockStore` | the abstract specification: a durable store of file blocks |
| `MCBlockCache` | small instances of `BlockCache` |
| `BlockIO`, `MCBlockIO` | the bytes of one file: `write`, `Block`, `Inode::read`, `truncate`, what a flush and a reload keep |
| `BlockIOProofs` | its theorems |
| `TreeFile`, `MCTreeFile` | one flush, store by store: counting, regions, cursors, and what the loader reads of the file at each point |
| `TreeFileProofs` | its theorems |
| `Sync`, `MCSync` | machines, server, TREE files, the script with its pid file, its rounds and its faults |
| `SyncProofs` | its theorems |
| `ConcurrentWrites` | write handlers and a flush in several threads |

`BlockCache` EXTENDS `BPLUSIndexLoader` and INSTANCEs `BlockStore` under the
refinement mapping `vol`/`stable`, with `up` for `mounted`.  A tree is a map from ids to disk inodes
there; that the B+tree in the file implements that map is what `SearchFindsInodes` of
`BPLUSIndex` says.

### TireFire

The variables are the fields of the class; `file_size` is the argument of the
last `truncate`, `requested` a history of the requests.  Entry `i + 1` of a
table belongs to index `i`.  The kernel's choice of an address is a parameter;
`MAP_FAILED` is among the choices, because the code logs it and goes on.
`end` is followed by the next object, which starts from scratch.

### BPLUSIndex

A node is named by its place in the order of allocation, 0 for the code's -1.
One turn of the loop of `find_node_to_store`, and one level of
`split_insert_node`, is one action; `call` holds the arguments of the pending
one.  A state in the middle of an insertion is what the file holds when the flush is
cut off there (`CutSplitHidesHalf`); the stores within one level are not told apart.  Arrays are sequences of length `num_keys` (children: one more): neither
search reads past that.  `ChildToStore` and `ChildToLoad` are the two rules of
descent, which differ on keys that equal a separator.  Keys are unique, as the
code assumes.

### BlockCache

`cache` is a record with the fields of the class.  Each method is an operator
from a cache to a cache, and each handler an action that composes methods with
what follows them in the code (the flush after `write` and `truncate`, the
release of `Block` objects nobody points to any more).  `Block` objects are
shared pointers (`Refs`) so that the sharing between `Inode::blocks_` and
`dirty_block_`, and between inodes after a rename, is kept.

`disk` is the sequence of trees, `visit` the order of the loader's loop over the
ones it has mapped, `mapped` whether those addresses are valid.  The constructor
copies a loader whose destructor unmaps everything, so `zippyfs_init` leaves
`mapped` false when there are trees; a lookup through such an address
(`lookup_fault`) ends the process, as do the null dereferences in `read`.
`kill` ends it at any point between requests.

What is abstracted:

* one request at a time (`-s`), reads and writes of one whole block;
* the kernel looks a path up (`getattr`) before a request by path and reads
  or writes open files only; FUSE renames an open file instead of unlinking it;
* `crypto_hash` is injective;
* an entry of `dirty_block_mtime_` is kept with the entry of `dirty_block_` it
  belongs to; `dirty_`, `ctime` and `atime` influence nothing and are left out;
* the clock moves by some element of `ClockSteps` at each flush, and stands
  still otherwise: requests between two flushes may share a millisecond;
* the directory in which the trees are made is the one the loader reads.

### BlockIO

One file; `SIZE` bytes in a block.  `zippyfs_write` is the part of
`BlockCache::write` before its loop, `write_block` the loop body, with the loop's
variables in `call`, `write_return` the rest of the handler.  A `Block` has its
array and `actual_size`, which counts bytes that did not fit.  `trees` is the sequence of
TREE files, of which each has a version of the file or none, and `visit` the order of
the loader's loop over the mapped ones.  A load is `find_latest_inode` of
`BPLUSIndexLoader`, of which the module has an instance with this file as the only name: it
fails when no mapped tree has the file (`write_unloaded`, and the null inode of a
read), ends at the first tree without the file, and stops at a version without data.
The clock moves between two flushes here, so a version is as old as its place.

`file` is the reference: the sequence of bytes the clients wrote.  The code does not
keep it for every request.  `Handled` says which ones it does: requests that leave
no gap, and lie within one block, or start at the beginning of one and run into
blocks that the file does not have yet.  Others mix bytes: a request that runs into an
existing block fills it from the start of the buffer again, one that starts inside a
block the file does not have puts its bytes at the block's start, one that starts
inside a block and crosses its end drops the bytes between.  `sound` stays true while all requests are handled
and every load among them met every tree (`Complete`); the
first other request is followed to its end, for `WriteUsesBuffer`, and no further.  A
truncate counts as handled when it shrinks a cached file.

### TreeFile

A flush is the sequence of its stores: `pc` names the next one.  A region is a
sequence of cells, `mem.inodes` of records, `mem.paths` and `mem.bytes` of single
bytes; offsets are places in their own region.  The counts are made from the cache
as `flush_to_disk` makes them; a sum is written as the number of pairs of a place and one
of its units (`Total`).  A name is a number; a symbolic link is a path whose
inode has another name.  The tree is the set of slots whose
insertion has returned: that a search finds just those, however often nodes were split, is
`SearchFindsInodes` of `BPLUSIndex`.  From `insert_begins` to `insert_returns`, while
an insertion shifts and splits nodes, the state is `torn`, and nothing is said of what
a search finds; between two levels of a split `CutSplitHidesHalf` of `BPLUSIndex` says it.  Stores happen in program order: a
killed process leaves the shared mapping as it is, while a power failure may keep
any of the pages, which is not modelled.  `Lookup`, `PathIn`, `BlocksIn` and
`Listing` are the loader's reading of the file.

### Sync

Every process of the script is named by its pid and runs once.  `tree` counts how
many steps of its flush each place has of a tree, so that two cut-off versions can be
told apart.  rsync is external: it lists the sender's files, then for each one looks
whether the receiver has it, reads it, and renames a temporary file.  A kill ends
python and either its rsync too or not.  `raced` and `overlapped` are histories of two
scripts in `init` and of two rsyncs at once on one machine; the properties say what
each of them costs.

### ConcurrentWrites

Each access to a map of the cache, and to `size_`, is one step.  `full` is `size_ >= MAX_SIZE`: it
stays true until the end of a flush, unless a thread that removes a file lowers `size_`
(`other_files`).  `operator[]` on `inode_idx_` makes
an entry with an empty id when there is none, as in the code.  The write that fails
because the file cannot be loaded (run `reported_writes`) is in `failed` and left out of `done`, so
that what the run shows is due to the threads alone.

## 3. Runs

| Run | Shows | Bounds |
|---|---|---|
| `tires` | `TypeOK`, `TiresDisjoint`, `PointersFresh` | 4 requests of 0, 1 or 3 bytes, 2 addresses and failure: a zero request between two others, a move and no move |
| `index` | `TypeOK`, `SearchFindsInodes`, `TreeShape`, `FindMissesSeparators`, `CutSplitHidesHalf`, `InsertTerminates` | order 4, every insertion order of 8 keys: three levels, with splits of leaf, parent and root, left and right of the median |
| `cache_data` | `TypeOK`, `CachedBlocksKept`, `MergeFindsLatest`, `Durable`, `UnmountKeepsWrites` | one file, two blocks, two values, two flushes: one block newer in each tree |
| `cache_listing` | `ListingOrderFree`, `NewVersionListed` | a file, a directory, a link; two flushes and the pending one, in all orders |
| `cache_rename` | `NewVersionListed`, `RenameMovesContents`, `OthersKeepBlocks` | two files, one renamed over the other, two values, a flush: files cached and on disk only, names that exist and names that do not |
| `block_io` | `ReadsBack`, `ReadsInBounds`, `WriteUsesBuffer` | blocks of 2 bytes, files of up to 3, buffers of 1 and 3, three flushes: two blocks, the last one full or short, in different trees and a tree without the file, requests inside a block and across the boundary |
| `tree_file` | `RegionsHold`, `CutTreeReadable`, `CutTreeListable` | up to three entries in every order, links shorter and longer than their paths and links to paths in use, up to two dirty blocks of different sizes each |
| `sync` | `OneScript`, `PeersAgree`, `Delivers` | a machine with two scripts that makes a tree in two steps, one with a script that gets it; two rounds each, one kill or broken connection |
| `finds_latest` | violated: `FindsLatest` | two files, two flushes |
| `reported_writes` | violated: `ReportedWritesHappen` | one file, at most two flushes |
| `rename_loses` | violated: `CachedBlocksKept` | two files, a rename, at most two flushes |
| `concurrent_writes` | violated: `ReportedWritesKept` | two threads, one write each |

`SizeMod` and `NlinkMod` stand for 2^64 and 2^32; they are as small as lets the
counters wrap.  `Gens` bounds the live `Block` objects of one place: a reload
needs a second one while the old one is still dirty.  `MaxTrees` bounds the
flushes; a request that would flush once more is not taken.  `UninitSizes` is
what the uninitialised `size_` may hold at mount.  The values of blocks are only copied, so
they are a symmetry set; the properties about steps and `Durable` are safety properties,
for which symmetry is sound.  Three flushes are the fewest in `block_io` that put two blocks into
different trees beside one without the file, the case in which a load in the wrong order
leaves a hole.

`CHECK_DEADLOCK FALSE` stands where the system really stops: in `index` and
`tree_file` a flush is over, in `sync` all scripts have reached their limit, in
`concurrent_writes` all handlers have returned, and in `block_io` a request the
code does not handle is the last one.

`sync` has one tree: the properties are about one tree at a time, and files of one
list do not influence each other.  One fault is enough for a failed upload, a failed
download, or a killed script whose rsync runs on beside its successor's; with none
left, `Delivers` asks for the rest.  Two rounds are the fewest in which a tree can miss one.

**Fairness.** `BPLUSIndex`: `WF(Step)`, because `add_inode` is a
sequential call that nobody waits for in between.  `Sync`: `WF` of each script's own
steps, because python and rsync run by themselves; nobody has to start a script,
finish a flush or keep the connection up, and faults are not fair.  Everything
about the cache is safety.

**What the properties of `TreeFile` say, and do not.**  `RegionsHold` is conditional on
`PlainLinks`: no link text longer than its path, no two entries with one id.  Without it
the path or block region overflows; TLC reaches both.
`CutTreeReadable` speaks of caches without two entries of one id, and of every point after
the regions exist but the stores of an insertion.  Before that the file cannot be searched
(the loader fails to map an empty file, and circles in a header of zeros), and during an
insertion keys may stand beside the values of their neighbours: a tree cut off there, or
copied by the script, is served like any other.  Of an insertion that splits nodes
`CutSplitHidesHalf` adds what is found between two levels: everything but the
half that its parent does not have yet, which may be inodes added long before.

**What the properties of `BlockIO` say, and do not.**  `ReadsBack` and `ReadsInBounds` are
about files whose every request was handled and whose every load met all trees
(`Complete`: all are mapped and, but for the last one met, have data of the file).  Without the second
condition they fail: write block 0, flush, load, append block 1, flush, flush once more without the
file, and a loop that meets the second tree, the third and then the first loads block 1
alone, and the read of block 0 dereferences `end()`.  That the loop ends early is
`finds_latest`.

**What `PeersAgree` and `Delivers` say, and do not.**  All peers have one version of a tree, the
server's.  It need not be the finished one: a tree that is uploaded while it is written
stays cut off on the server and everywhere else, for ever, so "Contents in the disk
directory are synchronized with the server" holds of files and not of their
contents.  `Delivers` is about a script with a whole round left: after the last
round nothing is delivered until somebody starts another script.

**Durable, and what it does not say.** `vol` is the dirty block, or else the
newest version on disk; `stable` is the newest version on disk.  The property
says what is written to disk, and when.  It does not say that the loader finds
it: `MergeFindsLatest` says so when every tree holds data for the file, and
`finds_latest` shows that it fails otherwise.  A rename is not an operation of
the block store (blocks stay dirty under the old id), so `cache_data` has none,
and `rename_loses` shows what happens with one.

**What `OthersKeepBlocks` says, and does not.**  The blocks of a cached file change in requests on
it only.  "On it" includes the unlink of a name that its inode still lists from a rename
(`Changes`): that is what the code does, against "removes the thing in path" (`block_cache.h:86`).
What the property watches is the sharing of `Block` objects between two inodes.

### What the violated properties show

1. `find_latest_inode` returns at the first tree that does not hold the key.
2. After a flush, a write to a file that is still open finds neither the cache
   nor a mapped tree, does nothing and is reported as done.
3. A block written before a rename is not flushed under the new name.
4. In several threads, a write that is filed between the copying and the clearing of
   the maps is reported and lost; other orders of the same steps end the process.

More follows from the models, of what a call or two show, and no run is spent on it:

* an unlinked path is still found by `getattr`; a new file is not listed before a
  flush;
* `size_` wraps when a file that was not counted is unlinked, and the next write
  flushes;
* after a remount the loader's addresses are unmapped until the first `readdir`;
* `BPLUSIndex::find` misses the later separators of a node (`FindMissesSeparators`);
  only a commented-out assertion calls it;
* unlinking the old name of a renamed file clears the blocks of the file (mknod f, rename
  f to g, write g, unlink f);
* a write that runs into an existing block, or starts inside a new one, takes the wrong bytes
  or puts them at the wrong place; a truncate of a file that is not cached does nothing; both
  are reported as done;
* a symbolic link whose text is a path in use, or the text of another link, is inserted under a key the
  tree has; one that is longer than its path is written behind the region of the paths;
* two scripts that are in `init` together both run; a tree that is uploaded while it is being written is
  never completed; the script ends at Python's recursion limit, and what comes later is not
  delivered.

With 0 among `ClockSteps` the merge and the listing go wrong: two flushes within a
millisecond are ordered by the loop.

## 4. Proofs

TLAPS checks 26 theorems in eight modules, for all values of the constants: one for each
property below, and the inductive invariants of `TireFire` and `BPLUSIndex`.  Every
safety property of a passing run but `CutSplitHidesHalf` is among them.

| Module | Theorems | Assumed beyond the kinds of the constants |
|---|---|---|
| `TireFireProofs` | `TypeOK`, `TiresDisjoint`, `PointersFresh` | nothing |
| `BPLUSIndexProofs` | `TypeOK`, `TreeShape`, `SearchFindsInodes`, `FindMissesSeparators` | nothing |
| `BlockCacheProofs` | `TypeOK` | nothing |
| `DurableProofs` | `CachedBlocksKept`, `Durable`, `UnmountKeepsWrites` | `NoAliases`: no renames, no link's text is a path in use |
| `DurableProofs` | `RenameMovesContents` | `LinksApart`: no link's text is a path in use |
| `DurableProofs` | `OthersKeepBlocks` | `LinksApart`, `OwnTexts`: no two links share a text |
| `VersionProofs` | `MergeFindsLatest`, `ListingOrderFree`, `NewVersionListed` | `ClockMoves`: two flushes are never in one millisecond |
| `BlockIOProofs` | `WriteUsesBuffer`, `ReadsInBounds`, `ReadsBack` | nothing |
| `TreeFileProofs` | `CutTreeReadable`, `CutTreeListable`, `RegionsHold` | nothing |
| `SyncProofs` | `OneScript`, `PeersAgree` | nothing |

The kinds are in the `ASSUME`s of the modules the theorems are about
(`TireAssumption`, `IndexAssumption`, `CacheAssumption` and `NilAssumption`, `BlockIOAssumption` and
`BlockIONil`, `TreeFileAssumption`, `SyncAssumption`).  TLC evaluates them in every
run, and the instances of the runs meet the further condition of each theorem about a
property they check.

Most of these conditions exclude what the code does get wrong.  A rename loses blocks
(`rename_loses`).  A symbolic link is filed under the hash of its text: when that is a
path in use, TLC finds `RenameMovesContents` and `OthersKeepBlocks` violated.  Flushes within one millisecond
are ordered by the loop.  Two conditions are assumed for the argument only: for the half of
`NoAliases` that is about links, and for `OwnTexts`, TLC finds no violation without
them on two files and one tree.

### TireFireProofs

Neither property is
inductive alone: `Tables` adds that the three tables have one length, that the
file ends where the last tire does, and that there are no tires before the
first mapping.  The argument follows the code: `get_tire_first` and
`get_tire_grow` have the same effect on the tables once `Tables` is known,
rebasing rebuilds the pointer table with the same indices (`Rebased`), and each
conjunct is then shown for the old entries and the new one.

### BPLUSIndexProofs

While `split_insert_node` works its way up, the tree in the file lacks the key and the
child it carries: keys are missing from it, and a half of a node hangs nowhere.  The
invariant `IndexInv` is therefore about `Virtual`, the tree with these already put into
the node that is full, which alone may then hold `ORDER` keys.  `Tree` says that there
are a height and a set of keys for each node such that the children of a node are one
level lower and share out its keys at its separators, that every node but the root
is a child of its parent, and that nodes of one level have no key in common.
`Contents` says that the leaves hold the inodes added so far, each with its place in the
inode list; `FindCall` that the way down to the leaf is the right one so far, and
`SplitCall` that the node to be split is full and does not hold the key.  TLC checked
`IndexInv` for `ORDER` 4 with 7 keys and `ORDER` 5 with 8 before it was proved.

The step that matters is `split_insert_node`.  `SplitNode` shows that splitting a full
node and inserting is cutting the over-full node of `Virtual` in two.  The cut leaves a
tree but for the place of the new half (`Parted`); `Hang` gives it its place
in the parent, which is over-full in turn or not, and `Grow` in a new root.

A search takes a path of any length.  It is a recursive function of its steps (its
existence is `PathExists`), and what holds along it is shown by a least counterexample
(`UpTo`), which needs no induction theorem.  The path ends at a leaf where the
key belongs, and as the key sets of a level are disjoint there is one such leaf.
`find` takes the wrong child at a separator behind the first, and by the same
disjointness never comes back (`FindMissesSeparators`).

### BlockCacheProofs

The invariant is `IInv`: `TypeOK` and, of the cache, `Sound`:
`Resolves` (a path in `inode_idx_` leads to an inode, so no request
dereferences a missing one), `Placed` (a `Block` object is used only for the
place it was made for) and `Filled` (a dirty block has contents, so a flush
has something to write).  Every method is shown to be of one of four kinds, and
each kind to preserve `Sound`: it gives a path a new inode (`Assigned`), keeps
or drops the blocks of inodes (`Shrunk`), loads an inode into objects nobody
held (`Loaded`), or writes one block (`Written`).  A rename composes them.
That a load puts typed contents into the cache rests on lemmas about the merge: the
winner of the loader's loop exists and is one of the versions on disk.  The
existence is shown by a least counterexample (`Least`), as no induction over the
loop is available.

### DurableProofs

Without renames, the
invariant `KInv` adds `Faithful`: `Kept` says of every inode what `CachedBlocksKept`
says of those a path leads to; `OwnObjects`, that the objects of an inode were
made for it, is why a write to one inode cannot change another; `OwnIds` and
`DirtyListed`, that an inode with dirty blocks is cached under its own path, are
why a path that is not cached has no dirty block that a load could hide.

`ImplementsStore` is the refinement of `BlockStore`, step by step: a write is a write of the
store when it happens and a write and a flush when it fills the cache, an unmount
is a flush, a kill a crash, and everything else changes neither `vol` nor `stable`.
`DInv` adds that a dirty cache has `has_changed_` set (or an unmount would write
nothing) and that an unmounted one is clean.  `DirtyListed` is what makes the flush
walk every inode with a dirty block.

With renames, `NInv` adds two facts to `IInv`: a path is filed under its own hash, or under
that of the text it is a link to (`Filed`), so that no two paths of a rename have one inode; and no two
inodes have a `Block` object in common (`Apart`), although a rename builds one inode from
the pointers of another, because it clears the other in the same step.  Every method
is then shown to leave all but a few paths, inodes and objects aside (`Aside`), and a
file that is left aside looks the same to its readers (`AsideView`).  `Moved` says what
a rename does to the two inodes it is about, after the loads it begins with.

### VersionProofs

The merge compares times only.  `VInv` says what times tell: every version on disk is older than
the clock (`Past`), later trees hold younger versions of a block (`Ordered`), versions
of an inode with one time agree about its deletion (`Agreed`), and a cached inode
is as old as the clock or has the time of an undeleted version on disk (`Timed`).
`Agreed` is the point of `ListingOrderFree`: an inode that is only
opened keeps its time and is flushed again, so ties do occur, and they are broken
by the order of the trees.

### BlockIOProofs

`WriteUsesBuffer` rests on `LInv`: the loop has used as many bytes as its blocks
have, or all of them (`Loop`).  `SInv` adds, while every request was a handled one, that
all blocks but the last are full (`Full`), that no block counts bytes that did not fit (`Fits`),
that what is not dirty is on disk as it is in the cache (`Agrees`), that the blocks hold the
bytes of `file` but for those the loop has yet to store (`Stored`), and that what the request
still has to do is something the loop handles: it lies in one block, or the blocks it runs
into do not exist (`Ahead`).  "On disk" is `DiskOf`: the newest length, and the newest
version of each block, over all trees.  The loader's loop is brought in by one lemma: as versions are
stamped in the order of the trees (`Stamped`), a loop that meets every tree finds
exactly `DiskOf`, in whatever order it meets them.
Block arithmetic (`DivMod`, `Times`) comes first, as lemmas.

### TreeFileProofs

`TInv` says of every store of the flush where the cursors are and what is behind them:
`Sized` (the regions are as long as counted), `Counted` (each entry met has its
slot), `Stored` (path, record and blocks of each entry lie behind the cursors,
and those of the entry in progress as far as it has come) and `Indexed` (the tree has
exactly the slots that are whole).  Entries that share an id are allowed here: they have a
slot each with the same contents.  `CutTreeReadable` leaves them out all the same, as the tree of
`BPLUSIndex` has unique keys.  `RegionsHold` needs that the cursors are sums over
the entries finished (`Spent`), so that what an entry adds still fits in what was
counted; sums are cardinalities of sets of pairs, which the library's lemmas about
finite sets handle where a recursive sum would need induction.

### SyncProofs

`OneScript`: of scripts past `init`, the running one is in the pid file
(`PidOfRunning`), and while one is in `init` no other runs (`InitAlone`).
`PeersAgree`: a copy on its way to the server is of a tree that the server does not
have and only its owner can send, one on its way from the server is what the
server still has (`InFlight`), and a machine has one rsync at a time unless it is in
`overlapped` (`CopiesAlone`).

### Left to TLC

* Liveness: `InsertTerminates` and `Delivers`.
* `CutSplitHidesHalf`.  `IndexInv` speaks of the tree with the carried half in place
  (`Virtual`); what a search finds in the tree as it stands in the file, without it, would need the search lemmas
  again for a tree with a part cut out.
* The properties that runs show violated.

## 5. Plan

Done: all the models and runs above; the proofs of every safety property of a passing
run but one.  What is left:

1. `CutSplitHidesHalf` for every order, and what is found inside one level of a split,
   store by store.
2. `CachedBlocksKept`, `Durable` and `UnmountKeepsWrites` with links whose text is a path in
   use, and `OthersKeepBlocks` with links that share a text: nothing writes through
   a path while it is filed as a link, as FUSE renames open files before a link can take
   their name.
3. A relation between `BlockIO` and `BlockCache`: a handled write of whole
   blocks is a sequence of block writes.

## 6. Not modelled

* `print` and logging; unused code (`get_record`, `get_flush_record`, `flush_to_fd`,
  the checksum and file name helpers of `util.h`); the stubs `access`, `chmod`,
  `utimens`; `readlink`, which only reads.
* `Main.c` but for `zippyfs_init`: arguments, directories and the machine name.  Nothing reads
  the name, and the order of the directories fails on the first start whatever else
  happens (`zippyfs_init` opens the one that is made after it).
* The log of removed files: nothing in the repository writes to it.
* Power failure, which may keep some pages of a mapping and lose others.
* Handlers other than `write` in several threads: any two of them that touch a map at
  once are undefined in C++ already.
