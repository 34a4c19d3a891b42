----------------------------- MODULE BlockCache -----------------------------
(***************************************************************************)
(* The block cache (block_cache.cpp, inode.cpp), the TREE files it is      *)
(* flushed to, the loader's view of them, and the FUSE handlers that drive *)
(* it (fuse_ops.cpp).                                                      *)
(*                                                                         *)
(* One action is one FUSE request, run to its end: the file system is      *)
(* mounted single-threaded (-s).  Reads and writes are of one whole block. *)
(* cache is the BlockCache object; the methods that change it are          *)
(* operators from a cache to a cache, composed in the handlers.            *)
(*                                                                         *)
(* The kernel looks a path up (getattr) before it sends a request by path, *)
(* and sends reads and writes only for open files.                         *)
(***************************************************************************)
EXTENDS BPLUSIndexLoader, FiniteSets, Functions

CONSTANTS
  FilePaths, DirPaths,  \* paths used for files and for directories
  Links,                \* <<text, path>> pairs symlink may be called with
  Renames,              \* <<from, to>> pairs rename may be called with
  Lengths,              \* lengths truncate may be called with, in blocks
  Values,               \* block contents
  MAX_SIZE,             \* size_ at which a write flushes
  SizeMod, NlinkMod,    \* size_ and nlink_ wrap (2^64 and 2^32 in the build)
  UninitSizes,          \* what size_, never initialised, may hold at mount
  ClockSteps,           \* how far the clock may move between two flushes
  Gens,                 \* bound on the live Block objects of one block
  MaxTrees              \* bound on the number of flushes

Paths == FilePaths \cup DirPaths

ASSUME CacheAssumption ==
  /\ Paths \subseteq Names
  /\ Links \subseteq Names \X Paths
  /\ Renames \subseteq {r \in Paths \X Paths : r[1] # r[2]}
  /\ Parent \in [Names -> Dirs]
  /\ Blocks \subseteq Nat /\ Lengths \subseteq Nat
  /\ MAX_SIZE \in Nat /\ MaxTrees \in Nat
  /\ SizeMod \in Nat \ {0} /\ NlinkMod \in Nat /\ NlinkMod > 2
  /\ UninitSizes \subseteq 0..(SizeMod - 1)
  /\ ClockSteps \subseteq Nat
  /\ Nil \notin Values /\ Nil \notin Ids

VARIABLES
  mounted,  \* the process runs
  cache,    \* the BlockCache object
  disk,     \* the TREE files, in the order in which they were written
  visit,    \* the loader's loop over file_to_mem_: places in disk
  mapped,   \* whether the addresses in file_to_mem_ are still mapped
  handles,  \* the paths the kernel has open
  now       \* Util::get_time

vars == <<mounted, cache, disk, visit, mapped, handles, now>>
-----------------------------------------------------------------------------
(* The state of the cache.                                                 *)

Modes == {"reg", "dir", "lnk"}

\* Block objects are shared by pointer between an inode and dirty_block_,
\* and, after a rename, between inodes.  A pointer names the inode and the
\* place the object was made for.
Refs == [id : Ids, blk : Blocks, gen : Gens]

Inode == [mode : Modes, nlink : 0..(NlinkMod - 1), mtime : Nat, size : Nat,
          deleted : BOOLEAN, refs : SUBSET Names,
          blocks : [Blocks -> Refs \cup {Nil}]]

DiskInode == [mode : Modes, nlink : 0..(NlinkMod - 1), mtime : Nat, size : Nat,
              deleted : BOOLEAN,
              blocks : [Blocks -> [data : Values, mtime : Nat] \cup {Nil}]]

\* An entry of dirty_block_ with its entry of dirty_block_mtime_: write sets
\* both, and a flush reads the second only beside the first.
Dirty == [ref : Refs, mtime : Nat]

Cache == [inode_idx : [Paths -> Ids \cup {Nil}],
          inode_ptrs : [Ids -> Inode \cup {Nil}],
          dirty_block : [Ids -> [Blocks -> Dirty \cup {Nil}]],
          block : [Refs -> Values \cup {Nil}],
          size : 0..(SizeMod - 1),
          has_changed : BOOLEAN]

\* Nil is none of the things it stands in for.
ASSUME NilAssumption ==
  /\ Nil \notin Inode /\ Nil \notin Refs /\ Nil \notin Dirty
  /\ Nil \notin DiskInode /\ Nil \notin [data : Values, mtime : Nat]
  /\ Nil \notin Modes

NoBlocks == [b \in Blocks |-> Nil]

\* A new BlockCache.
EmptyCache(size) ==
  [inode_idx |-> [p \in Paths |-> Nil],
   inode_ptrs |-> [id \in Ids |-> Nil],
   dirty_block |-> [id \in Ids |-> NoBlocks],
   block |-> [r \in Refs |-> Nil],
   size |-> size,
   has_changed |-> FALSE]

in_cache(c, p) == c.inode_idx[p] # Nil

get_inode_by_path(c, p) == c.inode_ptrs[c.inode_idx[p]]

\* The Block objects some shared_ptr still holds.
InUse(c) ==
  {r \in Refs : \E id \in Ids :
     \/ c.dirty_block[id][r.blk] # Nil /\ c.dirty_block[id][r.blk].ref = r
     \/ c.inode_ptrs[id] # Nil /\ c.inode_ptrs[id].blocks[r.blk] = r}

\* The last shared_ptr to an object frees it.
Freed(c) ==
  LET used == InUse(c)
  IN  [c EXCEPT !.block = [r \in Refs |-> IF r \in used THEN @[r] ELSE Nil]]

\* A new Block object for block b of inode id.
NewRefs(c, id, b) == {r \in Refs \ InUse(c) : r.id = id /\ r.blk = b}

NewRef(c, id, b) == CHOOSE r \in NewRefs(c, id, b) : TRUE

\* Bound: no block needs more than Gens live objects.
HasRoom(c, id) == \A b \in Blocks : NewRefs(c, id, b) # {}
-----------------------------------------------------------------------------
(* Inode's methods.                                                        *)

\* Inode::Inode(path), then set_mode.
NewInode(n, mode) ==
  [mode |-> mode, nlink |-> IF mode = "dir" THEN 2 ELSE 1, mtime |-> now, size |-> 0,
   deleted |-> FALSE, refs |-> {n}, blocks |-> NoBlocks]

dec_link(ino, n) ==
  LET nlink == (ino.nlink - 1) % NlinkMod
  IN  [ino EXCEPT !.nlink = nlink, !.refs = @ \ {n},
                  !.blocks = IF nlink = 0 THEN NoBlocks ELSE @]

\* Mutant: the deletion keeps the old modification time.
DeleteKeepsMtime(ino) ==
  [ino EXCEPT !.refs = {}, !.nlink = 0,
              !.blocks = NoBlocks, !.deleted = TRUE]

\* Mutant: the deleted inode keeps its blocks.
DeleteKeepsBlocks(ino) ==
  [ino EXCEPT !.refs = {}, !.nlink = 0, !.mtime = now, !.deleted = TRUE]

delete_inode(ino) ==
  [ino EXCEPT !.refs = {}, !.nlink = 0, !.mtime = now,
              !.blocks = NoBlocks, !.deleted = TRUE]

set_size(ino, n) == [ino EXCEPT !.size = n, !.mtime = now]

\* Mutant: the new inode starts without blocks.
RenamedWithoutBlocks(that) ==
  [that EXCEPT !.deleted = FALSE, !.mtime = now, !.blocks = NoBlocks]

\* Inode::Inode(path, that): everything but the name and the times, the old
\* name's entry in links_ included.
RenamedInode(that) == [that EXCEPT !.deleted = FALSE, !.mtime = now]
-----------------------------------------------------------------------------
(* BlockCache's methods.                                                   *)

make_file(c, p, mode) ==
  [c EXCEPT !.inode_idx[p] = crypto_hash(p),
            !.inode_ptrs[crypto_hash(p)] = NewInode(p, mode),
            !.size = (@ + 1) % SizeMod,
            !.has_changed = TRUE]

get_latest_inode(p, get_data) == find_latest_inode(disk, visit, crypto_hash(p), get_data)

\* The inode load_from_disk builds.  delete_inode and add_block put the
\* current time over the mtime that was just set.
LoadedInode(p, di, ref) ==
  [mode |-> di.mode,
   nlink |-> IF di.deleted THEN 0 ELSE di.nlink,
   mtime |-> IF di.deleted \/ HasData(di) THEN now ELSE di.mtime,
   size |-> di.size,
   deleted |-> di.deleted,
   refs |-> IF di.deleted THEN {} ELSE {p},
   blocks |-> [b \in Blocks |-> IF di.blocks[b] = Nil THEN Nil ELSE ref[b]]]

\* load_from_disk, also called load_from_shdw: the cache is unchanged when
\* there is no version on disk.
load_from_disk(c, p) ==
  LET di == get_latest_inode(p, TRUE)
      id == crypto_hash(p)
      ref == [b \in Blocks |-> NewRef(c, id, b)]
  IN  IF di = Nil THEN c
      ELSE [c EXCEPT !.inode_idx[p] = id,
                     !.inode_ptrs[id] = LoadedInode(p, di, ref),
                     !.block = [r \in Refs |->
                       IF r.id = id /\ di.blocks[r.blk] # Nil /\ r = ref[r.blk]
                         THEN di.blocks[r.blk] ELSE @[r]]]

\* Mutant: a block the inode already has is overwritten in place and not
\* recorded in dirty_block_.
OverwriteNotDirty(c, p, b, v) ==
  LET id == c.inode_idx[p]
      ino == c.inode_ptrs[id]
      has_block == ino.blocks[b] # Nil
      ref == IF has_block THEN ino.blocks[b] ELSE NewRef(c, id, b)
  IN  [c EXCEPT !.inode_ptrs[id] = [ino EXCEPT !.size = IF @ < b + 1 THEN b + 1 ELSE @,
                                               !.mtime = now, !.blocks[b] = ref],
                !.block[ref] = v,
                !.dirty_block[id][b] = IF has_block THEN @ ELSE [ref |-> ref, mtime |-> now],
                !.has_changed = TRUE]

\* write's loop body for the one block written: into the Block object the
\* inode has, or into a new one.
write_block(c, p, b, v) ==
  LET id == c.inode_idx[p]
      ino == c.inode_ptrs[id]
      ref == IF ino.blocks[b] # Nil THEN ino.blocks[b] ELSE NewRef(c, id, b)
  IN  [c EXCEPT !.inode_ptrs[id] = [ino EXCEPT !.size = IF @ < b + 1 THEN b + 1 ELSE @,
                                               !.mtime = now, !.blocks[b] = ref],
                !.block[ref] = v,
                !.dirty_block[id][b] = [ref |-> ref, mtime |-> now],
                !.has_changed = TRUE]

\* remake_inode, for a file found in the cache.
Remade(c, p) == [c EXCEPT !.inode_ptrs[c.inode_idx[p]].deleted = FALSE]

\* BlockCache::write: unchanged when the file cannot be loaded.
write(c, p, b, v) ==
  LET ready == IF in_cache(c, p) THEN Remade(c, p) ELSE load_from_disk(c, p)
  IN  IF in_cache(ready, p) THEN write_block(ready, p, b, v) ELSE c

truncate(c, p, n) ==
  IF in_cache(c, p)
    THEN [c EXCEPT !.inode_ptrs[c.inode_idx[p]] = set_size(@, n), !.has_changed = TRUE]
    ELSE c

\* Mutant: size_ is a signed counter that does not wrap.
RemoveSigned(c, p) ==
  [c EXCEPT !.inode_ptrs[c.inode_idx[p]] = delete_inode(@),
            !.size = @ - 1,
            !.has_changed = TRUE]

\* Every inode that lists p in links_ loses a link, then p's is deleted.
remove(c, p) ==
  LET unlinked(ino) == IF ino # Nil /\ p \in ino.refs THEN dec_link(ino, p) ELSE ino
      ptrs == [id \in Ids |-> unlinked(c.inode_ptrs[id])]
  IN  [c EXCEPT !.inode_ptrs = [ptrs EXCEPT ![c.inode_idx[p]] = delete_inode(@)],
                !.size = (@ - 1) % SizeMod,
                !.has_changed = TRUE]

rmdir(c, p) ==
  [c EXCEPT !.inode_ptrs[c.inode_idx[p]] = delete_inode(@), !.has_changed = TRUE]

\* The inode made for a symbolic link is named, and hashed, by its text.
symlink(c, from, to) ==
  LET id == crypto_hash(from)
  IN  [c EXCEPT !.inode_idx[to] = id,
                !.inode_ptrs[id] = NewInode(from, "lnk"),
                !.has_changed = TRUE]

\* rename: from is loaded when it is not cached, to is loaded or made when it
\* is not cached; dirty_block_ stays as it is.
rename(c, from, to) ==
  LET c1 == IF in_cache(c, from) THEN c ELSE load_from_disk(c, from)
      c2 == IF in_cache(c1, to) THEN c1 ELSE load_from_disk(c1, to)
      mode == get_inode_by_path(c1, from).mode
      c3 == IF in_cache(c2, to) THEN c2 ELSE make_file(c2, to, mode)
      that == get_inode_by_path(c3, from)
      c4 == [c3 EXCEPT !.inode_ptrs[c3.inode_idx[from]] = delete_inode(@)]
  IN  IF ~in_cache(c1, from) THEN c
      ELSE [c4 EXCEPT !.inode_idx[to] = crypto_hash(to),
                      !.inode_ptrs[crypto_hash(to)] = RenamedInode(that),
                      !.has_changed = TRUE]
-----------------------------------------------------------------------------
(* Flushing.                                                               *)

\* Mutant: a deleted inode is flushed without its dirty blocks.
DeletedWithoutData(c, id) ==
  LET ino == c.inode_ptrs[id]
      dirty == c.dirty_block[id]
      data(b) == [data |-> c.block[dirty[b].ref], mtime |-> dirty[b].mtime]
  IN  [mode |-> ino.mode, nlink |-> ino.nlink, mtime |-> ino.mtime, size |-> ino.size,
       deleted |-> ino.deleted,
       blocks |-> [b \in Blocks |-> IF dirty[b] = Nil \/ ino.deleted THEN Nil ELSE data(b)]]

\* Mutant: the loop over the dirty blocks runs to their number.
BlocksBelowCount(c, id) ==
  LET ino == c.inode_ptrs[id]
      dirty == c.dirty_block[id]
      count == Cardinality({b \in Blocks : dirty[b] # Nil})
      data(b) == [data |-> c.block[dirty[b].ref], mtime |-> dirty[b].mtime]
  IN  [mode |-> ino.mode, nlink |-> ino.nlink, mtime |-> ino.mtime, size |-> ino.size,
       deleted |-> ino.deleted,
       blocks |-> [b \in Blocks |-> IF b >= count \/ dirty[b] = Nil THEN Nil ELSE data(b)]]

\* What add_inode writes for one inode: its metadata and its dirty blocks.
FlushedInode(c, id) ==
  LET ino == c.inode_ptrs[id]
      dirty == c.dirty_block[id]
      data(b) == [data |-> c.block[dirty[b].ref], mtime |-> dirty[b].mtime]
  IN  [mode |-> ino.mode, nlink |-> ino.nlink, mtime |-> ino.mtime, size |-> ino.size,
       deleted |-> ino.deleted,
       blocks |-> [b \in Blocks |-> IF dirty[b] = Nil THEN Nil ELSE data(b)]]

Cached(c) == {c.inode_idx[p] : p \in {q \in Paths : in_cache(c, q)}}

NewTree(c) ==
  LET cached == Cached(c)
  IN  [id \in Ids |-> IF id \in cached THEN FlushedInode(c, id) ELSE Nil]

\* What flush_to_disk leaves of the cache; has_changed_ is never reset.
Flushed(c) == [EmptyCache(0) EXCEPT !.has_changed = c.has_changed]

\* flush_to_disk, when something changed: one new tree of all cached inodes;
\* without any there is no file, as TireFire makes it on the first request.
flush_to_disk(c) ==
  IF Cached(c) = {} THEN UNCHANGED <<disk, now>>
  ELSE /\ Len(disk) < MaxTrees
       /\ disk' = Append(disk, NewTree(c))
       /\ \E d \in ClockSteps : now' = now + d

\* flush_to_shdw(0), which ends write and truncate.
flush_to_shdw(c) ==
  IF c.size < MAX_SIZE \/ ~c.has_changed
    THEN cache' = Freed(c) /\ UNCHANGED <<disk, now>>
    ELSE cache' = Flushed(c) /\ flush_to_disk(c)
-----------------------------------------------------------------------------
(* Requests.                                                               *)

\* BlockCache::getattr: the mode, or Nil for ENOENT.
getattr(p) ==
  IF in_cache(cache, p) THEN get_inode_by_path(cache, p).mode
  ELSE LET di == get_latest_inode(p, FALSE)
       IN  IF di = Nil THEN Nil ELSE di.mode

\* The process is up and can find p without reading unmapped memory.
Reachable(p) == mounted /\ (mapped \/ in_cache(cache, p))

\* Bound: there are objects for the blocks of the inode p has, or would be
\* loaded into.
Loadable(p) ==
  HasRoom(cache, IF in_cache(cache, p) THEN cache.inode_idx[p] ELSE crypto_hash(p))

zippyfs_mknod(p) ==
  /\ Reachable(p) /\ getattr(p) = Nil
  /\ cache' = Freed(make_file(cache, p, "reg"))
  /\ UNCHANGED <<mounted, disk, visit, mapped, handles, now>>

zippyfs_mkdir(p) ==
  /\ Reachable(p) /\ getattr(p) = Nil
  /\ cache' = Freed(make_file(cache, p, "dir"))
  /\ UNCHANGED <<mounted, disk, visit, mapped, handles, now>>

zippyfs_symlink(from, to) ==
  /\ Reachable(to) /\ getattr(to) = Nil
  /\ to \notin handles
  /\ cache' = Freed(symlink(cache, from, to))
  /\ UNCHANGED <<mounted, disk, visit, mapped, handles, now>>

\* open loads the file, and does not say whether it could.
zippyfs_open(p) ==
  /\ Reachable(p) /\ getattr(p) = "reg" /\ Loadable(p)
  /\ cache' = IF in_cache(cache, p) THEN cache ELSE load_from_disk(cache, p)
  /\ handles' = handles \cup {p}
  /\ UNCHANGED <<mounted, disk, visit, mapped, now>>

\* The last close: FUSE's release, for which there is no handler.
close(p) ==
  /\ mounted /\ p \in handles
  /\ handles' = handles \ {p}
  /\ UNCHANGED <<mounted, cache, disk, visit, mapped, now>>

\* Where the process ends its volatile state goes with it.
Down ==
  /\ mounted' = FALSE
  /\ cache' = EmptyCache(0)
  /\ visit' = << >>
  /\ mapped' = TRUE
  /\ handles' = {}

\* Inode::read dereferences blocks_.find(b) for every b below the NUMBER of
\* blocks, and BlockCache::read dereferences the inode whether it could be
\* loaded or not: either ends the process.
zippyfs_read(p, b) ==
  /\ Reachable(p) /\ p \in handles /\ Loadable(p)
  /\ LET c == IF in_cache(cache, p) THEN cache ELSE load_from_disk(cache, p)
         ino == get_inode_by_path(c, p)
         held == {x \in Blocks : ino.blocks[x] # Nil}
     IN  \/ /\ in_cache(c, p) /\ b < ino.size
            /\ b \in held \/ b >= Cardinality(held)
            /\ cache' = c
            /\ UNCHANGED <<mounted, disk, visit, mapped, handles, now>>
         \/ /\ in_cache(c, p) => b < ino.size /\ b \notin held /\ b < Cardinality(held)
            /\ Down /\ UNCHANGED <<disk, now>>

\* The handler answers size, whatever write returned.
zippyfs_write(p, b, v) ==
  /\ Reachable(p) /\ p \in handles /\ Loadable(p)
  /\ flush_to_shdw(write(cache, p, b, v))
  /\ UNCHANGED <<mounted, visit, mapped, handles>>

zippyfs_truncate(p, n) ==
  /\ Reachable(p) /\ getattr(p) = "reg"
  /\ flush_to_shdw(truncate(cache, p, n))
  /\ UNCHANGED <<mounted, visit, mapped, handles>>

\* FUSE renames a file that is open instead of unlinking it.
zippyfs_unlink(p) ==
  /\ Reachable(p) /\ getattr(p) \in {"reg", "lnk"}
  /\ p \notin handles
  /\ in_cache(cache, p)
  /\ cache' = Freed(remove(cache, p))
  /\ UNCHANGED <<mounted, disk, visit, mapped, handles, now>>

zippyfs_rmdir(p) ==
  /\ Reachable(p) /\ getattr(p) = "dir"
  /\ in_cache(cache, p)
  /\ cache' = Freed(rmdir(cache, p))
  /\ UNCHANGED <<mounted, disk, visit, mapped, handles, now>>

zippyfs_rename(from, to) ==
  /\ Reachable(from) /\ Reachable(to) /\ Loadable(from) /\ Loadable(to)
  /\ getattr(from) # Nil
  /\ getattr(to) # Nil => (getattr(from) = "dir" <=> getattr(to) = "dir")
  /\ to \notin handles
  /\ cache' = Freed(rename(cache, from, to))
  /\ handles' = IF from \in handles THEN (handles \ {from}) \cup {to} ELSE handles
  /\ UNCHANGED <<mounted, disk, visit, mapped, now>>

Orders(n) == Bijection(1..n, 1..n)

\* get_children calls load_trees first: everything on disk is mapped again.
\* The loop's order may change when the map gains a file.
zippyfs_readdir ==
  /\ mounted
  /\ mapped' = TRUE
  /\ IF Len(visit) = Len(disk) THEN UNCHANGED visit ELSE visit' \in Orders(Len(disk))
  /\ UNCHANGED <<mounted, cache, disk, handles, now>>

\* A lookup through an address that is no longer mapped ends the process.
lookup_fault(p) ==
  /\ mounted /\ ~Reachable(p)
  /\ Down /\ UNCHANGED <<disk, now>>

\* Unmounting flushes whatever the size.
zippyfs_destroy ==
  /\ mounted
  /\ IF cache.has_changed THEN flush_to_disk(cache) ELSE UNCHANGED <<disk, now>>
  /\ Down

\* The process is killed, or the machine stops.
kill ==
  /\ mounted
  /\ Down /\ UNCHANGED <<disk, now>>

\* The constructor copies a loader whose destructor then unmaps every tree.
zippyfs_init ==
  /\ ~mounted
  /\ mounted' = TRUE
  /\ \E size \in UninitSizes : cache' = EmptyCache(size)
  /\ visit' \in Orders(Len(disk))
  /\ mapped' = (disk = << >>)
  /\ UNCHANGED <<disk, handles, now>>

Init ==
  /\ mounted = FALSE
  /\ cache = EmptyCache(0)
  /\ disk = << >>
  /\ visit = << >>
  /\ mapped = TRUE
  /\ handles = {}
  /\ now = 1

Next ==
  \/ \E p \in FilePaths : zippyfs_mknod(p)
  \/ \E p \in DirPaths : zippyfs_mkdir(p)
  \/ \E p \in Paths : zippyfs_open(p) \/ close(p) \/ zippyfs_unlink(p) \/ zippyfs_rmdir(p)
  \/ \E p \in Paths, b \in Blocks : zippyfs_read(p, b)
  \/ \E p \in Paths, b \in Blocks, v \in Values : zippyfs_write(p, b, v)
  \/ \E p \in Paths, n \in Lengths : zippyfs_truncate(p, n)
  \/ \E l \in Links : zippyfs_symlink(l[1], l[2])
  \/ \E r \in Renames : zippyfs_rename(r[1], r[2])
  \/ \E p \in Paths : lookup_fault(p)
  \/ zippyfs_readdir \/ zippyfs_destroy \/ kill \/ zippyfs_init

Spec == Init /\ [][Next]_vars
-----------------------------------------------------------------------------
(* Properties.                                                             *)

TypeOK ==
  /\ mounted \in BOOLEAN
  /\ cache \in Cache
  /\ disk \in Seq([Ids -> DiskInode \cup {Nil}])
  /\ visit \in Seq(1..Len(disk))
  /\ mapped \in BOOLEAN
  /\ handles \subseteq Paths
  /\ now \in Nat

Latest(trees, id, b) ==
  LET held == {i \in DOMAIN trees : trees[i][id] # Nil /\ trees[i][id].blocks[b] # Nil}
  IN  IF held = {} THEN Nil ELSE trees[CHOOSE i \in held : \A j \in held : j <= i][id].blocks[b].data

\* The durable contents of a block: its last version on disk.
stable == [id \in Ids |-> [b \in Blocks |-> Latest(disk, id, b)]]

\* The contents written last: the dirty block, if there is one.
vol ==
  [id \in Ids |-> [b \in Blocks |->
     LET dirty == cache.dirty_block[id][b]
     IN  IF dirty # Nil THEN cache.block[dirty.ref] ELSE stable[id][b]]]

Store == INSTANCE BlockStore WITH Files <- Ids, up <- mounted

\* The cache and the trees together implement a durable block store: a write
\* changes the block written and no other, a flush makes every dirty block
\* durable (write, flush_to_disk, add_inode), and neither unlink, load nor a
\* crash touches what is durable.
Durable == Store!Spec

\* Unmounting loses no write, not even to a file that was deleted since
\* (zippyfs_destroy flushes whatever the size).
UnmountKeepsWrites == [][zippyfs_destroy => stable' = vol]_vars

\* Dropping the cache after a flush loses no block that a reader could have
\* seen: the contents of every cached block are the ones that will be
\* flushed for that inode and place, or are on disk there already
\* (flush_to_disk clears inode_ptrs_ having written only dirty_block_).
CachedBlocksKept ==
  \A p \in Paths, b \in Blocks :
    LET id == cache.inode_idx[p]
        ref == get_inode_by_path(cache, p).blocks[b]
    IN  in_cache(cache, p) /\ ref # Nil =>
          \/ cache.dirty_block[id][b] # Nil /\ cache.dirty_block[id][b].ref = ref
          \/ /\ cache.dirty_block[id][b] = Nil
             /\ \E i \in DOMAIN disk :
                  /\ disk[i][id] # Nil /\ disk[i][id].blocks[b] # Nil
                  /\ disk[i][id].blocks[b].data = cache.block[ref]

\* When every tree has data for a file, find_latest_inode puts together the
\* last flushed version of each of its blocks, in whatever order the
\* unordered_map yields the trees.
MergeFindsLatest ==
  \A id \in Ids, order \in Orders(Len(disk)) :
    (\A i \in DOMAIN disk : disk[i][id] # Nil /\ HasData(disk[i][id])) =>
      \A b \in Blocks :
        LatestBlock(disk, order, id, Reached(disk, order, id, TRUE), b) = Latest(disk, id, b)

\* What readdir lists does not depend on the order in which the
\* unordered_map yields the trees, although versions may share an mtime.
ListingOrderFree ==
  \A dir \in Dirs, order \in Orders(Len(disk)) :
    readdir_names(disk, order, dir) = readdir_names(disk, [i \in DOMAIN disk |-> i], dir)

\* A version made since the last flush wins over every version on disk: were
\* the cache flushed now, readdir would list a path changed since then
\* exactly when it is not deleted, in whatever order it meets the trees.
NewVersionListed ==
  LET trees == Append(disk, NewTree(cache))
      listed(n, order) == n \in readdir_names(trees, order, Parent[n])
  IN  \A p \in Paths, order \in Orders(Len(trees)) :
        /\ cache.inode_idx[p] = crypto_hash(p)
        /\ get_inode_by_path(cache, p).mtime = now
        => (listed(p, order) <=> ~get_inode_by_path(cache, p).deleted)

\* What a reader of the cached file p sees in each block.
View(c, p) ==
  [b \in Blocks |-> LET ref == get_inode_by_path(c, p).blocks[b]
                    IN  IF ref = Nil THEN Nil ELSE c.block[ref]]

\* A rename moves the contents and the length of the file, cached or on disk
\* only, to the new name, whatever was there, and leaves an inode without
\* blocks under the old one that is deleted as of now: a reader of either
\* name, and a flush, find what the rename says (BlockCache::rename).
RenameMovesContents ==
  [][\A r \in Renames :
       LET from == r[1] to == r[2]
           c == IF in_cache(cache, from) THEN cache ELSE load_from_disk(cache, from)
           old == get_inode_by_path(cache', from)
           new == get_inode_by_path(cache', to)
       IN  zippyfs_rename(from, to) /\ in_cache(c, from) =>
             /\ View(cache', to) = View(c, from) /\ View(cache', from) = NoBlocks
             /\ new.size = get_inode_by_path(c, from).size
             /\ ~new.deleted /\ old.deleted
             /\ new.mtime = now /\ old.mtime = now]_vars

\* The requests that are to change the blocks of q, and those that do since
\* remove looks for its path in links_, where a renamed file keeps its old
\* name.
Changes(q) ==
  \/ \E b \in Blocks, v \in Values : zippyfs_write(q, b, v)
  \/ \E p \in Paths : p \in {q} \cup get_inode_by_path(cache, q).refs /\ zippyfs_unlink(p)
  \/ zippyfs_rmdir(q)
  \/ \E r \in Renames : q \in {r[1], r[2]} /\ zippyfs_rename(r[1], r[2])

\* What a reader of a cached file sees changes in those requests only:
\* although Block objects are shared by pointer, and move from inode to inode
\* in a rename, no two files come to share one (BlockCache::rename, write,
\* load_from_disk).
OthersKeepBlocks ==
  [][\A q \in Paths :
       in_cache(cache, q) /\ in_cache(cache', q) /\ View(cache', q) # View(cache, q) => Changes(q)]_vars
-----------------------------------------------------------------------------
(* What the comments and the README say, and the code does not do.         *)

\* "finds the latest inode for the given path" (bplus_index_loader.h:50),
\* with every tree on disk mapped.
FindsLatest ==
  mounted /\ mapped /\ Len(visit) = Len(disk) =>
    \A p \in Paths, i \in DOMAIN disk :
      LET id == crypto_hash(p)
          di == get_latest_inode(p, FALSE)
      IN  disk[i][id] # Nil => di # Nil /\ disk[i][id].mtime <= di.mtime

\* "@return the number of bytes written" (fuse_ops.cpp:156): a block the
\* handler will report written to an open file is one it can write.
ReportedWritesHappen ==
  \A p \in handles, b \in Blocks, v \in Values :
    Reachable(p) => in_cache(write(cache, p, b, v), p)
=============================================================================
