------------------------------ MODULE BlockIO ------------------------------
(***************************************************************************)
(* The bytes of one file: how BlockCache::write cuts a request into blocks *)
(* (block_cache.cpp), how a Block stores them (block.cpp), how Inode::read *)
(* puts them together again (inode.cpp), and what a flush and a reload     *)
(* keep of them.                                                           *)
(*                                                                         *)
(* Module BlockCache has the same operations with blocks as values.  Here  *)
(* there is one file and its bytes.  A tree is the map of module           *)
(* BPLUSIndexLoader with that file as its only name, and is as new as its  *)
(* place in trees: the clock moves between two flushes.                    *)
(*                                                                         *)
(* file is the file as its clients wrote it.  The code does not keep it    *)
(* for every request: sound is true while each request so far was one      *)
(* that it does handle (Handled and Complete, below).  The first other     *)
(* request is followed to its end, and is the last one.                    *)
(***************************************************************************)
EXTENDS Integers, Sequences, SequencesExt, FiniteSets, Functions

CONSTANTS
  SIZE,     \* SIZE_: bytes in a block (4096 in the build)
  Bufs,     \* the buffers a client may write, as sequences of bytes
  MaxLen,   \* bound on the length of the file
  MaxTrees, \* bound on the number of flushes
  Zero,     \* the byte 0
  Junk,     \* a byte of memory nobody has set
  Nil       \* absent

\* What a byte of the file, or of a buffer, may be.
Bytes == {Zero, Junk} \cup UNION {{buf[i] : i \in DOMAIN buf} : buf \in Bufs}

ASSUME BlockIOAssumption ==
  /\ SIZE \in Nat \ {0} /\ MaxLen \in Nat /\ MaxTrees \in Nat
  /\ \A buf \in Bufs : buf \in Seq(Bytes) /\ buf # << >>

VARIABLES
  inode,        \* the cached inode, or Nil
  dirty,        \* the block indices in dirty_block_
  has_changed,  \* has_changed_, as far as requests on this file set it
  trees,        \* the TREE files, in the order in which they were written
  visit,        \* the loader's loop over the mapped ones: places in trees
  call,         \* the write in progress, or Nil
  file,         \* history: the bytes of the file
  sound         \* history: every request so far was one the code handles

vars == <<inode, dirty, has_changed, trees, visit, call, file, sound>>

ulong_ceil(a, b) == IF a % b = 0 THEN a \div b ELSE a \div b + 1

Idx == 0..(ulong_ceil(MaxLen, SIZE) - 1)

Block == [data : [0..(SIZE - 1) -> Bytes], actual_size : Nat]

Inode == [blocks : [Idx -> Block \cup {Nil}], size : Nat]

Call == [buf : Bufs, offset : Nat, block_idx : Nat, curr_idx : Nat, block_size : Nat,
         offsetted : BOOLEAN]

Loader == INSTANCE BPLUSIndexLoader
            WITH Names <- {"file"}, Dirs <- {}, Parent <- << >>, Blocks <- Idx

Id == Loader!crypto_hash("file")

\* What a tree holds of the file, and what a load puts together.
Version == [mtime : Nat, size : Nat,
            blocks : [Idx -> [mtime : Nat, data : Seq(Bytes)] \cup {Nil}]]

Merged == [mtime : Nat, size : Nat, blocks : [Idx -> Seq(Bytes) \cup {Nil}]]

\* Nil is none of the things it stands in for.
ASSUME BlockIONil ==
  /\ Nil \notin Block /\ Nil \notin Inode /\ Nil \notin Call /\ Nil \notin Seq(Bytes)
  /\ Nil \notin Version /\ Nil \notin Merged /\ Nil \notin [mtime : Nat, data : Seq(Bytes)]
-----------------------------------------------------------------------------
(* Block.                                                                  *)

EmptyBlock == [data |-> [i \in 0..(SIZE - 1) |-> Zero], actual_size |-> 0]

\* Mutant: the bytes are added to actual_size_ although they overwrite others.
SizeAccumulates(blk, data, n, offset) ==
  [data |-> [i \in 0..(SIZE - 1) |->
               IF i >= offset /\ i - offset < n THEN data[i - offset + 1] ELSE blk.data[i]],
   actual_size |-> blk.actual_size + n]

\* The first n bytes of data go to place offset of the block; what does not
\* fit is dropped, and counted.
insert_data(blk, data, n, offset) ==
  [data |-> [i \in 0..(SIZE - 1) |->
               IF i >= offset /\ i - offset < n THEN data[i - offset + 1] ELSE blk.data[i]],
   actual_size |-> IF n + offset > blk.actual_size THEN n + offset ELSE blk.actual_size]

\* Block::get_data, and what a flush copies: actual_size_ bytes from the
\* start of the array, even if the array ends before.
get_data(blk) ==
  [i \in 1..blk.actual_size |-> IF i <= SIZE THEN blk.data[i - 1] ELSE Junk]
-----------------------------------------------------------------------------
(* Inode.                                                                  *)

NewInode == [blocks |-> [k \in Idx |-> Nil], size |-> 0]

has_block(ino, k) == ino.blocks[k] # Nil

num_blocks(ino) == Cardinality({k \in Idx : has_block(ino, k)})

\* The blocks that a read running to the last block would dereference in
\* vain: it runs to the number of blocks.
Missing(ino) == {k \in 0..(num_blocks(ino) - 1) : ~has_block(ino, k)}

\* Mutant: the offset into the first block is applied to every block.
OffsetEveryBlock(ino, n, offset) ==
  LET first == offset \div SIZE
      chunk(k) == LET bytes == get_data(ino.blocks[k])
                  IN  SubSeq(bytes, (offset % SIZE) + 1, Len(bytes))
      bytes == FlattenSeq([i \in 1..(num_blocks(ino) - first) |-> chunk(first + i - 1)])
  IN  [i \in 1..n |-> IF i <= Len(bytes) THEN bytes[i] ELSE Junk]

\* Inode::read: the used bytes of the blocks from the one offset lies in,
\* one after the other, until n are read.  The handler reports n bytes, so
\* the rest of the buffer counts as read too.
read(ino, n, offset) ==
  LET first == offset \div SIZE
      chunk(k) == LET bytes == get_data(ino.blocks[k])
                  IN  IF k = first THEN SubSeq(bytes, (offset % SIZE) + 1, Len(bytes)) ELSE bytes
      bytes == FlattenSeq([i \in 1..(num_blocks(ino) - first) |-> chunk(first + i - 1)])
  IN  [i \in 1..n |-> IF i <= Len(bytes) THEN bytes[i] ELSE Junk]

\* A Block object for every version found.
LoadedInode(di) ==
  [blocks |-> [k \in Idx |->
     LET bytes == di.blocks[k]
     IN  IF bytes = Nil THEN Nil ELSE insert_data(EmptyBlock, bytes, Len(bytes), 0)],
   size |-> di.size]

\* load_from_disk: Nil when the loop over the trees ends before it meets the
\* file, and without the blocks of the trees behind the one it ends at.
Loaded ==
  LET di == Loader!find_latest_inode(trees, visit, Id, TRUE)
  IN  IF di = Nil THEN Nil ELSE LoadedInode(di)

\* The loop meets every tree: each is mapped, has the file and, unless it is
\* the last one met, data for it.
Complete ==
  /\ Len(visit) = Len(trees)
  /\ Loader!Reached(trees, visit, Id, TRUE) = DOMAIN visit

\* The inode a request works on: the cached one, or the one it loads.
Current == IF inode # Nil THEN inode ELSE Loaded
-----------------------------------------------------------------------------
(* Requests.                                                               *)

\* One request at a time.  Bound: none after one the code does not handle.
Ready == call = Nil /\ sound

\* What add_inode writes: the length and the dirty blocks.
FlushedInode(ino) ==
  LET time == Len(trees) + 1
  IN  [mtime |-> time, size |-> ino.size,
       blocks |-> [k \in Idx |-> IF k \in dirty THEN [mtime |-> time, data |-> get_data(ino.blocks[k])]
                                 ELSE Nil]]

\* What flush_to_disk leaves of inode ino: a version of it in the new tree,
\* which is without the file when ino is Nil, and nothing in the cache.
flush_to_disk(ino) ==
  /\ Len(trees) < MaxTrees
  /\ trees' = Append(trees, [id \in {Id} |-> IF ino = Nil THEN Nil ELSE FlushedInode(ino)])
  /\ inode' = Nil
  /\ dirty' = {}

\* flush_to_shdw(0).  Whether the cache is full depends on the other files.
flush_to_shdw(ino) ==
  \/ inode' = ino /\ UNCHANGED <<dirty, trees>>
  \/ flush_to_disk(ino)

\* The requests whose bytes the code keeps: they leave no gap behind the end
\* of the file, and lie in one block, or start one and run on into blocks
\* the file does not have yet.
Handled(ino, n, offset) ==
  /\ offset <= ino.size
  /\ \/ (offset % SIZE) + n <= SIZE
     \/ /\ offset % SIZE = 0
        /\ \A k \in Idx : k > offset \div SIZE /\ k < ulong_ceil(offset + n, SIZE) => ~has_block(ino, k)

Overlay(bytes, buf, offset) ==
  LET end == offset + Len(buf)
  IN  [i \in 1..(IF Len(bytes) > end THEN Len(bytes) ELSE end) |->
         IF i > offset /\ i <= end THEN buf[i - offset]
         ELSE IF i <= Len(bytes) THEN bytes[i] ELSE Zero]

\* BlockCache::write up to its loop: load, and raise the size.
zippyfs_write(buf, offset) ==
  /\ Ready
  /\ offset + Len(buf) <= MaxLen
  /\ Current # Nil
  /\ LET ino == Current
         end == Len(buf) + offset
     IN  /\ inode' = [ino EXCEPT !.size = IF @ < end THEN end ELSE @]
         /\ sound' = (sound /\ (inode = Nil => Complete) /\ Handled(ino, Len(buf), offset))
  /\ call' = [buf |-> buf, offset |-> offset, block_idx |-> offset \div SIZE,
              curr_idx |-> 0, block_size |-> 0, offsetted |-> FALSE]
  /\ file' = Overlay(file, buf, offset)
  /\ UNCHANGED <<dirty, has_changed, trees, visit>>

\* BlockCache::write returns -1 when it cannot load the file; the handler
\* flushes if need be and reports every byte written.
write_unloaded(buf, offset) ==
  /\ Ready
  /\ offset + Len(buf) <= MaxLen
  /\ Current = Nil
  /\ file' = Overlay(file, buf, offset)
  /\ sound' = FALSE
  /\ flush_to_shdw(Nil)
  /\ UNCHANGED <<has_changed, visit, call>>

\* Mutant: the loop ends at the number of blocks the bytes fill, wherever
\* they start.
BlocksWithoutOffset == ulong_ceil(Len(call.buf), SIZE)

\* Where the loop of BlockCache::write ends.
write_num_blocks == ulong_ceil(Len(call.buf) + call.offset, SIZE)

\* The loop body.  A block the file has gets bytes from the start of the
\* buffer; a new one gets bytes from curr_idx on, at its own start.
write_block ==
  /\ call # Nil
  /\ call.block_idx < write_num_blocks
  /\ LET k == call.block_idx
         size == Len(call.buf)
         curr_idx == call.curr_idx + call.block_size
         block_size == IF size < curr_idx + SIZE THEN size - curr_idx ELSE SIZE
         offset_amt == IF call.offsetted THEN 0 ELSE call.offset % SIZE
     IN  /\ inode' = [inode EXCEPT !.blocks[k] =
                        IF has_block(inode, k) THEN insert_data(@, call.buf, block_size, offset_amt)
                        ELSE insert_data(EmptyBlock, SubSeq(call.buf, curr_idx + 1, size), block_size, 0)]
         /\ dirty' = dirty \cup {k}
         /\ call' = [call EXCEPT !.block_idx = k + 1, !.curr_idx = curr_idx,
                                 !.block_size = block_size, !.offsetted = TRUE]
  /\ UNCHANGED <<has_changed, trees, visit, file, sound>>

\* The end of the handler.
write_return ==
  /\ call # Nil
  /\ call.block_idx >= write_num_blocks
  /\ call' = Nil
  /\ has_changed' = TRUE
  /\ flush_to_shdw(inode)
  /\ UNCHANGED <<visit, file, sound>>

\* truncate changes nothing but the length, and nothing at all when the file
\* is not in the cache; the handler reports success either way.  The code
\* does not keep the bytes of a file that grows.
zippyfs_truncate(n) ==
  /\ Ready
  /\ file' = SubSeq(Overlay(file, << >>, n), 1, n)
  /\ sound' = (sound /\ inode # Nil /\ n <= inode.size)
  /\ has_changed' = (has_changed \/ inode # Nil)
  /\ flush_to_shdw(IF inode = Nil THEN Nil ELSE [inode EXCEPT !.size = n])
  /\ UNCHANGED <<visit, call>>

\* open and read load a file that is not in the cache.
zippyfs_open ==
  /\ Ready /\ inode = Nil
  /\ inode' = Loaded
  /\ sound' = (sound /\ Complete)
  /\ UNCHANGED <<dirty, has_changed, trees, visit, call, file>>

\* Another file's request fills the cache, whether this file is in it or not.
flush_by_others ==
  /\ Ready
  /\ flush_to_disk(inode)
  /\ UNCHANGED <<has_changed, visit, call, file, sound>>

Orders(n) == Bijection(1..n, 1..n)

\* Listing a directory maps the trees written since; the loop's order may
\* change when the map gains a file.
zippyfs_readdir ==
  /\ Ready
  /\ Len(visit) # Len(trees)
  /\ visit' \in Orders(Len(trees))
  /\ UNCHANGED <<inode, dirty, has_changed, trees, call, file, sound>>

\* The file system is unmounted, which flushes if this file or another one
\* changed, and mounted and listed again.
remount ==
  /\ Ready
  /\ \/ flush_to_disk(inode)
     \/ (inode # Nil => ~has_changed) /\ inode' = Nil /\ dirty' = {} /\ UNCHANGED trees
  /\ has_changed' = FALSE
  /\ visit' \in Orders(Len(trees'))
  /\ UNCHANGED <<call, file, sound>>

\* The file has just been made (mknod).
Init ==
  /\ inode = NewInode
  /\ dirty = {}
  /\ has_changed = TRUE
  /\ trees = << >>
  /\ visit = << >>
  /\ call = Nil
  /\ file = << >>
  /\ sound = TRUE

Next ==
  \/ \E buf \in Bufs, offset \in 0..MaxLen : zippyfs_write(buf, offset) \/ write_unloaded(buf, offset)
  \/ write_block \/ write_return
  \/ \E n \in 0..MaxLen : zippyfs_truncate(n)
  \/ zippyfs_open \/ flush_by_others \/ zippyfs_readdir \/ remount

Spec == Init /\ [][Next]_vars
-----------------------------------------------------------------------------
\* The file is in the cache, or a load would meet every tree.
Loadable == inode = Nil => Complete

\* As long as every request was one the code handles, a read of any part of
\* the file returns the bytes written there last, whichever of the blocks
\* were overwritten, truncated away, flushed or reloaded in between, in
\* whatever order the loader meets the trees, and the size getattr reports is
\* the length of the file (Inode::read against BlockCache::write).
ReadsBack ==
  call = Nil /\ sound /\ Loadable =>
    /\ Current # Nil /\ Current.size = Len(file)
    /\ \A offset \in 0..(Len(file) - 1) : \A n \in 1..(Len(file) - offset) :
         read(Current, n, offset) = SubSeq(file, offset + 1, offset + n)

\* Under the same condition, and in the middle of a write too, no read
\* dereferences an inode or a block that is missing, and neither a read nor a
\* flush copies bytes from behind the array of a block (the loop of
\* Inode::read runs to the number of blocks; actual_size_ counts bytes that
\* did not fit).
ReadsInBounds ==
  sound /\ Loadable =>
    /\ Current # Nil /\ Missing(Current) = {}
    /\ \A k \in Idx : has_block(Current, k) => Current.blocks[k].actual_size <= SIZE

\* "assert(curr_idx + block_size == size)" (block_cache.cpp:240): for every
\* request, handled or not, the loop over the blocks uses up the buffer.
WriteUsesBuffer ==
  call # Nil /\ call.block_idx >= write_num_blocks =>
    call.curr_idx + call.block_size = Len(call.buf)
=============================================================================
