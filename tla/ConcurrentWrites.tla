-------------------------- MODULE ConcurrentWrites --------------------------
(***************************************************************************)
(* Write handlers of one file in several threads, as FUSE runs them unless *)
(* it is given -s.  Nothing takes mutex_, so the handlers interleave where *)
(* one of them reads or changes a map of the BlockCache.  Here each access *)
(* to a map takes effect at once; in C++ two at the same time are          *)
(* undefined, so the program has all these behaviours and more.            *)
(*                                                                         *)
(* Each thread writes a block of its own, named by the thread.  A flush    *)
(* belongs to the handler that finds the cache full, which it is from the  *)
(* file that fills it to the end of the flush, or until a file is removed. *)
(***************************************************************************)
EXTENDS Integers, FiniteSets

CONSTANTS
  Threads,
  Nil        \* absent; a null pointer

VARIABLES
  up,         \* the process runs
  inode_idx,  \* inode_idx_[path]: Nil, "id", or "" if operator[] has made it
  inode_ptr,  \* inode_ptrs_["id"]: the cached inode exists
  dirty,      \* dirty_block_["id"]: the dirty blocks
  full,       \* size_ >= MAX_SIZE
  disk,       \* the blocks of the file in TREE files
  pc,         \* where the handler of each thread is
  failed,     \* threads whose BlockCache::write returned -1
  done        \* history: the other threads, once their write was reported

vars == <<up, inode_idx, inode_ptr, dirty, full, disk, pc, failed, done>>

\* The file was made and is open.  size_ is not initialised.
Init ==
  /\ up = TRUE
  /\ inode_idx = "id" /\ inode_ptr = TRUE
  /\ dirty = {} /\ full \in BOOLEAN /\ disk = {}
  /\ pc = [w \in Threads |-> "write"]
  /\ failed = {} /\ done = {}

At(w, place) == up /\ pc[w] = place

Goto(w, place) == pc' = [pc EXCEPT ![w] = place]

\* The handler reports the write; one that failed is reported too, and not
\* counted.
Report(w) == Goto(w, "end") /\ done' = done \cup ({w} \ failed)

\* A null pointer is dereferenced: the process and its cache are gone.
Crash ==
  /\ up' = FALSE
  /\ UNCHANGED <<inode_idx, inode_ptr, dirty, full, disk, pc, failed, done>>

\* BlockCache::write looks the path up.  A file that is not in the cache is
\* not found on disk either: its tree is not mapped before the next readdir.
\* That write fails.
write_lookup(w) ==
  /\ At(w, "write")
  /\ Goto(w, IF inode_idx = Nil THEN "full" ELSE "inode")
  /\ failed' = IF inode_idx = Nil THEN failed \cup {w} ELSE failed
  /\ UNCHANGED <<up, inode_idx, inode_ptr, dirty, full, disk, done>>

\* get_inode_by_path; the thread keeps the inode alive from here on.
write_inode(w) ==
  /\ At(w, "inode")
  /\ IF inode_idx = "id" /\ inode_ptr
       THEN Goto(w, "block") /\ UNCHANGED <<up, inode_idx, inode_ptr, dirty, full, disk, failed, done>>
       ELSE Crash

\* dirty_block_[inode_idx_[path]][block_idx]: without an entry for the path,
\* operator[] makes one with an empty id, and the block is filed there.
write_block(w) ==
  /\ At(w, "block")
  /\ inode_idx' = IF inode_idx = Nil THEN "" ELSE inode_idx
  /\ dirty' = IF inode_idx = "id" THEN dirty \cup {w} ELSE dirty
  /\ Goto(w, "full")
  /\ UNCHANGED <<up, inode_ptr, full, disk, failed, done>>

\* flush_to_shdw(0).
write_return(w) ==
  /\ At(w, "full")
  /\ IF full THEN Goto(w, "flush") /\ UNCHANGED done ELSE Report(w)
  /\ UNCHANGED <<up, inode_idx, inode_ptr, dirty, full, disk, failed>>

\* flush_to_disk writes what is dirty for the entries of inode_idx_ ...
flush_add_inode(w) ==
  /\ At(w, "flush")
  /\ \/ inode_idx = Nil /\ Goto(w, "clear_idx")
        /\ UNCHANGED <<up, inode_idx, inode_ptr, dirty, full, disk, failed, done>>
     \/ inode_idx = "id" /\ inode_ptr /\ Goto(w, "clear_idx") /\ disk' = disk \cup dirty
        /\ UNCHANGED <<up, inode_idx, inode_ptr, dirty, full, failed, done>>
     \/ inode_idx # Nil /\ ~(inode_idx = "id" /\ inode_ptr) /\ Crash

\* ... then clears the maps, one after the other, and size_.
flush_clear_idx(w) ==
  /\ At(w, "clear_idx")
  /\ inode_idx' = Nil
  /\ Goto(w, "clear_ptrs")
  /\ UNCHANGED <<up, inode_ptr, dirty, full, disk, failed, done>>

flush_clear_ptrs(w) ==
  /\ At(w, "clear_ptrs")
  /\ inode_ptr' = FALSE
  /\ Goto(w, "clear_dirty")
  /\ UNCHANGED <<up, inode_idx, dirty, full, disk, failed, done>>

flush_clear_dirty(w) ==
  /\ At(w, "clear_dirty")
  /\ dirty' = {}
  /\ Goto(w, "clear_size")
  /\ UNCHANGED <<up, inode_idx, inode_ptr, full, disk, failed, done>>

flush_clear_size(w) ==
  /\ At(w, "clear_size")
  /\ full' = FALSE
  /\ Report(w)
  /\ UNCHANGED <<up, inode_idx, inode_ptr, dirty, disk, failed>>

\* Another thread makes a file, which may fill the cache, or removes one.
other_files ==
  /\ up
  /\ full' = ~full
  /\ UNCHANGED <<up, inode_idx, inode_ptr, dirty, disk, pc, failed, done>>

Next ==
  \/ \E w \in Threads :
       \/ write_lookup(w) \/ write_inode(w) \/ write_block(w) \/ write_return(w)
       \/ flush_add_inode(w) \/ flush_clear_idx(w) \/ flush_clear_ptrs(w) \/ flush_clear_dirty(w)
       \/ flush_clear_size(w)
  \/ other_files

Spec == Init /\ [][Next]_vars
-----------------------------------------------------------------------------
\* "When files are modified, the changes are flushed to disk in the directory
\* on disk" (README.md:7): as long as the process runs, a block whose write
\* was reported is on disk or will go there with the next flush.
ReportedWritesKept == up => \A w \in done : w \in disk \/ (w \in dirty /\ inode_idx = "id")
=============================================================================
