------------------------------ MODULE TireFire ------------------------------
(***************************************************************************)
(* The bump allocator of tire_fire.cpp.  It hands out consecutive "tires"  *)
(* of one memory-mapped file: every request extends the file by truncate   *)
(* and grows the mapping by mremap(MREMAP_MAYMOVE), so every pointer ever  *)
(* given out may move, and the index -> pointer table is rebuilt.          *)
(*                                                                         *)
(* Addresses and sizes are integers.  The kernel's choice of an address is *)
(* a parameter of get_tire; MAP_FAILED is one of the choices, because the  *)
(* code only logs it and carries on.                                       *)
(***************************************************************************)
EXTENDS Integers, Sequences

CONSTANTS
  Sizes,      \* the sizes a client may request
  Addresses,  \* the addresses mmap and mremap may return
  MaxTires    \* bound on the number of requests

ASSUME TireAssumption ==
  /\ Sizes \subseteq Nat
  /\ Addresses \subseteq Nat \ {0}
  /\ MaxTires \in Nat

NullPtr == 0          \* cur_ptr_ before the first request
MAP_FAILED == -1      \* (void*)-1

VARIABLES
  cur_size,         \* cur_size_: bytes handed out so far
  cur_ptr,          \* cur_ptr_: start of the mapping
  index_to_offset,  \* index -> offset in the file; index i is entry i + 1
  index_to_ptr,     \* index -> address
  file_size,        \* length of the file after the last truncate
  requested         \* history: the size of every request, by index

vars == <<cur_size, cur_ptr, index_to_offset, index_to_ptr,
          file_size, requested>>

\* latest_index: the next index to hand out.
latest_index == Len(index_to_offset)

Init ==
  /\ cur_size = 0
  /\ cur_ptr = NullPtr
  /\ index_to_offset = << >>
  /\ index_to_ptr = << >>
  /\ file_size = 0
  /\ requested = << >>

\* The first request creates the file and maps it.  mmap refuses a length
\* of zero with MAP_FAILED.
get_tire_first(size, addr) ==
  /\ cur_ptr = NullPtr
  /\ size = 0 => addr = MAP_FAILED
  /\ cur_size' = size
  /\ file_size' = size
  /\ cur_ptr' = addr
  /\ index_to_offset' = Append(index_to_offset, cur_size)
  /\ index_to_ptr' = Append(index_to_ptr, addr + cur_size)
  /\ requested' = Append(requested, size)

\* Mutant: the pointers handed out before the move are not rebased.
NoRebase(size, addr) ==
  /\ cur_ptr # NullPtr
  /\ cur_ptr = MAP_FAILED => addr = MAP_FAILED
  /\ cur_size' = cur_size + size
  /\ file_size' = cur_size + size
  /\ cur_ptr' = addr
  /\ index_to_offset' = Append(index_to_offset, cur_size)
  /\ index_to_ptr' = Append(index_to_ptr, addr + cur_size)
  /\ requested' = Append(requested, size)

\* Mutant: cur_size_ is set to the size of the request instead of growing by it.
SizeNotAccumulated(size, addr) ==
  /\ cur_ptr # NullPtr
  /\ cur_ptr = MAP_FAILED => addr = MAP_FAILED
  /\ cur_size' = size
  /\ file_size' = size
  /\ cur_ptr' = addr
  /\ index_to_offset' = Append(index_to_offset, cur_size)
  /\ index_to_ptr' = Append([i \in DOMAIN index_to_ptr |-> addr + index_to_offset[i]],
                            addr + cur_size)
  /\ requested' = Append(requested, size)

\* Mutant: the allocator keeps the address of the new tire instead of the
\* address of the mapping.
KeepsTirePointer(size, addr) ==
  /\ cur_ptr # NullPtr
  /\ cur_ptr = MAP_FAILED => addr = MAP_FAILED
  /\ cur_size' = cur_size + size
  /\ file_size' = cur_size + size
  /\ cur_ptr' = addr + cur_size
  /\ index_to_offset' = Append(index_to_offset, cur_size)
  /\ index_to_ptr' = Append([i \in DOMAIN index_to_ptr |-> addr + index_to_offset[i]],
                            addr + cur_size)
  /\ requested' = Append(requested, size)

\* Every later request grows the file and the mapping, then rebases every
\* pointer handed out before.  mremap of MAP_FAILED fails again.
get_tire_grow(size, addr) ==
  /\ cur_ptr # NullPtr
  /\ cur_ptr = MAP_FAILED => addr = MAP_FAILED
  /\ cur_size' = cur_size + size
  /\ file_size' = cur_size + size
  /\ cur_ptr' = addr
  /\ index_to_offset' = Append(index_to_offset, cur_size)
  /\ index_to_ptr' = Append([i \in DOMAIN index_to_ptr |-> addr + index_to_offset[i]],
                            addr + cur_size)
  /\ requested' = Append(requested, size)

get_tire(size, addr) ==
  /\ latest_index < MaxTires
  /\ get_tire_first(size, addr) \/ get_tire_grow(size, addr)

\* end(), called by ~BPLUSIndex whether or not anything was allocated: the
\* mapping goes away with the object, and the next BPLUSIndex starts a new
\* file with a new TireFire.
end ==
  /\ cur_size' = 0
  /\ cur_ptr' = NullPtr
  /\ index_to_offset' = << >>
  /\ index_to_ptr' = << >>
  /\ file_size' = 0
  /\ requested' = << >>

Next ==
  \/ \E size \in Sizes, addr \in Addresses \cup {MAP_FAILED} : get_tire(size, addr)
  \/ end

Spec == Init /\ [][Next]_vars
-----------------------------------------------------------------------------
TypeOK ==
  /\ cur_size \in Nat
  /\ cur_ptr \in Addresses \cup {NullPtr, MAP_FAILED}
  /\ index_to_offset \in Seq(Nat)
  /\ index_to_ptr \in Seq(Int)
  /\ file_size \in Nat
  /\ requested \in Seq(Sizes)

\* Two tires never overlap, and no tire reaches past the end of the file:
\* a write through one index cannot touch another index's bytes (get_tire,
\* "allocation is consecutive in the file").
TiresDisjoint ==
  \A i \in DOMAIN index_to_offset :
    /\ i \in DOMAIN requested
    /\ index_to_offset[i] + requested[i] <= file_size
    /\ \A j \in DOMAIN index_to_offset :
         i < j => index_to_offset[i] + requested[i] <= index_to_offset[j]

\* However often mremap has moved the mapping, get_memory(i) is the current
\* address of the bytes that get_offset(i) names: the table holds no pointer
\* into an earlier mapping.
PointersFresh ==
  /\ DOMAIN index_to_ptr = DOMAIN index_to_offset
  /\ \A i \in DOMAIN index_to_ptr : index_to_ptr[i] = cur_ptr + index_to_offset[i]
=============================================================================
