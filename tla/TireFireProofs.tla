--------------------------- MODULE TireFireProofs ---------------------------
(***************************************************************************)
(* The allocator keeps its tires apart and its pointers fresh, whatever    *)
(* sizes are requested and wherever the kernel places the mapping.         *)
(***************************************************************************)
EXTENDS TireFire, TLAPS

\* The strengthening that makes TiresDisjoint inductive: the three tables
\* have one entry per index, the file ends where the last tire ends, and a
\* mapping that does not exist yet has no tires.
Tables ==
  /\ Len(requested) = Len(index_to_offset)
  /\ Len(index_to_ptr) = Len(index_to_offset)
  /\ file_size = cur_size
  /\ cur_ptr = NullPtr => cur_size = 0 /\ index_to_offset = << >>

IInv == TypeOK /\ Tables /\ TiresDisjoint /\ PointersFresh

\* Nothing has been handed out in a new allocator.
LEMMA InitIInv == Init => IInv
  BY TireAssumption DEF Init, IInv, TypeOK, Tables, TiresDisjoint, PointersFresh, NullPtr

\* mremap's rebasing loop rebuilds the pointer table with the same indices.
LEMMA Rebased ==
  ASSUME TypeOK, Tables, NEW addr \in Int
  PROVE  /\ [i \in DOMAIN index_to_ptr |-> addr + index_to_offset[i]] \in Seq(Int)
         /\ Len([i \in DOMAIN index_to_ptr |-> addr + index_to_offset[i]])
              = Len(index_to_offset)
  <1> DEFINE n == Len(index_to_ptr)
             f == [i \in 1..n |-> addr + index_to_offset[i]]
  <1>1. n \in Nat /\ DOMAIN index_to_ptr = 1..n /\ n = Len(index_to_offset)
    BY DEF TypeOK, Tables
  <1>2. \A i \in 1..n : index_to_offset[i] \in Nat
    BY <1>1 DEF TypeOK
  <1>3. \A i \in 1..n : addr + index_to_offset[i] \in Int
    BY <1>2
  <1>4. f \in [1..n -> Int]
    BY <1>3
  <1>5. f \in Seq(Int) /\ DOMAIN f = 1..n
    BY <1>1, <1>4
  <1>6. Len(f) = n
    BY <1>1, <1>5
  <1> QED BY <1>1, <1>5, <1>6

\* One request preserves the invariant, first or growing.
LEMMA GetTireIInv ==
  ASSUME IInv, NEW size \in Sizes, NEW addr \in Addresses \cup {MAP_FAILED},
         get_tire(size, addr)
  PROVE  IInv'
  <1> DEFINE ptrs == [i \in DOMAIN index_to_ptr |-> addr + index_to_offset[i]]
  <1>1. /\ addr \in Int
        /\ addr # NullPtr
        /\ addr \in Addresses \cup {NullPtr, MAP_FAILED}
        /\ size \in Nat
    BY TireAssumption DEF NullPtr, MAP_FAILED
  <1>2. TypeOK /\ Tables /\ TiresDisjoint /\ PointersFresh
    BY DEF IInv
  <1>3. /\ cur_size' = cur_size + size
        /\ file_size' = cur_size + size
        /\ cur_ptr' = addr
        /\ index_to_offset' = Append(index_to_offset, cur_size)
        /\ requested' = Append(requested, size)
    <2>1. CASE get_tire_first(size, addr)
      BY <1>1, <1>2, <2>1 DEF Tables, get_tire_first
    <2>2. CASE get_tire_grow(size, addr)
      BY <2>2 DEF get_tire_grow
    <2> QED BY <2>1, <2>2 DEF get_tire
  <1>4. ptrs \in Seq(Int) /\ Len(ptrs) = Len(index_to_offset)
    BY <1>1, <1>2, Rebased
  <1>5. index_to_ptr' = Append(ptrs, addr + cur_size)
    <2>1. CASE get_tire_first(size, addr)
      <3>1. index_to_ptr = << >> /\ Len(index_to_offset) = 0
        BY <1>2, <2>1 DEF TypeOK, Tables, get_tire_first
      <3>2. ptrs = << >>
        BY <1>4, <3>1
      <3> QED BY <2>1, <3>1, <3>2 DEF get_tire_first
    <2>2. CASE get_tire_grow(size, addr)
      BY <2>2 DEF get_tire_grow
    <2> QED BY <2>1, <2>2 DEF get_tire
  <1> HIDE DEF ptrs
  <1>6. TypeOK'
    BY <1>1, <1>2, <1>3, <1>4, <1>5 DEF TypeOK
  <1>7. Tables'
    <2>1. Len(requested') = Len(index_to_offset')
      BY <1>1, <1>2, <1>3 DEF TypeOK, Tables
    <2>2. Len(index_to_ptr') = Len(index_to_offset')
      BY <1>1, <1>2, <1>3, <1>4, <1>5 DEF TypeOK, Tables
    <2> QED BY <1>1, <1>3, <2>1, <2>2 DEF Tables, NullPtr
  <1>8. TiresDisjoint'
    <2> DEFINE n == Len(index_to_offset)
    <2>1. /\ n \in Nat
          /\ DOMAIN index_to_offset = 1..n
          /\ DOMAIN requested = 1..n
          /\ DOMAIN index_to_offset' = 1..(n+1)
          /\ DOMAIN requested' = 1..(n+1)
      BY <1>1, <1>2, <1>3 DEF TypeOK, Tables
    <2>2. /\ \A i \in 1..n : index_to_offset'[i] = index_to_offset[i]
          /\ index_to_offset'[n+1] = cur_size
      BY <1>2, <1>3 DEF TypeOK
    <2>6. /\ \A i \in 1..n : requested'[i] = requested[i]
          /\ requested'[n+1] = size
      <3>1. Len(requested) = n /\ requested \in Seq(Sizes)
        BY <1>2 DEF TypeOK, Tables
      <3> HIDE DEF n
      <3> QED BY <1>3, <3>1
    <2>7. \A i \in 1..n : index_to_offset[i] \in Nat /\ requested[i] \in Nat
      <3>1. \A i \in 1..n : requested[i] \in Sizes
        BY <1>2, <2>1 DEF TypeOK, Tables
      <3>2. \A i \in 1..n : index_to_offset[i] \in Nat
        BY <1>2, <2>1 DEF TypeOK
      <3> QED BY <3>1, <3>2, TireAssumption
    <2>3. \A i \in 1..n : index_to_offset[i] + requested[i] <= cur_size
      BY <1>2, <2>1 DEF TiresDisjoint, Tables
    <2>4. cur_size \in Nat
      BY <1>2 DEF TypeOK
    <2>5. \A i \in 1..n, j \in 1..n :
            i < j => index_to_offset[i] + requested[i] <= index_to_offset[j]
      BY <1>2, <2>1 DEF TiresDisjoint
    <2> HIDE DEF n
    <2>8. ASSUME NEW i \in 1..(n+1)
          PROVE  /\ index_to_offset'[i] + requested'[i] <= file_size'
                 /\ \A j \in 1..(n+1) :
                      i < j => index_to_offset'[i] + requested'[i] <= index_to_offset'[j]
      <3>1. CASE i = n + 1
        BY <1>1, <1>3, <2>1, <2>2, <2>4, <2>6, <3>1
      <3>2. CASE i \in 1..n
        <4>1. /\ index_to_offset'[i] = index_to_offset[i]
              /\ requested'[i] = requested[i]
              /\ index_to_offset[i] + requested[i] \in Nat
              /\ index_to_offset[i] + requested[i] <= cur_size
          BY <2>2, <2>3, <2>6, <2>7, <3>2
        <4>2. \A j \in 1..n : i < j => index_to_offset'[i] + requested'[i] <= index_to_offset'[j]
          BY <2>2, <2>5, <3>2, <4>1
        <4>3. index_to_offset'[i] + requested'[i] <= index_to_offset'[n+1]
          BY <2>2, <4>1
        <4>4. index_to_offset'[i] + requested'[i] <= file_size'
          BY <1>1, <1>3, <2>4, <4>1
        <4> QED BY <2>1, <4>2, <4>3, <4>4
      <3> QED BY <2>1, <3>1, <3>2
    <2> QED BY <2>1, <2>8 DEF TiresDisjoint
  <1>9. PointersFresh'
    <2> DEFINE n == Len(index_to_offset)
    <2>1. /\ n \in Nat
          /\ DOMAIN index_to_ptr = 1..n
          /\ DOMAIN index_to_ptr' = 1..(n+1)
          /\ DOMAIN index_to_offset' = 1..(n+1)
      BY <1>1, <1>2, <1>3, <1>4, <1>5 DEF TypeOK, Tables
    <2>2. /\ \A i \in 1..n : index_to_offset'[i] = index_to_offset[i]
          /\ index_to_offset'[n+1] = cur_size
      BY <1>2, <1>3 DEF TypeOK
    <2>3. /\ \A i \in 1..n : index_to_ptr'[i] = ptrs[i]
          /\ index_to_ptr'[n+1] = addr + cur_size
      BY <1>1, <1>2, <1>4, <1>5 DEF TypeOK
    <2>4. \A i \in 1..n : ptrs[i] = addr + index_to_offset[i]
      BY <2>1 DEF ptrs
    <2> HIDE DEF n
    <2> QED BY <1>3, <2>1, <2>2, <2>3, <2>4 DEF PointersFresh
  <1> QED BY <1>6, <1>7, <1>8, <1>9 DEF IInv

\* Every step of the allocator preserves the invariant.
LEMMA NextIInv == IInv /\ [Next]_vars => IInv'
  <1> SUFFICES ASSUME IInv, [Next]_vars PROVE IInv'
    OBVIOUS
  <1>1. ASSUME NEW size \in Sizes, NEW addr \in Addresses \cup {MAP_FAILED},
               get_tire(size, addr)
        PROVE  IInv'
    BY <1>1, GetTireIInv
  <1>2. CASE end
    BY <1>2, TireAssumption
       DEF end, IInv, TypeOK, Tables, TiresDisjoint, PointersFresh, NullPtr
  <1>3. CASE UNCHANGED vars
    BY <1>3 DEF vars, IInv, TypeOK, Tables, TiresDisjoint, PointersFresh
  <1> QED BY <1>1, <1>2, <1>3 DEF Next

\* The invariant holds throughout every behaviour of the allocator.
THEOREM Invariance == Spec => []IInv
  BY InitIInv, NextIInv, PTL DEF Spec

\* The allocator's tables stay well-formed: every offset handed out is a
\* position in the file and every pointer an address (get_tire, get_memory).
THEOREM TypeCorrect == Spec => []TypeOK
  <1>1. IInv => TypeOK
    BY DEF IInv
  <1> QED BY <1>1, Invariance, PTL

\* For every set of request sizes and every placement of the mapping, tires
\* are disjoint and inside the file (get_tire).
THEOREM TiresStayDisjoint == Spec => []TiresDisjoint
  <1>1. IInv => TiresDisjoint
    BY DEF IInv
  <1> QED BY <1>1, Invariance, PTL

\* For every set of request sizes and every placement of the mapping,
\* get_memory never returns a pointer into an earlier mapping (get_tire's
\* rebasing loop).
THEOREM PointersStayFresh == Spec => []PointersFresh
  <1>1. IInv => PointersFresh
    BY DEF IInv
  <1> QED BY <1>1, Invariance, PTL
=============================================================================
