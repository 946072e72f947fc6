------------------------ MODULE ForeignValuesProofs ------------------------
(***************************************************************************)
(* Proofs about ForeignValues.  What a program reaches is not enough for   *)
(* an invariant: a slot is safe as long as any allocated cons refers to    *)
(* it.  So IInv says of all allocated conses that they own a slot each and *)
(* find their native value there.  A table that grows has every slot       *)
(* marked, so it is no longer than there are conses.                       *)
(***************************************************************************)
EXTENDS ForeignValues, FiniteSetTheorems, TLAPS

Owned ==
  \A o \in Allocated : slot[o] \in 0 .. size - 1 /\ values[slot[o]] = native[o]

Room == IsFiniteSet(Allocated) /\ Cardinality(Allocated) <= Capacity

IInv == TypeOK /\ Owned /\ SlotsUnshared /\ Room /\ TableBounded

(* A collection of the table keeps what any allocated cons refers to.      *)
LEMMA CollectedFacts ==
  ASSUME TypeOK, Owned
  PROVE  /\ Collected \in [0 .. size - 1 -> Native \cup {None}]
         /\ \A o \in Allocated : Collected[slot[o]] = native[o]
BY DEF TypeOK, Owned, Collected

(* If a collection empties no slot, every slot is marked: there are at     *)
(* least as many conses as slots.                                          *)
LEMMA FullTable ==
  ASSUME TypeOK, Owned, Room, Free(Collected) = {}
  PROVE  size <= Capacity
<1> DEFINE f == [o \in Allocated |-> slot[o]]
<1>1. \A i \in 0 .. size - 1 : \E o \in Allocated : slot[o] = i
  BY CollectedFacts DEF Free, Collected
<1>2. f \in Surjection(Allocated, 0 .. size - 1)
  BY <1>1 DEF Surjection, Owned
<1>3. IsFiniteSet(Allocated)
  BY DEF Room
<1>4. Cardinality(0 .. size - 1) <= Cardinality(Allocated)
  <2> HIDE DEF f
  <2> QED BY ONLY <1>2, <1>3, FS_Surjection
<1>5. size \in Nat /\ Cardinality(0 .. size - 1) = size
  <2>1. size \in Nat /\ 0 \in Int /\ size - 1 \in Int
    <3>1. size \in Nat
      BY DEF TypeOK
    <3> QED BY ONLY <3>1
  <2>2. Cardinality(0 .. size - 1) = IF 0 > size - 1 THEN 0 ELSE (size - 1) - 0 + 1
    BY ONLY <2>1, FS_Interval
  <2> QED BY ONLY <2>1, <2>2
<1>6. Cardinality(Allocated) \in Nat /\ Capacity \in Nat
  BY <1>3, FS_CardinalityType, ForeignAssumption
<1> QED BY <1>4, <1>5, <1>6 DEF Room

(* A native value is stored in a slot that no cons refers to, and the      *)
(* others stay as they are.                                                *)
LEMMA StoreFacts ==
  ASSUME IInv, NEW i \in 0 .. size, NEW value \in Native, Store(i, value)
  PROVE  /\ size' \in Nat /\ size <= size'
         /\ values' \in [0 .. size' - 1 -> Native \cup {None}]
         /\ i \in 0 .. size' - 1 /\ values'[i] = value
         /\ \A o \in Allocated : /\ slot[o] # i
                                 /\ slot[o] \in 0 .. size' - 1
                                 /\ values'[slot[o]] = native[o]
         /\ size' <= Capacity + 1
<1>1. TypeOK /\ Owned /\ Room /\ TableBounded
  BY DEF IInv
<1>2. /\ size \in Nat /\ Capacity \in Nat
      /\ values \in [0 .. size - 1 -> Native \cup {None}]
      /\ native \in [Allocated -> Native] /\ slot \in [Allocated -> Nat]
      /\ None \notin Native
  BY <1>1, ForeignAssumption DEF TypeOK
<1>3. PICK n \in {size, size + 1},
           table \in {values, Collected,
                      [j \in 0 .. size |-> IF j = size THEN None ELSE Collected[j]]} :
        IsSlot(i, table, n) /\ values' = [table EXCEPT ![i] = value] /\ size' = n
  BY DEF Store
<1>4. CASE Free(values) # {}
  <2>1. n = size /\ table = values /\ i \in Free(values)
    BY <1>3, <1>4 DEF IsSlot, IsFirstFree
  <2>2. i \in 0 .. size - 1 /\ values[i] = None
    BY <2>1, <1>2 DEF Free
  <2>3. \A o \in Allocated : slot[o] # i
    BY <2>2, <1>1, <1>2 DEF Owned
  <2> QED BY <1>1, <1>2, <1>3, <2>1, <2>2, <2>3 DEF Owned, TableBounded
<1>5. CASE Free(values) = {} /\ Free(Collected) # {}
  <2>1. n = size /\ table = Collected /\ i \in Free(Collected)
    BY <1>3, <1>5 DEF IsSlot, IsFirstFree
  <2>2. /\ Collected \in [0 .. size - 1 -> Native \cup {None}]
        /\ \A o \in Allocated : Collected[slot[o]] = native[o]
    BY <1>1, CollectedFacts
  <2>3. i \in 0 .. size - 1 /\ Collected[i] = None
    BY <2>1, <2>2 DEF Free
  <2>4. \A o \in Allocated : slot[o] # i
    BY <2>2, <2>3, <1>2
  <2> QED BY <1>1, <1>2, <1>3, <2>1, <2>2, <2>3, <2>4 DEF Owned, TableBounded
<1>6. CASE Free(values) = {} /\ Free(Collected) = {}
  <2>1. /\ n = size + 1 /\ i = size
        /\ table = [j \in 0 .. size |-> IF j = size THEN None ELSE Collected[j]]
    BY <1>3, <1>6 DEF IsSlot
  <2>2. /\ Collected \in [0 .. size - 1 -> Native \cup {None}]
        /\ \A o \in Allocated : Collected[slot[o]] = native[o]
    BY <1>1, CollectedFacts
  <2>3. \A o \in Allocated : slot[o] \in 0 .. size - 1
    BY <1>1 DEF Owned
  <2>4. size <= Capacity
    BY <1>1, <1>6, FullTable
  <2> QED BY <1>2, <1>3, <2>1, <2>2, <2>3, <2>4
<1> QED BY <1>4, <1>5, <1>6

(* A new cons owns the slot its native value was stored in.                *)
LEMMA AllocateConsFacts ==
  ASSUME IInv, NEW i \in 0 .. size, NEW value \in Native, Store(i, value),
         NEW o \in Object, NEW kept \in {Allocated, reachable},
         AllocateCons(o, i, value, kept),
         reachable' \subseteq kept \cup {o},
         result' \in {"ok", "out of memory"}
  PROVE  IInv'
<1>1. TypeOK /\ Owned /\ SlotsUnshared /\ Room
  BY DEF IInv
<1>2. /\ kept \subseteq Allocated /\ o \notin Allocated /\ Allocated \subseteq Object
      /\ slot' = [p \in kept \cup {o} |-> IF p = o THEN i ELSE slot[p]]
      /\ native' = [p \in kept \cup {o} |-> IF p = o THEN value ELSE native[p]]
      /\ Allocated' = kept \cup {o}
      /\ Cardinality(Allocated) < Capacity
  BY <1>1 DEF AllocateCons, TypeOK, Allocated
<1>3. /\ size' \in Nat /\ values' \in [0 .. size' - 1 -> Native \cup {None}]
      /\ i \in 0 .. size' - 1 /\ values'[i] = value
      /\ \A p \in Allocated : /\ slot[p] # i /\ slot[p] \in 0 .. size' - 1
                              /\ values'[slot[p]] = native[p]
      /\ size' <= Capacity + 1
  BY StoreFacts
<1>4. TypeOK'
  <2>1. slot' \in [Allocated' -> Nat] /\ native' \in [Allocated' -> Native]
    <3>1. \A p \in kept : slot[p] \in Nat /\ native[p] \in Native
      BY <1>1, <1>2 DEF TypeOK
    <3>2. i \in Nat
      <4>1. size' \in Nat /\ i \in 0 .. size' - 1
        BY <1>3
      <4> QED BY ONLY <4>1
    <3> QED BY <1>2, <3>1, <3>2
  <2>2. Allocated' \subseteq Object /\ reachable' \subseteq Allocated'
    BY <1>2
  <2> QED BY <1>3, <2>1, <2>2 DEF TypeOK
<1>5. Owned'
  BY <1>2, <1>3 DEF Owned
<1>6. SlotsUnshared'
  BY <1>1, <1>2, <1>3 DEF SlotsUnshared
<1>7. Room'
  <2>1. IsFiniteSet(kept) /\ Cardinality(kept) <= Cardinality(Allocated)
    <3>1. kept \in SUBSET Allocated /\ IsFiniteSet(Allocated)
      BY <1>1, <1>2 DEF Room
    <3> QED BY <3>1, FS_Subset
  <2>2. Cardinality(kept) \in Nat /\ Cardinality(Allocated) \in Nat /\ Capacity \in Nat
    BY <1>1, <2>1, FS_CardinalityType, ForeignAssumption DEF Room
  <2>3. /\ IsFiniteSet(kept \cup {o})
        /\ Cardinality(kept \cup {o})
             = IF o \in kept THEN Cardinality(kept) ELSE Cardinality(kept) + 1
    BY ONLY <2>1, FS_AddElement
  <2>4. o \notin kept /\ Cardinality(Allocated) < Capacity
    BY <1>2
  <2>5. Cardinality(kept \cup {o}) <= Capacity
    BY ONLY <2>1, <2>2, <2>3, <2>4
  <2> QED BY <1>2, <2>3, <2>5 DEF Room
<1>8. TableBounded'
  BY <1>3 DEF TableBounded
<1> QED BY <1>4, <1>5, <1>6, <1>7, <1>8 DEF IInv

(* The empty table.                                                        *)
LEMMA InitIInv == Init => IInv
<1> SUFFICES ASSUME Init PROVE IInv
  OBVIOUS
<1>1. Allocated = {} /\ size = 0 /\ reachable = {} /\ result = "none"
  BY DEF Init, Allocated
<1>2. TypeOK
  BY <1>1 DEF Init, TypeOK
<1>3. Owned /\ SlotsUnshared
  BY <1>1 DEF Owned, SlotsUnshared
<1>4. Room
  BY <1>1, FS_EmptySet, ForeignAssumption DEF Room
<1>5. TableBounded
  BY <1>1, ForeignAssumption DEF TableBounded
<1> QED BY <1>2, <1>3, <1>4, <1>5 DEF IInv

(* Every step keeps the invariant.                                         *)
LEMMA NextIInv == IInv /\ [Next]_vars => IInv'
<1> SUFFICES ASSUME IInv, [Next]_vars PROVE IInv'
  OBVIOUS
<1>0. TypeOK /\ Owned /\ SlotsUnshared /\ Room /\ TableBounded
  BY DEF IInv
<1>1. ASSUME NEW value \in Native, ReturnValue(value) PROVE IInv'
  BY <1>0, <1>1, AllocateConsFacts DEF ReturnValue, TypeOK
<1>2. ASSUME NEW value \in Native, ReturnUnallocated(value) PROVE IInv'
  <2>1. PICK i \in 0 .. size : Store(i, value)
    BY <1>2 DEF ReturnUnallocated
  <2>2. /\ slot' = slot /\ reachable' = reachable /\ native' = native
        /\ Allocated' = Allocated /\ result' = "out of memory"
    BY <1>2 DEF ReturnUnallocated, memoryVars, Allocated
  <2>3. /\ size' \in Nat /\ values' \in [0 .. size' - 1 -> Native \cup {None}]
        /\ \A o \in Allocated : /\ slot[o] \in 0 .. size' - 1
                                /\ values'[slot[o]] = native[o]
        /\ size' <= Capacity + 1
    BY <2>1, StoreFacts
  <2>4. TypeOK' /\ Owned'
    BY <1>0, <2>2, <2>3 DEF TypeOK, Owned
  <2>5. SlotsUnshared' /\ Room' /\ TableBounded'
    BY <1>0, <2>2, <2>3 DEF SlotsUnshared, Room, TableBounded
  <2> QED BY <2>4, <2>5 DEF IInv
<1>3. ASSUME NEW value \in Native, ReturnUnpushed(value) PROVE IInv'
  BY <1>0, <1>3, AllocateConsFacts DEF ReturnUnpushed, TypeOK
<1>4. ASSUME NEW o \in Object, PassValue(o) PROVE IInv'
  BY <1>0, <1>4
     DEF PassValue, tableVars, memoryVars, IInv, TypeOK, Owned, SlotsUnshared, Room,
         TableBounded, Allocated
<1>5. ASSUME NEW o \in Object, Drop(o) PROVE IInv'
  BY <1>0, <1>5
     DEF Drop, tableVars, IInv, TypeOK, Owned, SlotsUnshared, Room, TableBounded, Allocated
<1>6. CASE CollectMemory
  <2>1. /\ Allocated' = reachable /\ reachable \subseteq Allocated
        /\ slot' = [o \in reachable |-> slot[o]]
        /\ native' = [o \in reachable |-> native[o]]
        /\ size' = size /\ values' = values /\ reachable' = reachable /\ result' = result
    BY <1>0, <1>6 DEF CollectMemory, tableVars, Allocated, TypeOK
  <2>2. TypeOK' /\ Owned' /\ SlotsUnshared' /\ TableBounded'
    BY <1>0, <2>1 DEF TypeOK, Owned, SlotsUnshared, TableBounded
  <2>3. Room'
    <3>1. /\ IsFiniteSet(reachable) /\ Cardinality(reachable) <= Cardinality(Allocated)
      BY <1>0, <2>1, FS_Subset DEF Room
    <3>2. Cardinality(reachable) \in Nat /\ Cardinality(Allocated) \in Nat /\ Capacity \in Nat
      BY <1>0, <3>1, FS_CardinalityType, ForeignAssumption DEF Room
    <3> QED BY <1>0, <2>1, <3>1, <3>2 DEF Room
  <2> QED BY <2>2, <2>3 DEF IInv
<1>7. CASE UNCHANGED vars
  BY <1>0, <1>7
     DEF vars, tableVars, memoryVars, IInv, TypeOK, Owned, SlotsUnshared, Room,
         TableBounded, Allocated
<1> QED BY <1>1, <1>2, <1>3, <1>4, <1>5, <1>6, <1>7 DEF Next

(* So it always holds.                                                     *)
LEMMA Invariance == Spec => []IInv
BY InitIInv, NextIInv, PTL DEF Spec

(* A foreign cons that a program still has always stands for the native    *)
(* value it was made for.                                                  *)
THEOREM ForeignValuesAlwaysKept == Spec => []ForeignValuesKept
<1>1. IInv => ForeignValuesKept
  <2> SUFFICES ASSUME IInv, NEW o \in reachable
               PROVE  slot[o] < size /\ values[slot[o]] = native[o]
    BY DEF ForeignValuesKept
  <2>1. o \in Allocated /\ size \in Nat
    BY DEF IInv, TypeOK
  <2>2. slot[o] \in 0 .. size - 1 /\ values[slot[o]] = native[o]
    BY <2>1 DEF IInv, Owned
  <2> QED BY <2>1, <2>2
<1> QED BY <1>1, Invariance, PTL

(* No two foreign conses ever share a slot of the table.                   *)
THEOREM SlotsNeverShared == Spec => []SlotsUnshared
BY Invariance, PTL DEF IInv

(* The table is never longer than there is room for conses, and one.       *)
THEOREM TableAlwaysBounded == Spec => []TableBounded
BY Invariance, PTL DEF IInv

=============================================================================
