---------------------------- MODULE MemoryProofs ----------------------------
(***************************************************************************)
(* Proofs about Memory.  The argument for the four theorems about its      *)
(* states is one inductive invariant, IInv:                                *)
(*                                                                         *)
(*  - between two calls the conses in use form a closed graph              *)
(*    (PointersValid), so a collection has a graph to start from;          *)
(*  - during a collection every cons of the old space is either as it was  *)
(*    or forwarded to a copy, the roots and fields already visited point   *)
(*    to copies and the others still to the old space, and there are       *)
(*    exactly as many copies as forwarded conses (CollectorConsistent);    *)
(*  - the allocation index is even and within the space, and what it was   *)
(*    before the collection bounds what the collection copies (Bounds).    *)
(*                                                                         *)
(* The count is what SpaceSuffices needs: copy_cons is called on a         *)
(* cons that is not forwarded, so fewer are copied than there were         *)
(* (RoomToCopy), and the space has room for one more.                      *)
(*                                                                         *)
(* Memory implements ObjectGraph, for heaps of any size: its initial state *)
(* is one of the graph's and every step a step of the graph or none.  The  *)
(* argument is an invariant, HInv, about the history variable:             *)
(*                                                                         *)
(*  - the conses a collection starts from are different objects, and a     *)
(*    cons that has been forwarded and its copy are the same one (Named,   *)
(*    CopiesNamed): hence copying a cons changes no field of the graph;    *)
(*  - only objects the roots reach are copied (OnlyReachable), and when    *)
(*    the scan is over the copies are closed under the fields: hence what  *)
(*    is left after Finish is what Collect leaves.                         *)
(***************************************************************************)
EXTENDS MemoryRefinement, FiniteSetTheorems, TLAPS

(* A space holds whole conses.  Nothing in the code asks for it; see the   *)
(* README for what happens otherwise.                                      *)
Aligned == SpaceSize % 2 = 0

(* An empty space has no values.                                           *)
LEMMA EmptyRange ==
  ASSUME NEW start \in Nat, NEW n, n = 0
  PROVE  \A i \in start .. start + n - 1 : FALSE
OBVIOUS

(* Both spaces fit in the heap.                                            *)
LEMMA SpaceSizeFacts ==
  SpaceSize \in Nat /\ SpaceSize >= 3 /\ 2 * SpaceSize <= HeapSize
BY MemoryAssumption DEF SpaceSize

(* A space begins and ends inside the heap.                                *)
LEMMA SpaceStartFacts ==
  ASSUME NEW s \in BOOLEAN
  PROVE  /\ SpaceStart(s) \in Nat
         /\ SpaceStart(s) + SpaceSize <= HeapSize
BY SpaceSizeFacts, MemoryAssumption DEF SpaceStart

(* Both fields of a cons lie in its space and in the heap.                 *)
LEMMA CellsOfFacts ==
  ASSUME NEW s \in BOOLEAN, NEW n \in Nat, n % 2 = 0, n <= SpaceSize,
         NEW i \in CellsOf(s, n)
  PROVE  /\ i \in SpaceStart(s) .. SpaceStart(s) + n - 1
         /\ i + 1 \in SpaceStart(s) .. SpaceStart(s) + n - 1
         /\ i \in 0 .. HeapSize - 1
         /\ i + 1 \in 0 .. HeapSize - 1
<1> DEFINE S == SpaceStart(s)
<1>1. S \in Nat /\ S + SpaceSize <= HeapSize /\ SpaceSize \in Nat
  BY SpaceStartFacts, SpaceSizeFacts
<1>2. i \in S .. S + n - 1 /\ (i - S) % 2 = 0
  BY DEF CellsOf
<1>3. i + 1 <= S + n - 1
  <2> HIDE DEF S
  <2>1. \A k \in Nat : k % 2 = 0 /\ k < n => k + 1 < n
    BY SMT
  <2> QED BY <2>1, <1>1, <1>2
<1> QED BY <1>1, <1>2, <1>3, MemoryAssumption

(* Bumping the index by two adds exactly one cons.                         *)
LEMMA CellsOfExtend ==
  ASSUME NEW s \in BOOLEAN, NEW n \in Nat, n % 2 = 0
  PROVE  /\ CellsOf(s, n + 2) = CellsOf(s, n) \cup {SpaceStart(s) + n}
         /\ SpaceStart(s) + n \notin CellsOf(s, n)
<1>1. SpaceStart(s) \in Nat
  BY SpaceStartFacts
<1>2. \A k \in Nat : k % 2 = 0 /\ k < n + 2 => k < n \/ k = n
  BY SMT
<1>3. \A i \in SpaceStart(s) .. SpaceStart(s) + (n + 2) - 1 :
        (i - SpaceStart(s)) % 2 = 0
        => i \in SpaceStart(s) .. SpaceStart(s) + n - 1 \/ i = SpaceStart(s) + n
  BY <1>1, <1>2
<1>4. /\ (SpaceStart(s) + n) - SpaceStart(s) = n
      /\ SpaceStart(s) + n \in SpaceStart(s) .. SpaceStart(s) + (n + 2) - 1
      /\ SpaceStart(s) + n \notin SpaceStart(s) .. SpaceStart(s) + n - 1
  BY <1>1
<1>5. SpaceStart(s) .. SpaceStart(s) + n - 1
        \subseteq SpaceStart(s) .. SpaceStart(s) + (n + 2) - 1
  BY <1>1
<1>6. SpaceStart(s) + n \in CellsOf(s, n + 2)
  BY <1>4 DEF CellsOf
<1>7. CellsOf(s, n) \subseteq CellsOf(s, n + 2)
  BY <1>5 DEF CellsOf
<1>8. CellsOf(s, n + 2) \subseteq CellsOf(s, n) \cup {SpaceStart(s) + n}
  BY <1>3 DEF CellsOf
<1>9. SpaceStart(s) + n \notin CellsOf(s, n)
  BY <1>4 DEF CellsOf
<1> QED BY <1>6, <1>7, <1>8, <1>9

(* More allocated values, more conses.                                     *)
LEMMA CellsOfMonotone ==
  ASSUME NEW s \in BOOLEAN, NEW n \in Nat, NEW m \in Nat, n <= m
  PROVE  CellsOf(s, n) \subseteq CellsOf(s, m)
<1>1. SpaceStart(s) .. SpaceStart(s) + n - 1 \subseteq SpaceStart(s) .. SpaceStart(s) + m - 1
  BY SpaceStartFacts
<1> QED BY <1>1 DEF CellsOf

(* A cons has an even address: none can be taken for NEVER.                *)
LEMMA CellsOfEven ==
  ASSUME Aligned, NEW s \in BOOLEAN, NEW n \in Nat, NEW i \in CellsOf(s, n)
  PROVE  i \in Nat /\ i # 1
<1>1. SpaceStart(s) \in Nat /\ SpaceStart(s) % 2 = 0
  BY SpaceSizeFacts DEF SpaceStart, Aligned
<1>2. i \in SpaceStart(s) .. SpaceStart(s) + n - 1 /\ (i - SpaceStart(s)) % 2 = 0
  BY DEF CellsOf
<1> HIDE DEF SpaceStart
<1> QED BY <1>1, <1>2

(* No cons begins at the cdr of another.                                   *)
LEMMA CellsOfApart ==
  ASSUME NEW s \in BOOLEAN, NEW n \in Nat,
         NEW i \in CellsOf(s, n), NEW j \in CellsOf(s, n)
  PROVE  i + 1 # j
<1>1. SpaceStart(s) \in Nat
  BY SpaceStartFacts
<1>2. /\ i - SpaceStart(s) \in Nat /\ (i - SpaceStart(s)) % 2 = 0
      /\ j - SpaceStart(s) \in Nat /\ (j - SpaceStart(s)) % 2 = 0
      /\ i \in Int /\ j \in Int
  BY <1>1 DEF CellsOf
<1>3. \A k \in Nat : k % 2 = 0 => (k + 1) % 2 = 1
  BY SMT
<1>4. (i - SpaceStart(s)) + 1 # j - SpaceStart(s)
  BY <1>2, <1>3
<1> QED BY <1>1, <1>2, <1>4

(* Nothing is in both spaces.                                              *)
LEMMA SpacesDisjoint ==
  ASSUME NEW s \in BOOLEAN, NEW n \in Nat, NEW m \in Nat,
         n <= SpaceSize, m <= SpaceSize,
         NEW i \in SpaceStart(s) .. SpaceStart(s) + n - 1,
         NEW j \in SpaceStart(~s) .. SpaceStart(~s) + m - 1
  PROVE  i # j
BY SpaceSizeFacts DEF SpaceStart

(* Two values to a cons: how CopiesCounted counts copies.                  *)
LEMMA CellsOfCardinality ==
  ASSUME NEW s \in BOOLEAN, NEW n \in Nat, n % 2 = 0
  PROVE  /\ IsFiniteSet(CellsOf(s, n))
         /\ n = 2 * Cardinality(CellsOf(s, n))
<1> DEFINE m == n \div 2
           f == [k \in 1 .. m |-> SpaceStart(s) + 2 * (k - 1)]
<1>1. m \in Nat /\ n = 2 * m
  BY SMT
<1>2. SpaceStart(s) \in Nat
  BY SpaceStartFacts
<1> HIDE DEF m
<1>3. f \in [1 .. m -> CellsOf(s, n)]
  <2>1. \A k \in 1 .. m : /\ SpaceStart(s) + 2 * (k - 1) \in SpaceStart(s) .. SpaceStart(s) + n - 1
                          /\ ((SpaceStart(s) + 2 * (k - 1)) - SpaceStart(s)) % 2 = 0
    BY <1>1, <1>2
  <2> QED BY <2>1 DEF CellsOf
<1>4. \A k, l \in 1 .. m : k # l => f[k] # f[l]
  BY <1>2
<1>5. \A i \in CellsOf(s, n) : \E k \in 1 .. m : f[k] = i
  <2> TAKE i \in CellsOf(s, n)
  <2>1. i \in SpaceStart(s) .. SpaceStart(s) + n - 1 /\ (i - SpaceStart(s)) % 2 = 0
    BY DEF CellsOf
  <2> DEFINE k == (i - SpaceStart(s)) \div 2 + 1
  <2>2. \A d \in Nat : d % 2 = 0 => d \div 2 \in Nat /\ 2 * (d \div 2) = d
    BY SMT
  <2>3. i - SpaceStart(s) \in Nat /\ i - SpaceStart(s) < n
    BY <2>1, <1>1, <1>2
  <2>4. k \in Int /\ k - 1 \in Nat /\ 2 * (k - 1) = i - SpaceStart(s)
    BY <2>1, <2>2, <2>3
  <2> HIDE DEF k
  <2>5. k \in 1 .. m /\ SpaceStart(s) + 2 * (k - 1) = i
    BY <1>1, <1>2, <2>1, <2>3, <2>4
  <2> QED BY <2>5 DEF f
<1> HIDE DEF f
<1>6. f \in Bijection(1 .. m, CellsOf(s, n))
  BY <1>3, <1>4, <1>5 DEF Bijection, Injection, IsInjective, Surjection
<1>7. ExistsBijection(1 .. m, CellsOf(s, n))
  BY <1>6 DEF ExistsBijection
<1>8. IsFiniteSet(1 .. m) /\ Cardinality(1 .. m) = m
  BY <1>1, FS_Interval
<1> QED BY <1>1, <1>7, <1>8, FS_Bijection

-----------------------------------------------------------------------------
(* The inductive invariant. *)

HeapType(h) ==
  /\ h \in [0 .. HeapSize - 1 -> Value]
  /\ \A i \in 0 .. HeapSize - 1 : ~h[i].cons => h[i].tag = 0

(* The spaces fill by whole conses, and a collection never copies more     *)
(* than it started from.                                                   *)
Bounds ==
  /\ allocationIndex % 2 = 0
  /\ allocationIndex <= SpaceSize
  /\ fromIndex % 2 = 0
  /\ fromIndex <= SpaceSize
  /\ phase # "failed"

IInv ==
  /\ TypeOK
  /\ Bounds
  /\ PointersValid
  /\ CollectorConsistent

(* The part of a collection's state that a copy preserves.                 *)
CopyInv(h, n, limit) ==
  /\ HeapType(h)
  /\ n \in Nat
  /\ n % 2 = 0
  /\ n <= fromIndex
  /\ ForwardsInto(h, n)
  /\ CopiesPoint(h, n, limit)
  /\ CopiesCounted(h, n)

(* Writing a cons changes its two fields and nothing else.                 *)
LEMMA WriteConsFacts ==
  ASSUME NEW h, HeapType(h),
         NEW i \in 0 .. HeapSize - 1, i + 1 \in 0 .. HeapSize - 1,
         NEW a \in Value, NEW b \in Value,
         ~a.cons => a.tag = 0, ~b.cons => b.tag = 0
  PROVE  /\ HeapType(WriteCons(h, i, a, b))
         /\ \A k \in 0 .. HeapSize - 1 :
              WriteCons(h, i, a, b)[k] =
                IF k = i THEN a ELSE IF k = i + 1 THEN b ELSE h[k]
<1>1. i # i + 1
  OBVIOUS
<1> QED BY <1>1 DEF HeapType, WriteCons

(* The parts of a cons value.                                              *)
LEMMA ConsFacts ==
  ASSUME NEW i \in Int, NEW t \in Tag
  PROVE  /\ Cons(i, t) \in Value
         /\ Cons(i, t).cons
         /\ Cons(i, t).payload = i
         /\ Cons(i, t).tag = t
BY DEF Cons, Value

(* NEVER is a cons value.                                                  *)
LEMMA NeverFacts ==
  NEVER \in Value /\ NEVER.cons /\ IsNever(NEVER)
BY MemoryAssumption DEF NEVER, Pair, Cons, Value, IsNever

(* A tag changes neither what a value is nor where it points.              *)
LEMMA SetTagFacts ==
  ASSUME NEW v \in Value, NEW t \in Tag
  PROVE  /\ SetTag(v, t) \in Value
         /\ SetTag(v, t).cons = v.cons
         /\ SetTag(v, t).payload = v.payload
         /\ ~v.cons => SetTag(v, t).tag = v.tag
BY DEF SetTag, Value

(* A collection that has not copied every cons has room for one more.      *)
LEMMA RoomToCopy ==
  ASSUME TypeOK, Bounds, NEW h, NEW n \in Nat, CopiesCounted(h, n),
         NEW p \in FromCells, ~IsNever(h[p])
  PROVE  n < fromIndex
<1>1. IsFiniteSet(FromCells) /\ fromIndex = 2 * Cardinality(FromCells)
  BY CellsOfCardinality DEF TypeOK, Bounds, FromCells
<1>2. Forwarded(h) \subseteq FromCells \ {p}
  BY DEF Forwarded
<1>3. /\ IsFiniteSet(FromCells \ {p})
      /\ Cardinality(FromCells \ {p}) = Cardinality(FromCells) - 1
  BY <1>1, FS_RemoveElement
<1>4. /\ IsFiniteSet(Forwarded(h))
      /\ Cardinality(Forwarded(h)) <= Cardinality(FromCells \ {p})
  BY <1>2, <1>3, FS_Subset
<1>5. Cardinality(FromCells) \in Nat /\ Cardinality(Forwarded(h)) \in Nat
  BY <1>1, <1>4, FS_CardinalityType
<1> QED BY <1>1, <1>3, <1>4, <1>5 DEF CopiesCounted

(* copy_cons never fails, whatever it returns points into the current      *)
(* space, and it leaves a collection in order.                             *)
LEMMA CopyConsPreserves ==
  ASSUME Aligned, TypeOK, Bounds,
         NEW limit \in Int, limit <= AllocationEnd,
         CopyInv(heap, allocationIndex, limit),
         NEW c \in Value, c.cons, PointsInto(c, FromCells)
  PROVE  LET copy == CopyCons(c)
         IN /\ copy.ok
            /\ copy.cons \in Value
            /\ copy.cons.cons
            /\ IsNever(copy.cons) <=> IsNever(c)
            /\ PointsInto(copy.cons, CellsOf(space, copy.index))
            /\ CopyInv(copy.heap, copy.index, limit)
            /\ allocationIndex <= copy.index
            /\ copy.index <= SpaceSize
            /\ \A k \in AllocationStart .. AllocationEnd - 1 : copy.heap[k] = heap[k]
<1> DEFINE copy == CopyCons(c)
           p == c.payload
           n == allocationIndex
<1>t. /\ n \in Nat /\ n % 2 = 0 /\ n <= fromIndex
      /\ fromIndex \in Nat /\ fromIndex % 2 = 0 /\ fromIndex <= SpaceSize
      /\ space \in BOOLEAN /\ (~space) \in BOOLEAN
      /\ SpaceSize \in Nat /\ c.tag \in Tag /\ HeapType(heap)
      /\ AllocationStart = SpaceStart(space) /\ AllocationEnd = SpaceStart(space) + n
      /\ SpaceStart(space) \in Nat
      /\ ForwardsInto(heap, n) /\ CopiesPoint(heap, n, limit) /\ CopiesCounted(heap, n)
  <2>1. /\ allocationIndex \in Nat /\ fromIndex \in Nat /\ space \in BOOLEAN
        /\ allocationIndex % 2 = 0 /\ fromIndex % 2 = 0 /\ fromIndex <= SpaceSize
    BY DEF TypeOK, Bounds
  <2>2. /\ SpaceSize \in Nat /\ (~space) \in BOOLEAN /\ SpaceStart(space) \in Nat
    BY <2>1, SpaceSizeFacts, SpaceStartFacts
  <2>3. /\ allocationIndex <= fromIndex /\ HeapType(heap)
        /\ ForwardsInto(heap, n) /\ CopiesPoint(heap, n, limit) /\ CopiesCounted(heap, n)
    BY DEF CopyInv
  <2>4. c.tag \in Tag
    BY DEF Value
  <2> QED BY <2>1, <2>2, <2>3, <2>4 DEF AllocationStart, AllocationEnd
<1> HIDE DEF n
<1>1. CASE IsNever(c)
  <2>1. copy = [ok |-> TRUE, cons |-> c, heap |-> heap, index |-> allocationIndex]
    BY <1>1 DEF CopyCons
  <2>2. PointsInto(c, CellsOf(space, allocationIndex))
    BY <1>1 DEF PointsInto
  <2> QED BY <2>1, <2>2, <1>1, <1>t DEF n
<1>a. ASSUME ~IsNever(c)
      PROVE  /\ p \in FromCells
             /\ p \in 0 .. HeapSize - 1 /\ p + 1 \in 0 .. HeapSize - 1
             /\ p \in SpaceStart(~space) .. SpaceStart(~space) + fromIndex - 1
             /\ p + 1 \in SpaceStart(~space) .. SpaceStart(~space) + fromIndex - 1
             /\ heap[p] \in Value /\ heap[p + 1] \in Value
             /\ ~heap[p].cons => heap[p].tag = 0
             /\ ~heap[p + 1].cons => heap[p + 1].tag = 0
  <2>1. p \in CellsOf(~space, fromIndex)
    BY <1>a DEF PointsInto, FromCells
  <2> QED BY <2>1, <1>t, CellsOfFacts DEF FromCells, HeapType
<1>2. CASE ~IsNever(c) /\ IsNever(heap[p])
  <2>1. copy = [ok |-> TRUE, cons |-> SetTag(heap[p + 1], c.tag),
                heap |-> heap, index |-> allocationIndex]
    BY <1>2 DEF CopyCons
  <2>2. heap[p + 1].cons /\ heap[p + 1].payload \in CellsOf(space, n)
    BY <1>2, <1>a, <1>t DEF ForwardsInto
  <2>3. /\ copy.cons \in Value /\ copy.cons.cons
        /\ copy.cons.payload = heap[p + 1].payload
    BY <2>1, <2>2, <1>2, <1>a, <1>t, SetTagFacts
  <2>4. ~IsNever(copy.cons)
    BY <2>2, <2>3, <1>t, CellsOfEven DEF IsNever
  <2>5. PointsInto(copy.cons, CellsOf(space, n))
    BY <2>2, <2>3 DEF PointsInto
  <2> QED BY <2>1, <2>3, <2>4, <2>5, <1>2, <1>t DEF n
<1>3. CASE ~IsNever(c) /\ ~IsNever(heap[p])
  <2> DEFINE end == SpaceStart(space) + n
             h1 == WriteCons(heap, end, heap[p], heap[p + 1])
             h2 == WriteCons(h1, p, NEVER, Cons(end, Pair))
  <2>1. n < fromIndex
    BY <1>3, <1>a, <1>t, RoomToCopy
  <2>2. n + 2 <= fromIndex /\ n + 2 \in Nat /\ (n + 2) % 2 = 0
    BY <2>1, <1>t
  <2>3. /\ end \in CellsOf(space, n + 2)
        /\ CellsOf(space, n + 2) = CellsOf(space, n) \cup {end}
    BY <1>t, CellsOfExtend
  <2>4. /\ end \in 0 .. HeapSize - 1 /\ end + 1 \in 0 .. HeapSize - 1
        /\ end \in SpaceStart(space) .. SpaceStart(space) + (n + 2) - 1
        /\ end + 1 \in SpaceStart(space) .. SpaceStart(space) + (n + 2) - 1
    BY <2>2, <2>3, <1>t, CellsOfFacts
  <2>5. copy = [ok |-> TRUE, cons |-> Cons(end, c.tag), heap |-> h2,
                index |-> n + 2]
    BY <1>3, <2>1, <1>t DEF CopyCons, IsOutOfMemory, n
  <2>6. /\ HeapType(h1)
        /\ \A k \in 0 .. HeapSize - 1 :
             h1[k] = IF k = end THEN heap[p] ELSE IF k = end + 1 THEN heap[p + 1] ELSE heap[k]
    <3>1. end \in 0 .. HeapSize - 1 /\ end + 1 \in 0 .. HeapSize - 1
      BY <2>4
    <3>2. /\ heap[p] \in Value /\ (~heap[p].cons => heap[p].tag = 0)
          /\ heap[p + 1] \in Value /\ (~heap[p + 1].cons => heap[p + 1].tag = 0)
      BY <1>3, <1>a
    <3>3. HeapType(heap)
      BY <1>t
    <3> HIDE DEF p, end
    <3> QED BY ONLY <3>1, <3>2, <3>3, WriteConsFacts
  <2>7. Cons(end, Pair) \in Value /\ Cons(end, Pair).cons /\ Cons(end, Pair).payload = end
    BY <2>4, MemoryAssumption, ConsFacts DEF Pair
  <2>8. /\ HeapType(h2)
        /\ \A k \in 0 .. HeapSize - 1 :
             h2[k] = IF k = p THEN NEVER ELSE IF k = p + 1 THEN Cons(end, Pair) ELSE h1[k]
    <3>1. p \in 0 .. HeapSize - 1 /\ p + 1 \in 0 .. HeapSize - 1
      BY <1>3, <1>a
    <3>2. HeapType(h1)
      BY <2>6
    <3>3. Cons(end, Pair) \in Value /\ (~Cons(end, Pair).cons => Cons(end, Pair).tag = 0)
      BY <2>7
    <3>4. NEVER \in Value /\ (~NEVER.cons => NEVER.tag = 0)
      BY NeverFacts
    <3> HIDE DEF p, end, h1
    <3> QED BY ONLY <3>1, <3>2, <3>3, <3>4, WriteConsFacts
  <2>9. /\ IsNever(h2[p])
        /\ h2[p + 1] = Cons(end, Pair)
        /\ h2[end] = heap[p]
        /\ h2[end + 1] = heap[p + 1]
        /\ \A k \in 0 .. HeapSize - 1 :
             k \notin {p, p + 1, end, end + 1} => h2[k] = heap[k]
    <3>1. p # end /\ p # end + 1 /\ p + 1 # end /\ p + 1 # end + 1
      BY <2>2, <2>4, <1>3, <1>a, <1>t, SpacesDisjoint
    <3>2. p # p + 1 /\ end # end + 1
      BY <1>3, <1>a, <2>4
    <3> HIDE DEF p, end, h1, h2
    <3> QED BY <3>1, <3>2, <2>4, <2>6, <2>8, <1>3, <1>a, NeverFacts
  <2>10. \A i \in FromCells \ {p} : h2[i] = heap[i] /\ h2[i + 1] = heap[i + 1]
    <3> TAKE i \in FromCells \ {p}
    <3>1. /\ i \in 0 .. HeapSize - 1 /\ i + 1 \in 0 .. HeapSize - 1
          /\ i \in SpaceStart(~space) .. SpaceStart(~space) + fromIndex - 1
          /\ i + 1 \in SpaceStart(~space) .. SpaceStart(~space) + fromIndex - 1
      BY <1>t, CellsOfFacts DEF FromCells
    <3>2. i \notin {end, end + 1} /\ i + 1 \notin {end, end + 1}
      BY <2>2, <2>4, <3>1, <1>t, SpacesDisjoint
    <3>3. i # p + 1 /\ i + 1 # p
      <4>1. i \in CellsOf(~space, fromIndex) /\ p \in CellsOf(~space, fromIndex)
        BY <1>3, <1>a DEF FromCells
      <4> QED BY <4>1, <1>t, CellsOfApart
    <3>4. i + 1 # p + 1
      BY <1>3, <1>a, <3>1
    <3> HIDE DEF p, end, h1, h2
    <3> QED BY <3>1, <3>2, <3>3, <3>4, <2>9
  <2>11. \A k \in SpaceStart(space) .. end - 1 : h2[k] = heap[k]
    <3> TAKE k \in SpaceStart(space) .. end - 1
    <3>1. k \in 0 .. HeapSize - 1 /\ k \notin {end, end + 1}
      BY <2>4, <1>t, MemoryAssumption
    <3>2. k \in SpaceStart(space) .. SpaceStart(space) + n - 1
      BY <1>t
    <3>3. k \notin {p, p + 1}
      BY <3>2, <1>3, <1>a, <1>t, SpacesDisjoint
    <3> HIDE DEF p, end, h1, h2
    <3> QED BY <3>1, <3>3, <2>9
  <2>12. ForwardsInto(h2, n + 2)
    <3>1. SUFFICES ASSUME NEW i \in FromCells
                   PROVE  IF IsNever(h2[i])
                          THEN /\ h2[i + 1].cons
                               /\ h2[i + 1].payload \in CellsOf(space, n + 2)
                          ELSE PointsInto(h2[i], FromCells) /\ PointsInto(h2[i + 1], FromCells)
      BY DEF ForwardsInto
    <3> HIDE DEF p, end, h1, h2
    <3>2. CASE i = p
      BY <3>2, <2>3, <2>7, <2>9
    <3>3. CASE i # p
      BY <3>3, <2>3, <2>10, <1>t DEF ForwardsInto
    <3> QED BY <3>2, <3>3
  <2>13. CopiesPoint(h2, n + 2, limit)
    <3>1. SUFFICES ASSUME NEW k \in SpaceStart(space) .. SpaceStart(space) + (n + 2) - 1
                   PROVE  PointsInto(h2[k],
                            IF k < limit THEN CellsOf(space, n + 2) ELSE FromCells)
      BY <1>t DEF CopiesPoint
    <3>2. PointsInto(heap[p], FromCells) /\ PointsInto(heap[p + 1], FromCells)
      BY <1>3, <1>a, <1>t DEF ForwardsInto
    <3>3. k \in SpaceStart(space) .. end - 1 \/ k = end \/ k = end + 1
      BY <1>t
    <3>4. CASE k \in SpaceStart(space) .. end - 1
      <4>1. PointsInto(heap[k], IF k < limit THEN CellsOf(space, n) ELSE FromCells)
        BY <3>4, <1>t DEF CopiesPoint
      <4> HIDE DEF p, end, h1, h2
      <4> QED BY <4>1, <3>4, <2>3, <2>11 DEF PointsInto
    <3>5. CASE k = end \/ k = end + 1
      <4>1. ~(k < limit)
        BY <3>5, <1>t
      <4> HIDE DEF p, end, h1, h2
      <4> QED BY <4>1, <3>2, <3>5, <2>9
    <3> QED BY <3>3, <3>4, <3>5
  <2>14. \A i \in CellsOf(space, n + 2) : ~IsNever(h2[i])
    <3> TAKE i \in CellsOf(space, n + 2)
    <3>1. CASE i = end
      BY <3>1, <2>9, <1>3
    <3>2. CASE i \in CellsOf(space, n)
      <4>1. i \in SpaceStart(space) .. end - 1
        BY <3>2, <1>t, CellsOfFacts
      <4> HIDE DEF p, end, h1, h2
      <4> QED BY <4>1, <3>2, <2>11, <1>t DEF CopiesCounted
    <3> QED BY <3>1, <3>2, <2>3
  <2>15. n + 2 = 2 * Cardinality(Forwarded(h2))
    <3> HIDE DEF p, end, h1, h2
    <3>1. Forwarded(h2) = Forwarded(heap) \cup {p}
      BY <2>9, <2>10, <1>3, <1>a DEF Forwarded
    <3>2. p \notin Forwarded(heap)
      BY <1>3 DEF Forwarded
    <3>3. IsFiniteSet(Forwarded(heap))
      <4>1. Forwarded(heap) \in SUBSET FromCells
        BY DEF Forwarded
      <4>2. IsFiniteSet(FromCells)
        BY <1>t, CellsOfCardinality DEF FromCells
      <4> QED BY <4>1, <4>2, FS_Subset
    <3>4. Cardinality(Forwarded(h2)) = Cardinality(Forwarded(heap)) + 1
      BY <3>1, <3>2, <3>3, FS_AddElement
    <3>5. Cardinality(Forwarded(heap)) \in Nat
      BY <3>3, FS_CardinalityType
    <3> QED BY <3>4, <3>5, <1>t DEF CopiesCounted
  <2>16. CopyInv(h2, n + 2, limit)
    <3> HIDE DEF p, end, h1, h2
    <3> QED BY <2>2, <2>8, <2>12, <2>13, <2>14, <2>15 DEF CopyInv, CopiesCounted
  <2>17. /\ Cons(end, c.tag) \in Value /\ Cons(end, c.tag).cons
         /\ Cons(end, c.tag).payload = end
    BY <2>4, <1>t, ConsFacts
  <2>18. ~IsNever(Cons(end, c.tag))
    <3>1. end # 1
      BY <2>2, <2>3, <1>t, CellsOfEven
    <3> HIDE DEF end
    <3> QED BY <3>1, <2>17 DEF IsNever
  <2>19. PointsInto(Cons(end, c.tag), CellsOf(space, n + 2))
    BY <2>3, <2>17 DEF PointsInto
  <2>20. \A k \in AllocationStart .. AllocationEnd - 1 : h2[k] = heap[k]
    BY <2>11, <1>t
  <2> HIDE DEF end, h1, h2, copy
  <2>21. /\ copy.ok /\ copy.cons = Cons(end, c.tag) /\ copy.heap = h2
         /\ copy.index = n + 2
    BY <2>5
  <2>22. allocationIndex <= n + 2 /\ n + 2 <= SpaceSize
    BY <2>2, <1>t DEF n
  <2> QED BY <2>16, <2>17, <2>18, <2>19, <2>20, <2>21, <2>22, <1>3 DEF copy
<1> QED BY <1>1, <1>2, <1>3

-----------------------------------------------------------------------------
(* The steps of a program. *)

(* The cells hold a graph: what PointersValid says of the fields.          *)
Sound(h, cells) ==
  \A i \in cells :
    /\ ~IsNever(h[i])
    /\ PointsInto(h[i], cells)
    /\ PointsInto(h[i + 1], cells)

(* The bounds of the current space are numbers.                            *)
LEMMA TypeFacts ==
  ASSUME TypeOK
  PROVE  /\ space \in BOOLEAN /\ allocationIndex \in Nat
         /\ AllocationStart = SpaceStart(space)
         /\ AllocationEnd = AllocationStart + allocationIndex
         /\ AllocationStart \in Nat /\ AllocationEnd \in Nat
         /\ Pair \in Tag
<1>1. space \in BOOLEAN /\ allocationIndex \in Nat
  BY DEF TypeOK
<1>2. SpaceStart(space) \in Nat
  BY <1>1, SpaceStartFacts
<1>3. Pair \in Tag
  BY MemoryAssumption DEF Pair
<1> QED BY <1>1, <1>2, <1>3 DEF AllocationStart, AllocationEnd

(* The conses in use lie between the ends of the current space.            *)
LEMMA CellsFacts ==
  ASSUME TypeOK, Bounds
  PROVE  \A i \in Cells :
           /\ i \in 0 .. HeapSize - 1 /\ i + 1 \in 0 .. HeapSize - 1
           /\ i \in AllocationStart .. AllocationEnd - 1
           /\ i + 1 \in AllocationStart .. AllocationEnd - 1
<1>1. /\ space \in BOOLEAN /\ allocationIndex \in Nat
      /\ allocationIndex % 2 = 0 /\ allocationIndex <= SpaceSize
  BY DEF TypeOK, Bounds
<1> TAKE i \in Cells
<1>2. i \in CellsOf(space, allocationIndex)
  BY DEF Cells
<1>3. /\ i \in 0 .. HeapSize - 1 /\ i + 1 \in 0 .. HeapSize - 1
      /\ i \in SpaceStart(space) .. SpaceStart(space) + allocationIndex - 1
      /\ i + 1 \in SpaceStart(space) .. SpaceStart(space) + allocationIndex - 1
  BY <1>1, <1>2, CellsOfFacts
<1>4. AllocationStart = SpaceStart(space) /\ AllocationEnd = SpaceStart(space) + allocationIndex
  BY DEF AllocationStart, AllocationEnd
<1>5. SpaceStart(space) \in Nat
  BY <1>1, SpaceStartFacts
<1> QED BY <1>1, <1>3, <1>4, <1>5

(* What a program passes to the memory: see Held, Car and Cdr.             *)
LEMMA ArgumentFacts ==
  ASSUME Aligned, TypeOK, Bounds
  PROVE  /\ \A v \in Held : /\ v \in Value /\ v.cons /\ PointsInto(v, Cells)
                            /\ ~IsNever(v)
         /\ \A v \in Root : v \in Value /\ v.cons /\ PointsInto(v, Cells)
         /\ \A v \in Car : /\ v \in Value /\ PointsInto(v, Cells) /\ ~IsNever(v)
                           /\ ~v.cons => v.tag = 0
         /\ \A v \in Cdr : /\ v \in Value /\ PointsInto(v, Cells)
                           /\ ~v.cons => v.tag = 0
<1>1. \A i \in Cells : i \in Int /\ i # 1
  <2>1. space \in BOOLEAN /\ allocationIndex \in Nat
    BY DEF TypeOK
  <2> TAKE i \in Cells
  <2>2. i \in CellsOf(space, allocationIndex)
    BY DEF Cells
  <2> QED BY <2>1, <2>2, CellsOfEven
<1>2. \A v \in Held : /\ v \in Value /\ v.cons /\ PointsInto(v, Cells)
                      /\ ~IsNever(v)
  <2> SUFFICES ASSUME NEW i \in Cells, NEW t \in Tag
               PROVE  LET v == Cons(i, t)
                      IN v \in Value /\ v.cons /\ PointsInto(v, Cells) /\ ~IsNever(v)
    BY DEF Held
  <2>1. i \in Int /\ i # 1
    BY <1>1
  <2>2. /\ Cons(i, t) \in Value /\ Cons(i, t).cons /\ Cons(i, t).payload = i
    BY <2>1, ConsFacts
  <2> QED BY <2>1, <2>2 DEF PointsInto, IsNever
<1>3. \A n \in Number : LET v == FromNumber(n)
                        IN v \in Value /\ ~v.cons /\ v.tag = 0
  BY MemoryAssumption DEF FromNumber, Value
<1>4. NEVER \in Value /\ NEVER.cons /\ PointsInto(NEVER, Cells)
  BY NeverFacts DEF PointsInto
<1>5. \A v \in Car : /\ v \in Value /\ PointsInto(v, Cells) /\ ~IsNever(v)
                     /\ ~v.cons => v.tag = 0
  BY <1>2, <1>3 DEF Car, PointsInto, IsNever
<1> QED BY <1>2, <1>4, <1>5 DEF Root, Cdr

(* A new cons extends the graph and fits in the space.                     *)
LEMMA NewCons ==
  ASSUME Aligned, TypeOK, Bounds, PointersValid, phase = "mutator", ~IsOutOfMemory,
         NEW car \in Car, NEW cdr \in Value, PointsInto(cdr, Cells),
         ~cdr.cons => cdr.tag = 0
  PROVE  LET h == WriteCons(heap, AllocationEnd, car, cdr)
             cells == CellsOf(space, allocationIndex + 2)
         IN /\ allocationIndex + 2 <= SpaceSize
            /\ (allocationIndex + 2) % 2 = 0
            /\ HeapType(h)
            /\ Cells \subseteq cells
            /\ AllocationEnd \in cells
            /\ Sound(h, cells)
<1> DEFINE h == WriteCons(heap, AllocationEnd, car, cdr)
           n == allocationIndex
           cells == CellsOf(space, n + 2)
<1>1. /\ n \in Nat /\ n % 2 = 0 /\ space \in BOOLEAN /\ n < SpaceSize /\ SpaceSize \in Nat
      /\ SpaceSize % 2 = 0 /\ HeapType(heap)
  <2>1. SpaceSize \in Nat /\ SpaceSize % 2 = 0
    BY SpaceSizeFacts DEF Aligned
  <2>2. n \in Nat /\ space \in BOOLEAN /\ HeapType(heap)
    BY DEF TypeOK, HeapType
  <2>3. n % 2 = 0 /\ ~(n >= SpaceSize)
    BY DEF Bounds, IsOutOfMemory
  <2> QED BY <2>1, <2>2, <2>3
<1>2. n + 2 <= SpaceSize /\ (n + 2) % 2 = 0 /\ n + 2 \in Nat
  <2>1. \A a, b \in Nat : a % 2 = 0 /\ b % 2 = 0 /\ a < b => a + 2 <= b /\ (a + 2) % 2 = 0
    BY SMT
  <2> HIDE DEF n
  <2> QED BY <1>1, <2>1
<1>3. AllocationEnd = SpaceStart(space) + n
  BY DEF AllocationEnd, AllocationStart
<1>4. cells = Cells \cup {AllocationEnd}
  BY <1>1, <1>3, CellsOfExtend DEF Cells
<1>5. AllocationEnd \in 0 .. HeapSize - 1 /\ AllocationEnd + 1 \in 0 .. HeapSize - 1
  <2>1. AllocationEnd \in cells
    BY <1>4
  <2> HIDE DEF n
  <2> QED BY <2>1, <1>1, <1>2, CellsOfFacts
<1>6. car \in Value /\ PointsInto(car, Cells) /\ ~IsNever(car) /\ (~car.cons => car.tag = 0)
  BY ArgumentFacts
<1>7. /\ HeapType(h)
      /\ \A k \in 0 .. HeapSize - 1 :
           h[k] = IF k = AllocationEnd THEN car
                  ELSE IF k = AllocationEnd + 1 THEN cdr ELSE heap[k]
  BY ONLY <1>1, <1>5, <1>6, cdr \in Value, ~cdr.cons => cdr.tag = 0, WriteConsFacts
<1>8. \A i \in Cells : h[i] = heap[i] /\ h[i + 1] = heap[i + 1]
  <2> TAKE i \in Cells
  <2>1. /\ i \in 0 .. HeapSize - 1 /\ i + 1 \in 0 .. HeapSize - 1
        /\ i < AllocationEnd /\ i + 1 < AllocationEnd
    BY CellsFacts, <1>5
  <2> HIDE DEF h
  <2> QED BY <2>1, <1>5, <1>7
<1>9. Sound(h, cells)
  <2> SUFFICES ASSUME NEW i \in cells
               PROVE  /\ ~IsNever(h[i]) /\ PointsInto(h[i], cells)
                      /\ PointsInto(h[i + 1], cells)
    BY DEF Sound
  <2> HIDE DEF h, cells
  <2>1. CASE i = AllocationEnd
    BY <2>1, <1>4, <1>5, <1>6, <1>7 DEF PointsInto
  <2>2. CASE i \in Cells
    BY <2>2, <1>4, <1>8 DEF PointersValid, PointsInto
  <2> QED BY <2>1, <2>2, <1>4
<1> QED BY <1>2, <1>4, <1>7, <1>9

(* A step that leaves the two spaces alone and keeps the graph closed.     *)
LEMMA QuietStep ==
  ASSUME IInv, phase = "mutator", UNCHANGED <<spaceVars, collectorVars>>,
         HeapType(heap'), result' \in {"ok", "out of memory"},
         \A c \in {code', stack', false', register', local'} :
           c \in Value /\ c.cons /\ PointsInto(c, Cells),
         ~IsNever(false'),
         Sound(heap', Cells)
  PROVE  IInv'
<1>1. TypeOK /\ Bounds
  BY DEF IInv
<1>2. /\ allocationIndex' = allocationIndex /\ space' = space /\ user' = user
      /\ phase' = phase /\ scan' = scan /\ fromIndex' = fromIndex
  BY DEF spaceVars, collectorVars
<1>3. Cells' = Cells
  BY <1>2 DEF Cells
<1>4. TypeOK'
  BY <1>1, <1>2 DEF TypeOK, HeapType
<1>5. Bounds'
  BY <1>1, <1>2 DEF Bounds
<1>6. PointersValid'
  BY <1>3 DEF PointersValid, Sound
<1>7. CollectorConsistent'
  BY <1>2 DEF CollectorConsistent, CollectorPhase
<1> QED BY <1>4, <1>5, <1>6, <1>7 DEF IInv

(* What IInv says between two calls.                                       *)
LEMMA MutatorFacts ==
  ASSUME IInv, phase = "mutator"
  PROVE  /\ HeapType(heap)
         /\ \A c \in {code, stack, false, register, local} :
              c \in Value /\ c.cons /\ PointsInto(c, Cells)
         /\ ~IsNever(false)
         /\ Sound(heap, Cells)
BY DEF IInv, TypeOK, HeapType, PointersValid, Sound

(* The start of a collection: what it moves is a graph, all of it in the   *)
(* space it leaves, and nothing is copied yet.                             *)
LEMMA FlipStarts ==
  ASSUME Aligned, TypeOK', space \in BOOLEAN,
         NEW end \in Nat, end % 2 = 0, end <= SpaceSize, Flip(end),
         Sound(heap', CellsOf(space, end)),
         \A c \in {code', stack', false', register', local'} :
           PointsInto(c, CellsOf(space, end)),
         ~IsNever(false')
  PROVE  IInv'
<1>1. /\ fromIndex' = end /\ allocationIndex' = 0 /\ space' = ~space /\ phase' = "code"
  BY DEF Flip
<1>2. FromCells' = CellsOf(space, end)
  <2>1. ~(~space) = space
    OBVIOUS
  <2> QED BY <1>1, <2>1 DEF FromCells
<1>3. CellsOf(space', allocationIndex') = {}
  <2>1. SpaceStart(space') \in Nat
    BY <1>1, SpaceStartFacts
  <2> QED BY <2>1, <1>1 DEF CellsOf
<1>4. Bounds'
  BY <1>1, SpaceSizeFacts DEF Bounds
<1>5. PointersValid'
  BY <1>1 DEF PointersValid
<1>6. CollectorConsistent'
  <2>1. Forwarded(heap)' = {}
    BY <1>2 DEF Forwarded, Sound
  <2>2. CopiesCounted(heap, allocationIndex)'
    BY <2>1, <1>1, <1>3, FS_EmptySet DEF CopiesCounted
  <2>3. ForwardsInto(heap, allocationIndex)'
    BY <1>2 DEF ForwardsInto, Sound
  <2>4. /\ Scanned' = AllocationStart' /\ AllocationStart' \in Nat
        /\ AllocationEnd' = AllocationStart'
    <3>1. AllocationStart' = SpaceStart(space') /\ SpaceStart(space') \in Nat
      BY <1>1, SpaceStartFacts DEF AllocationStart
    <3>2. Scanned' = AllocationStart'
      BY <1>1 DEF Scanned
    <3>3. AllocationEnd' = SpaceStart(space') + allocationIndex'
      BY DEF AllocationEnd, AllocationStart
    <3> QED BY <3>1, <3>2, <3>3, <1>1
  <2>5. CopiesPoint(heap, allocationIndex, Scanned)'
    <3>1. AllocationStart' \in Nat /\ allocationIndex' = 0
      BY <2>4, <1>1
    <3>2. \A i \in AllocationStart' .. AllocationStart' + allocationIndex' - 1 : FALSE
      BY <3>1, EmptyRange
    <3> QED BY ONLY <3>2 DEF CopiesPoint
  <2>6. Scanned' \in AllocationStart' .. AllocationEnd'
    BY ONLY <2>4
  <2> QED BY <2>2, <2>3, <2>5, <2>6, <1>1, <1>2 DEF CollectorConsistent
<1> QED BY <1>4, <1>5, <1>6 DEF IInv

(* An allocation with room left keeps the invariant.                       *)
LEMMA AllocateWithinPreserves ==
  ASSUME Aligned, IInv,
         NEW car \in Car, NEW cdr \in Value, PointsInto(cdr, Cells),
         ~cdr.cons => cdr.tag = 0,
         NEW use \in {"none", "push"}, AllocateWithin(car, cdr, use)
  PROVE  IInv'
<1> DEFINE h == WriteCons(heap, AllocationEnd, car, cdr)
           cells == CellsOf(space, allocationIndex + 2)
<1>1. TypeOK /\ Bounds /\ PointersValid /\ phase = "mutator" /\ ~IsOutOfMemory
  BY DEF IInv, AllocateWithin
<1>2. /\ allocationIndex + 2 <= SpaceSize
      /\ (allocationIndex + 2) % 2 = 0
      /\ HeapType(h)
      /\ Cells \subseteq cells
      /\ AllocationEnd \in cells
      /\ Sound(h, cells)
  BY <1>1, NewCons
<1>3. /\ heap' = h /\ allocationIndex' = allocationIndex + 2
      /\ local' = Cons(AllocationEnd, Pair)
      /\ stack' \in {stack, local'}
      /\ result' = "ok"
      /\ code' = code /\ false' = false /\ register' = register /\ space' = space
      /\ user' = user /\ phase' = phase /\ scan' = scan /\ fromIndex' = fromIndex
  BY DEF AllocateWithin, collectorVars
<1>4. local' \in Value /\ local'.cons /\ PointsInto(local', cells)
  <2>1. AllocationEnd \in Int /\ Pair \in Tag
    BY <1>1, TypeFacts
  <2> QED BY <2>1, <1>2, <1>3, ConsFacts DEF PointsInto
<1>5. Cells' = cells
  <2>1. space' = space /\ allocationIndex' = allocationIndex + 2
    BY <1>3
  <2> QED BY ONLY <2>1 DEF Cells
<1> HIDE DEF h, cells
<1>6. TypeOK'
  <2>1. allocationIndex' \in Nat
    BY <1>1, <1>3, TypeFacts
  <2>2. \A c \in {code', stack', false', register', local'} : c \in Value /\ c.cons
    BY <1>1, <1>3, <1>4 DEF TypeOK
  <2>3. /\ heap' \in [0 .. HeapSize - 1 -> Value]
        /\ \A i \in 0 .. HeapSize - 1 : ~heap'[i].cons => heap'[i].tag = 0
    BY <1>2, <1>3 DEF HeapType
  <2>4. /\ space' \in BOOLEAN /\ user' \in {"none", "push"} /\ fromIndex' \in Nat
        /\ phase' \in CollectorPhase \cup {"mutator", "failed"} /\ scan' \in Nat
        /\ result' \in {"ok", "out of memory"}
    BY <1>1, <1>3 DEF TypeOK
  <2> QED BY <2>1, <2>2, <2>3, <2>4 DEF TypeOK
<1>7. Bounds'
  BY <1>1, <1>2, <1>3 DEF Bounds
<1>8. PointersValid'
  <2>1. \A c \in {code', stack', false', register', local'} : PointsInto(c, cells)
    BY <1>1, <1>2, <1>3, <1>4 DEF PointersValid, PointsInto
  <2>2. ~IsNever(false')
    BY <1>1, <1>3 DEF PointersValid
  <2> QED BY <2>1, <2>2, <1>2, <1>3, <1>5 DEF PointersValid, Sound
<1>9. CollectorConsistent'
  BY <1>1, <1>3 DEF CollectorConsistent, CollectorPhase
<1> QED BY <1>6, <1>7, <1>8, <1>9 DEF IInv

(* An allocation that fills the space starts a collection in order.        *)
LEMMA AllocateAndCollectPreserves ==
  ASSUME Aligned, IInv,
         NEW car \in Car, NEW cdr \in Value, PointsInto(cdr, Cells),
         ~cdr.cons => cdr.tag = 0,
         NEW use \in {"none", "push"}, AllocateAndCollect(car, cdr, use)
  PROVE  IInv'
<1> DEFINE h == WriteCons(heap, AllocationEnd, car, cdr)
           n == allocationIndex + 2
           cells == CellsOf(space, n)
<1>1. TypeOK /\ Bounds /\ PointersValid /\ phase = "mutator" /\ ~IsOutOfMemory
  BY DEF IInv, AllocateAndCollect
<1>2. /\ n <= SpaceSize
      /\ n % 2 = 0
      /\ HeapType(h)
      /\ Cells \subseteq cells
      /\ AllocationEnd \in cells
      /\ Sound(h, cells)
  BY <1>1, NewCons
<1>3. /\ heap' = h /\ Flip(n)
      /\ local' = Cons(AllocationEnd, Pair)
      /\ user' = use
      /\ result' = "ok"
      /\ code' = code /\ stack' = stack /\ false' = false /\ register' = register
      /\ scan' = scan
  BY DEF AllocateAndCollect, rootVars
<1>4. local' \in Value /\ local'.cons /\ PointsInto(local', cells)
  <2>1. AllocationEnd \in Int /\ Pair \in Tag
    BY <1>1, TypeFacts
  <2> QED BY <2>1, <1>2, <1>3, ConsFacts DEF PointsInto
<1>5. n \in Nat /\ space \in BOOLEAN
  BY <1>1, TypeFacts
<1> HIDE DEF h, cells, n
<1>6. TypeOK'
  BY <1>1, <1>2, <1>3, <1>4, <1>5 DEF TypeOK, HeapType, Flip, CollectorPhase
<1>7. \A c \in {code', stack', false', register', local'} : PointsInto(c, cells)
  BY <1>1, <1>2, <1>3, <1>4 DEF PointersValid, PointsInto
<1>8. ~IsNever(false')
  BY <1>1, <1>3 DEF PointersValid
<1> QED BY <1>2, <1>3, <1>5, <1>6, <1>7, <1>8, FlipStarts DEF cells

(* So does every allocation, refused ones included.                        *)
LEMMA AllocationPreserves ==
  ASSUME Aligned, IInv, Allocation
  PROVE  IInv'
<1>1. TypeOK /\ Bounds
  BY DEF IInv
<1>2. CASE AllocateFails
  <2>1. /\ phase = "mutator" /\ UNCHANGED <<spaceVars, collectorVars>>
        /\ heap' = heap /\ local' = local /\ result' = "out of memory"
        /\ code' = code /\ stack' = stack /\ false' = false /\ register' = register
    BY <1>2 DEF AllocateFails, rootVars
  <2> QED BY <2>1, MutatorFacts, QuietStep
<1>3. ASSUME NEW car \in Car, NEW cdr \in Cdr, Allocate(car, cdr)
      PROVE  IInv'
  <2>1. cdr \in Value /\ PointsInto(cdr, Cells) /\ (~cdr.cons => cdr.tag = 0)
    BY <1>1, ArgumentFacts
  <2> QED BY <1>3, <2>1, AllocateWithinPreserves, AllocateAndCollectPreserves DEF Allocate
<1>4. ASSUME NEW value \in Car, Push(value)
      PROVE  IInv'
  <2> DEFINE cdr == SetTag(stack, Pair)
  <2>1. phase = "mutator" /\ PointersValid
    BY <1>4 DEF Push, AllocateWithin, AllocateAndCollect, IInv
  <2>2. stack \in Value /\ stack.cons /\ PointsInto(stack, Cells)
    BY <2>1, <1>1 DEF TypeOK, PointersValid
  <2>3. cdr \in Value /\ PointsInto(cdr, Cells) /\ (~cdr.cons => cdr.tag = 0)
    BY <2>2, SetTagFacts, MemoryAssumption DEF PointsInto, IsNever, Pair
  <2>4. AllocateWithin(value, cdr, "push") \/ AllocateAndCollect(value, cdr, "push")
    BY <1>4 DEF Push
  <2> HIDE DEF cdr
  <2> QED BY <2>3, <2>4, AllocateWithinPreserves, AllocateAndCollectPreserves
<1> QED BY <1>2, <1>3, <1>4 DEF Allocation

(* Setting a root to a cons in use keeps the invariant.                    *)
LEMMA SetRootsPreserves ==
  ASSUME IInv, SetRoots,
         \A c \in {code', stack', false', register'} :
           c \in Value /\ c.cons /\ PointsInto(c, Cells),
         ~IsNever(false')
  PROVE  IInv'
<1>1. /\ phase = "mutator" /\ UNCHANGED <<spaceVars, collectorVars>>
      /\ heap' = heap /\ local' = local /\ result' = result
  BY DEF SetRoots
<1>2. result' \in {"ok", "out of memory"}
  BY <1>1 DEF IInv, TypeOK
<1> QED BY <1>1, <1>2, MutatorFacts, QuietStep

(* So does setting a field.                                                *)
LEMMA SetFieldPreserves ==
  ASSUME IInv, NEW i \in Cells, NEW index \in {i, i + 1},
         NEW value \in Value, PointsInto(value, Cells), ~value.cons => value.tag = 0,
         index = i => ~IsNever(value),
         SetField(index, value)
  PROVE  IInv'
<1>1. /\ phase = "mutator" /\ UNCHANGED <<spaceVars, collectorVars>>
      /\ heap' = [heap EXCEPT ![index] = value] /\ local' = local /\ result' = result
      /\ code' = code /\ stack' = stack /\ false' = false /\ register' = register
  BY DEF SetField, rootVars
<1>2. TypeOK /\ Bounds
  BY DEF IInv
<1>3. index \in 0 .. HeapSize - 1
  BY <1>2, CellsFacts
<1>4. /\ HeapType(heap')
      /\ heap'[index] = value
      /\ \A k \in 0 .. HeapSize - 1 : k # index => heap'[k] = heap[k]
  BY <1>1, <1>3, MutatorFacts DEF HeapType
<1>5. Sound(heap', Cells)
  <2> SUFFICES ASSUME NEW j \in Cells
               PROVE  /\ ~IsNever(heap'[j]) /\ PointsInto(heap'[j], Cells)
                      /\ PointsInto(heap'[j + 1], Cells)
    BY DEF Sound
  <2>1. j \in 0 .. HeapSize - 1 /\ j + 1 \in 0 .. HeapSize - 1
    BY <1>2, CellsFacts
  <2>2. j # i + 1
    <3>1. j \in CellsOf(space, allocationIndex) /\ i \in CellsOf(space, allocationIndex)
      BY DEF Cells
    <3> QED BY <3>1, <1>2, TypeFacts, CellsOfApart
  <2>3. /\ ~IsNever(heap[j]) /\ PointsInto(heap[j], Cells)
        /\ PointsInto(heap[j + 1], Cells)
    BY <1>1, MutatorFacts DEF Sound
  <2> QED BY <2>1, <2>2, <2>3, <1>4
<1>6. result' \in {"ok", "out of memory"}
  BY <1>1, <1>2 DEF TypeOK
<1> QED BY <1>1, <1>4, <1>5, <1>6, MutatorFacts, QuietStep

(* Every call of a program that does not allocate.                         *)
LEMMA MutationPreserves ==
  ASSUME Aligned, IInv, Mutation
  PROVE  IInv'
<1>1. TypeOK /\ Bounds
  BY DEF IInv
<1>2. CASE CollectGarbages
  <2>1. /\ phase = "mutator" /\ local' = NEVER /\ user' = "none" /\ Flip(allocationIndex)
        /\ heap' = heap /\ scan' = scan /\ result' = result
        /\ code' = code /\ stack' = stack /\ false' = false /\ register' = register
    BY <1>2 DEF CollectGarbages, rootVars
  <2>2. /\ allocationIndex \in Nat /\ allocationIndex % 2 = 0
        /\ allocationIndex <= SpaceSize /\ space \in BOOLEAN
    BY <1>1, TypeFacts DEF Bounds
  <2>3. TypeOK'
    BY <2>1, <2>2, <1>1, NeverFacts DEF TypeOK, Flip, CollectorPhase
  <2>4. \A c \in {code', stack', false', register', local'} : PointsInto(c, Cells)
    BY <2>1, MutatorFacts, NeverFacts DEF PointsInto
  <2>5. Sound(heap', Cells) /\ ~IsNever(false')
    BY <2>1, MutatorFacts
  <2> QED BY <2>1, <2>2, <2>3, <2>4, <2>5, FlipStarts DEF Cells
<1>3. CASE Pop
  <2> DEFINE rest == heap[stack.payload + 1]
  <2>1. phase = "mutator" /\ SetStack(rest) /\ ~IsNever(stack) /\ rest.cons
    BY <1>3 DEF Pop, SetStack, SetRoots
  <2>2. stack.payload \in Cells
    BY <2>1, MutatorFacts DEF PointsInto
  <2>3. rest \in Value /\ PointsInto(rest, Cells)
    <3>1. stack.payload + 1 \in 0 .. HeapSize - 1
      BY <2>2, <1>1, CellsFacts
    <3> QED BY <2>1, <2>2, <3>1, MutatorFacts DEF Sound, HeapType
  <2> HIDE DEF rest
  <2> QED BY <2>1, <2>3, MutatorFacts, SetRootsPreserves DEF SetStack
<1>4. ASSUME NEW c \in Root, SetCode(c) \/ SetStack(c) \/ SetRegister(c)
      PROVE  IInv'
  <2>1. phase = "mutator" /\ c \in Value /\ c.cons /\ PointsInto(c, Cells)
    BY <1>1, <1>4, ArgumentFacts DEF SetCode, SetStack, SetRegister, SetRoots
  <2> QED BY <1>4, <2>1, MutatorFacts, SetRootsPreserves
          DEF SetCode, SetStack, SetRegister
<1>5. ASSUME NEW c \in Held, SetFalse(c)
      PROVE  IInv'
  <2>1. phase = "mutator" /\ c \in Value /\ c.cons /\ PointsInto(c, Cells) /\ ~IsNever(c)
    BY <1>1, <1>5, ArgumentFacts DEF SetFalse, SetRoots
  <2> QED BY <1>5, <2>1, MutatorFacts, SetRootsPreserves DEF SetFalse
<1>6. ASSUME NEW i \in Cells, NEW value \in Car, SetCar(i, value)
      PROVE  IInv'
  BY <1>1, <1>6, ArgumentFacts, SetFieldPreserves DEF SetCar
<1>7. ASSUME NEW i \in Cells, NEW value \in Cdr, SetCdr(i, value) \/ SetRawCdr(i, value)
      PROVE  IInv'
  <2>1. value \in Value /\ PointsInto(value, Cells) /\ (~value.cons => value.tag = 0)
    BY <1>1, ArgumentFacts
  <2>2. i # i + 1 /\ i + 1 \in 0 .. HeapSize - 1
    BY <1>1, CellsFacts
  <2>3. CASE SetRawCdr(i, value)
    BY <2>1, <2>2, <2>3, SetFieldPreserves DEF SetRawCdr
  <2>4. CASE SetCdr(i, value)
    <3> DEFINE tag == IF heap[i + 1].cons THEN heap[i + 1].tag ELSE 0
               new == SetTag(value, tag)
    <3>1. phase = "mutator" /\ SetField(i + 1, new)
      BY <2>4 DEF SetCdr, SetField
    <3>2. tag \in Tag
      BY <2>2, <1>1, MemoryAssumption DEF TypeOK, Value
    <3> HIDE DEF tag
    <3>3. new \in Value /\ PointsInto(new, Cells) /\ (~new.cons => new.tag = 0)
      BY <2>1, <3>2, SetTagFacts DEF PointsInto, IsNever
    <3> HIDE DEF new
    <3> QED BY <3>1, <3>3, <2>2, SetFieldPreserves
  <2> QED BY <1>7, <2>3, <2>4
<1> QED BY <1>2, <1>3, <1>4, <1>5, <1>6, <1>7 DEF Mutation

-----------------------------------------------------------------------------
(* The steps of a collection. *)

(* What CollectorConsistent says of the heap, ready for CopyConsPreserves. *)
LEMMA CollectorFacts ==
  ASSUME Aligned, IInv, phase \in CollectorPhase
  PROVE  /\ CopyInv(heap, allocationIndex, Scanned)
         /\ Scanned \in Int /\ AllocationStart <= Scanned /\ Scanned <= AllocationEnd
<1>1. TypeOK /\ Bounds /\ CollectorConsistent
  BY DEF IInv
<1>2. /\ ForwardsInto(heap, allocationIndex)
      /\ CopiesPoint(heap, allocationIndex, Scanned)
      /\ CopiesCounted(heap, allocationIndex)
      /\ Scanned \in AllocationStart .. AllocationEnd
  BY <1>1 DEF CollectorConsistent
<1>3. allocationIndex <= fromIndex
  <2>1. IsFiniteSet(FromCells) /\ fromIndex = 2 * Cardinality(FromCells)
    BY <1>1, CellsOfCardinality DEF TypeOK, Bounds, FromCells
  <2>2. Forwarded(heap) \in SUBSET FromCells
    BY DEF Forwarded
  <2>3. /\ IsFiniteSet(Forwarded(heap))
        /\ Cardinality(Forwarded(heap)) <= Cardinality(FromCells)
    BY <2>1, <2>2, FS_Subset
  <2>4. Cardinality(FromCells) \in Nat /\ Cardinality(Forwarded(heap)) \in Nat
    BY <2>1, <2>3, FS_CardinalityType
  <2>5. allocationIndex = 2 * Cardinality(Forwarded(heap))
    BY <1>2 DEF CopiesCounted
  <2> QED BY <2>1, <2>3, <2>4, <2>5
<1>4. HeapType(heap) /\ allocationIndex \in Nat /\ allocationIndex % 2 = 0
  BY <1>1 DEF TypeOK, HeapType, Bounds
<1>5. Scanned \in Int /\ AllocationStart <= Scanned /\ Scanned <= AllocationEnd
  BY <1>1, <1>2, TypeFacts
<1> QED BY <1>2, <1>3, <1>4, <1>5 DEF CopyInv

(* A step of the collection that ends in a heap that is in order is in     *)
(* order itself, if it takes care of the roots.                            *)
LEMMA CollectorStep ==
  ASSUME Aligned, IInv, phase' \in CollectorPhase,
         space' = space, fromIndex' = fromIndex, user' = user, result' = result,
         scan' \in Nat,
         allocationIndex <= allocationIndex', allocationIndex' <= SpaceSize,
         CopyInv(heap', allocationIndex', Scanned'),
         AllocationStart <= Scanned', Scanned' <= AllocationEnd', Scanned' \in Int,
         \A c \in {code', stack', false', register', local'} : c \in Value /\ c.cons,
         ~IsNever(false'),
         PointsInto(code', IF phase' = "code" THEN FromCells ELSE Cells'),
         PointsInto(stack', IF phase' \in {"code", "stack"} THEN FromCells ELSE Cells'),
         PointsInto(false',
           IF phase' \in {"code", "stack", "false"} THEN FromCells ELSE Cells'),
         PointsInto(register', IF phase' \in {"local", "scan"} THEN Cells' ELSE FromCells),
         PointsInto(local', IF phase' = "scan" THEN Cells' ELSE FromCells)
  PROVE  IInv'
<1>1. TypeOK /\ Bounds
  BY DEF IInv
<1>2. /\ HeapType(heap') /\ allocationIndex' \in Nat /\ allocationIndex' % 2 = 0
      /\ ForwardsInto(heap', allocationIndex')
      /\ CopiesPoint(heap', allocationIndex', Scanned')
      /\ CopiesCounted(heap', allocationIndex')
  BY DEF CopyInv
<1>3. FromCells' = FromCells
  BY DEF FromCells
<1>4. AllocationStart' = AllocationStart
  BY DEF AllocationStart
<1>5. TypeOK'
  BY <1>1, <1>2 DEF TypeOK, HeapType
<1>6. Bounds'
  BY <1>1, <1>2 DEF Bounds, CollectorPhase
<1>7. PointersValid'
  BY DEF PointersValid, CollectorPhase
<1>8. ForwardsInto(heap, allocationIndex)'
  BY <1>2, <1>3 DEF ForwardsInto
<1>9. CopiesPoint(heap, allocationIndex, Scanned)'
  BY <1>2, <1>3, <1>4 DEF CopiesPoint
<1>10. CopiesCounted(heap, allocationIndex)'
  BY <1>2, <1>3 DEF CopiesCounted, Forwarded
<1>11. Scanned' \in AllocationStart' .. AllocationEnd'
  <2>1. AllocationStart' \in Int /\ AllocationEnd' \in Int
    BY <1>1, <1>2, <1>4, TypeFacts DEF AllocationEnd
  <2> QED BY <2>1, <1>4
<1>12. CollectorConsistent'
  BY <1>3, <1>8, <1>9, <1>10, <1>11 DEF CollectorConsistent
<1> QED BY <1>5, <1>6, <1>7, <1>12 DEF IInv

(* One root: the others stay as they are and the copy is made.             *)
LEMMA CopyRootFacts ==
  ASSUME Aligned, IInv, NEW c \in Value, c.cons, PointsInto(c, FromCells),
         NEW here \in CollectorPhase \ {"scan"}, NEW next \in CollectorPhase,
         CopyRoot(here, next, CopyCons(c)),
         Scanned' = AllocationStart
  PROVE  /\ phase = here /\ phase' = next
         /\ space' = space /\ fromIndex' = fromIndex
         /\ user' = user /\ result' = result
         /\ allocationIndex <= allocationIndex' /\ allocationIndex' <= SpaceSize
         /\ CopyInv(heap', allocationIndex', Scanned')
         /\ AllocationStart <= Scanned' /\ Scanned' <= AllocationEnd' /\ Scanned' \in Int
         /\ CopyCons(c).cons \in Value /\ CopyCons(c).cons.cons
         /\ PointsInto(CopyCons(c).cons, Cells')
         /\ IsNever(CopyCons(c).cons) <=> IsNever(c)
         /\ Cells \subseteq Cells'
<1> DEFINE copy == CopyCons(c)
<1>1. /\ phase = here /\ phase' = IF copy.ok THEN next ELSE "failed"
      /\ heap' = copy.heap /\ allocationIndex' = copy.index
      /\ space' = space /\ fromIndex' = fromIndex
      /\ user' = user /\ result' = result
  BY DEF CopyRoot
<1>2. Scanned = AllocationStart
  BY <1>1 DEF Scanned
<1>3. TypeOK /\ Bounds
  BY DEF IInv
<1>4. CopyInv(heap, allocationIndex, AllocationStart) /\ AllocationStart <= AllocationEnd
  BY <1>1, <1>2, CollectorFacts
<1>5. AllocationStart \in Int
  BY <1>3, TypeFacts
<1>6. /\ copy.ok
      /\ copy.cons \in Value
      /\ copy.cons.cons
      /\ IsNever(copy.cons) <=> IsNever(c)
      /\ PointsInto(copy.cons, CellsOf(space, copy.index))
      /\ CopyInv(copy.heap, copy.index, AllocationStart)
      /\ allocationIndex <= copy.index
      /\ copy.index <= SpaceSize
  BY <1>3, <1>4, <1>5, CopyConsPreserves
<1> HIDE DEF copy
<1>7. Cells' = CellsOf(space, copy.index)
  BY <1>1 DEF Cells
<1>8. allocationIndex' \in Nat
  BY <1>1, <1>6 DEF CopyInv
<1>9. Cells \subseteq Cells'
  BY <1>1, <1>3, <1>6, <1>7, <1>8, TypeFacts, CellsOfMonotone DEF Cells
<1>10. AllocationStart <= AllocationEnd'
  <2>1. AllocationEnd' = AllocationStart + allocationIndex'
    BY <1>1 DEF AllocationEnd, AllocationStart
  <2> QED BY <2>1, <1>3, <1>8, TypeFacts
<1> QED BY <1>1, <1>5, <1>6, <1>7, <1>9, <1>10 DEF copy

(* The roots during a collection.                                          *)
LEMMA RootFacts ==
  ASSUME IInv, phase \in CollectorPhase
  PROVE  /\ \A c \in {code, stack, false, register, local} : c \in Value /\ c.cons
         /\ ~IsNever(false)
         /\ scan \in Nat
         /\ PointsInto(code, IF phase = "code" THEN FromCells ELSE Cells)
         /\ PointsInto(stack, IF phase \in {"code", "stack"} THEN FromCells ELSE Cells)
         /\ PointsInto(false,
              IF phase \in {"code", "stack", "false"} THEN FromCells ELSE Cells)
         /\ PointsInto(register,
              IF phase \in {"local", "scan"} THEN Cells ELSE FromCells)
         /\ PointsInto(local, IF phase = "scan" THEN Cells ELSE FromCells)
<1>1. TypeOK /\ CollectorConsistent
  BY DEF IInv
<1>2. /\ \A c \in {code, stack, false, register, local} : c \in Value /\ c.cons
      /\ scan \in Nat
  BY <1>1 DEF TypeOK
<1> QED BY <1>1, <1>2 DEF CollectorConsistent

(* The roots, one step each: code first, the others point back.            *)
LEMMA CopyCodePreserves ==
  ASSUME Aligned, IInv, CopyCode
  PROVE  IInv'
<1>1. /\ phase = "code" /\ CopyRoot("code", "stack", CopyCons(code))
      /\ code' = CopyCons(code).cons
      /\ stack' = stack /\ false' = false /\ register' = register /\ local' = local
      /\ scan' = scan
  BY DEF CopyCode, CopyRoot
<1>2. {"code", "stack"} \subseteq CollectorPhase /\ "code" # "scan" /\ "stack" # "scan"
  BY DEF CollectorPhase
<1>3. /\ code \in Value /\ code.cons /\ PointsInto(code, FromCells)
  BY <1>1, <1>2, RootFacts
<1>4. Scanned' = AllocationStart
  <2>1. phase' # "scan" /\ space' = space
    BY <1>1 DEF CopyRoot
  <2> QED BY <2>1 DEF Scanned, AllocationStart
<1>5. /\ phase' = "stack"
      /\ space' = space /\ fromIndex' = fromIndex /\ user' = user /\ result' = result
      /\ allocationIndex <= allocationIndex' /\ allocationIndex' <= SpaceSize
      /\ CopyInv(heap', allocationIndex', Scanned')
      /\ AllocationStart <= Scanned' /\ Scanned' <= AllocationEnd' /\ Scanned' \in Int
      /\ code' \in Value /\ code'.cons /\ PointsInto(code', Cells')
      /\ Cells \subseteq Cells'
  BY <1>1, <1>2, <1>3, <1>4, CopyRootFacts
<1>6. /\ PointsInto(stack', FromCells) /\ PointsInto(false', FromCells)
      /\ PointsInto(register', FromCells) /\ PointsInto(local', FromCells)
      /\ ~IsNever(false') /\ scan' \in Nat
      /\ \A c \in {stack', false', register', local'} : c \in Value /\ c.cons
  BY <1>1, <1>2, RootFacts
<1> QED BY <1>2, <1>5, <1>6, CollectorStep

(* Then stack.                                                             *)
LEMMA CopyStackPreserves ==
  ASSUME Aligned, IInv, CopyStack
  PROVE  IInv'
<1>1. /\ phase = "stack" /\ CopyRoot("stack", "false", CopyCons(stack))
      /\ stack' = CopyCons(stack).cons
      /\ code' = code /\ false' = false /\ register' = register /\ local' = local
      /\ scan' = scan
  BY DEF CopyStack, CopyRoot
<1>2. /\ {"stack", "false"} \subseteq CollectorPhase /\ "stack" # "scan"
      /\ "stack" \in CollectorPhase \ {"scan"}
  BY DEF CollectorPhase
<1>3. stack \in Value /\ stack.cons /\ PointsInto(stack, FromCells)
  BY <1>1, <1>2, RootFacts
<1>4. Scanned' = AllocationStart
  <2>1. space' = space
    BY <1>1 DEF CopyRoot
  <2>2. phase' # "scan"
    BY <1>1 DEF CopyRoot
  <2> QED BY <2>1, <2>2 DEF Scanned, AllocationStart
<1>5. /\ phase' = "false"
      /\ space' = space /\ fromIndex' = fromIndex /\ user' = user /\ result' = result
      /\ allocationIndex <= allocationIndex' /\ allocationIndex' <= SpaceSize
      /\ CopyInv(heap', allocationIndex', Scanned')
      /\ AllocationStart <= Scanned' /\ Scanned' <= AllocationEnd' /\ Scanned' \in Int
      /\ stack' \in Value /\ stack'.cons /\ PointsInto(stack', Cells')
      /\ Cells \subseteq Cells'
  BY <1>1, <1>2, <1>3, <1>4, CopyRootFacts
<1>6. /\ PointsInto(false', FromCells) /\ PointsInto(register', FromCells) /\ PointsInto(local', FromCells)
      /\ PointsInto(code, Cells)
      /\ ~IsNever(false')
      /\ \A c \in {code', false', register', local'} : c \in Value /\ c.cons
  BY <1>1, <1>2, RootFacts
<1>7. PointsInto(code', Cells')
  BY <1>1, <1>5, <1>6 DEF PointsInto
<1>8. scan' \in Nat
  BY <1>1, <1>2, RootFacts
<1> QED BY <1>2, <1>5, <1>6, <1>7, <1>8, CollectorStep

(* Then the constant false, which is never NEVER.                          *)
LEMMA CopyFalsePreserves ==
  ASSUME Aligned, IInv, CopyFalse
  PROVE  IInv'
<1>1. /\ phase = "false" /\ CopyRoot("false", "register", CopyCons(false))
      /\ false' = CopyCons(false).cons
      /\ code' = code /\ stack' = stack /\ register' = register /\ local' = local
      /\ scan' = scan
  BY DEF CopyFalse, CopyRoot
<1>2. /\ {"false", "register"} \subseteq CollectorPhase /\ "false" # "scan"
      /\ "false" \in CollectorPhase \ {"scan"}
  BY DEF CollectorPhase
<1>3. false \in Value /\ false.cons /\ PointsInto(false, FromCells)
  BY <1>1, <1>2, RootFacts
<1>4. Scanned' = AllocationStart
  <2>1. space' = space
    BY <1>1 DEF CopyRoot
  <2>2. phase' # "scan"
    BY <1>1 DEF CopyRoot
  <2> QED BY <2>1, <2>2 DEF Scanned, AllocationStart
<1>5. /\ phase' = "register"
      /\ space' = space /\ fromIndex' = fromIndex /\ user' = user /\ result' = result
      /\ allocationIndex <= allocationIndex' /\ allocationIndex' <= SpaceSize
      /\ CopyInv(heap', allocationIndex', Scanned')
      /\ AllocationStart <= Scanned' /\ Scanned' <= AllocationEnd' /\ Scanned' \in Int
      /\ false' \in Value /\ false'.cons /\ PointsInto(false', Cells')
      /\ IsNever(false') <=> IsNever(false)
      /\ Cells \subseteq Cells'
  BY <1>1, <1>2, <1>3, <1>4, CopyRootFacts
<1>6. /\ PointsInto(register', FromCells) /\ PointsInto(local', FromCells)
      /\ PointsInto(code, Cells) /\ PointsInto(stack, Cells)
      /\ ~IsNever(false)
      /\ \A c \in {code', stack', register', local'} : c \in Value /\ c.cons
  BY <1>1, <1>2, RootFacts
<1>7. PointsInto(code', Cells') /\ PointsInto(stack', Cells')
  BY <1>1, <1>5, <1>6 DEF PointsInto
<1>8. scan' \in Nat
  BY <1>1, <1>2, RootFacts
<1> QED BY <1>2, <1>5, <1>6, <1>7, <1>8, CollectorStep

(* Then register.                                                          *)
LEMMA CopyRegisterPreserves ==
  ASSUME Aligned, IInv, CopyRegister
  PROVE  IInv'
<1>1. /\ phase = "register" /\ CopyRoot("register", "local", CopyCons(register))
      /\ register' = CopyCons(register).cons
      /\ code' = code /\ stack' = stack /\ false' = false /\ local' = local
      /\ scan' = scan
  BY DEF CopyRegister, CopyRoot
<1>2. /\ {"register", "local"} \subseteq CollectorPhase /\ "register" # "scan"
      /\ "register" \in CollectorPhase \ {"scan"}
  BY DEF CollectorPhase
<1>3. register \in Value /\ register.cons /\ PointsInto(register, FromCells)
  BY <1>1, <1>2, RootFacts
<1>4. Scanned' = AllocationStart
  <2>1. space' = space
    BY <1>1 DEF CopyRoot
  <2>2. phase' # "scan"
    BY <1>1 DEF CopyRoot
  <2> QED BY <2>1, <2>2 DEF Scanned, AllocationStart
<1>5. /\ phase' = "local"
      /\ space' = space /\ fromIndex' = fromIndex /\ user' = user /\ result' = result
      /\ allocationIndex <= allocationIndex' /\ allocationIndex' <= SpaceSize
      /\ CopyInv(heap', allocationIndex', Scanned')
      /\ AllocationStart <= Scanned' /\ Scanned' <= AllocationEnd' /\ Scanned' \in Int
      /\ register' \in Value /\ register'.cons /\ PointsInto(register', Cells')
      /\ Cells \subseteq Cells'
  BY <1>1, <1>2, <1>3, <1>4, CopyRootFacts
<1>6. /\ PointsInto(local', FromCells)
      /\ PointsInto(code, Cells) /\ PointsInto(stack, Cells) /\ PointsInto(false, Cells)
      /\ ~IsNever(false')
      /\ \A c \in {code', stack', false', local'} : c \in Value /\ c.cons
  BY <1>1, <1>2, RootFacts
<1>7. PointsInto(code', Cells') /\ PointsInto(stack', Cells') /\ PointsInto(false', Cells')
  BY <1>1, <1>5, <1>6 DEF PointsInto
<1>8. scan' \in Nat
  BY <1>1, <1>2, RootFacts
<1> QED BY <1>2, <1>5, <1>6, <1>7, <1>8, CollectorStep

(* Then the cons being allocated, and the scan begins.                     *)
LEMMA CopyLocalPreserves ==
  ASSUME Aligned, IInv, CopyLocal
  PROVE  IInv'
<1>1. /\ phase = "local" /\ CopyRoot("local", "scan", CopyCons(local))
      /\ local' = CopyCons(local).cons
      /\ code' = code /\ stack' = stack /\ false' = false /\ register' = register
      /\ scan' = AllocationStart
  BY DEF CopyLocal, CopyRoot, rootVars
<1>2. /\ {"local", "scan"} \subseteq CollectorPhase /\ "local" # "scan"
      /\ "local" \in CollectorPhase \ {"scan"}
  BY DEF CollectorPhase
<1>3. local \in Value /\ local.cons /\ PointsInto(local, FromCells)
  BY <1>1, <1>2, RootFacts
<1>4. Scanned' = AllocationStart
  <2>1. space' = space
    BY <1>1 DEF CopyRoot
  <2> QED BY <2>1, <1>1 DEF Scanned, AllocationStart
<1>5. /\ phase' = "scan"
      /\ space' = space /\ fromIndex' = fromIndex /\ user' = user /\ result' = result
      /\ allocationIndex <= allocationIndex' /\ allocationIndex' <= SpaceSize
      /\ CopyInv(heap', allocationIndex', Scanned')
      /\ AllocationStart <= Scanned' /\ Scanned' <= AllocationEnd' /\ Scanned' \in Int
      /\ local' \in Value /\ local'.cons /\ PointsInto(local', Cells')
      /\ Cells \subseteq Cells'
  BY <1>1, <1>2, <1>3, <1>4, CopyRootFacts
<1>6. /\ PointsInto(code, Cells) /\ PointsInto(stack, Cells) /\ PointsInto(false, Cells) /\ PointsInto(register, Cells)
      /\ ~IsNever(false')
      /\ \A c \in {code', stack', false', register'} : c \in Value /\ c.cons
  BY <1>1, <1>2, RootFacts
<1>7. PointsInto(code', Cells') /\ PointsInto(stack', Cells') /\ PointsInto(false', Cells') /\ PointsInto(register', Cells')
  BY <1>1, <1>5, <1>6 DEF PointsInto
<1>8. scan' \in Nat
  BY <1>1, TypeFacts DEF IInv
<1> QED BY <1>2, <1>5, <1>6, <1>7, <1>8, CollectorStep

(* One scanned field: its cons is copied behind the allocation index.      *)
LEMMA ScanPreserves ==
  ASSUME Aligned, IInv, Scan
  PROVE  IInv'
<1> DEFINE value == heap[scan]
           copy == CopyCons(value)
<1>1. /\ phase = "scan" /\ phase \in CollectorPhase /\ scan < AllocationEnd
      /\ code' = code /\ stack' = stack /\ false' = false /\ register' = register
      /\ local' = local /\ user' = user /\ result' = result
      /\ space' = space /\ fromIndex' = fromIndex /\ scan' = scan + 1
  BY DEF Scan, CollectorPhase, rootVars
<1>2. TypeOK /\ Bounds
  BY DEF IInv
<1>3. /\ Scanned = scan /\ CopyInv(heap, allocationIndex, scan)
      /\ scan \in Int /\ AllocationStart <= scan /\ scan <= AllocationEnd
  <2>1. Scanned = scan
    BY <1>1 DEF Scanned
  <2> QED BY <2>1, <1>1, CollectorFacts
<1>4. scan' \in Nat /\ scan \in AllocationStart .. AllocationEnd - 1
  BY <1>1, <1>2, <1>3, TypeFacts
<1>5. /\ allocationIndex \in Nat /\ AllocationStart \in Nat /\ AllocationEnd \in Nat
      /\ space \in BOOLEAN /\ AllocationStart = SpaceStart(space)
      /\ AllocationEnd = AllocationStart + allocationIndex
      /\ allocationIndex <= SpaceSize /\ SpaceSize \in Nat
      /\ SpaceStart(space) + SpaceSize <= HeapSize
  BY <1>2, TypeFacts, SpaceSizeFacts, SpaceStartFacts DEF Bounds
<1>6. scan \in 0 .. HeapSize - 1
  BY <1>4, <1>5, MemoryAssumption
<1>7. value \in Value /\ PointsInto(value, FromCells)
  <2>1. value \in Value
    BY <1>3, <1>6 DEF CopyInv, HeapType
  <2>2. scan \in AllocationStart .. AllocationStart + allocationIndex - 1 /\ ~(scan < scan)
    BY <1>4, <1>5
  <2>3. PointsInto(heap[scan], IF scan < scan THEN CellsOf(space, allocationIndex)
                                            ELSE FromCells)
    BY <2>2, <1>3 DEF CopyInv, CopiesPoint
  <2> QED BY <2>1, <2>2, <2>3
<1>8. /\ \A c \in {code', stack', false', register', local'} : c \in Value /\ c.cons
      /\ ~IsNever(false')
      /\ PointsInto(code, Cells) /\ PointsInto(stack, Cells) /\ PointsInto(false, Cells)
      /\ PointsInto(register, Cells) /\ PointsInto(local, Cells)
  BY <1>1, RootFacts
<1>9. CASE ~value.cons
  <2>1. phase' = "scan" /\ heap' = heap /\ allocationIndex' = allocationIndex
    BY <1>9, <1>1 DEF Scan
  <2>2. CopyInv(heap, allocationIndex, scan + 1)
    <3>1. CopiesPoint(heap, allocationIndex, scan + 1)
      <4> SUFFICES ASSUME NEW i \in AllocationStart .. AllocationStart + allocationIndex - 1
                   PROVE  PointsInto(heap[i], IF i < scan + 1 THEN CellsOf(space, allocationIndex)
                                                              ELSE FromCells)
        BY DEF CopiesPoint
      <4>1. CASE i = scan
        BY <4>1, <1>9 DEF PointsInto
      <4>2. CASE i # scan
        <5>1. (i < scan + 1) <=> (i < scan)
          BY <4>2, <1>3, <1>5
        <5> QED BY <5>1, <1>3 DEF CopyInv, CopiesPoint
      <4> QED BY <4>1, <4>2
    <3> QED BY <3>1, <1>3 DEF CopyInv
  <2>3. Scanned' = scan + 1
    BY <2>1, <1>1 DEF Scanned
  <2>4. Cells' = Cells
    BY <2>1, <1>1 DEF Cells
  <2>5. AllocationEnd' = AllocationEnd
    BY <2>1, <1>1 DEF AllocationEnd, AllocationStart
  <2>6. /\ AllocationStart <= Scanned' /\ Scanned' <= AllocationEnd' /\ Scanned' \in Int
        /\ allocationIndex <= allocationIndex' /\ allocationIndex' <= SpaceSize
    BY <2>1, <2>3, <2>5, <1>1, <1>3, <1>5
  <2>7. CopyInv(heap', allocationIndex', Scanned')
    BY <2>1, <2>2, <2>3
  <2> HIDE DEF value, copy
  <2> QED BY <2>1, <2>4, <2>6, <2>7, <1>1, <1>4, <1>8, CollectorStep
<1>10. CASE value.cons
  <2>1. /\ phase' = IF copy.ok THEN phase ELSE "failed"
        /\ heap' = [copy.heap EXCEPT ![scan] = copy.cons]
        /\ allocationIndex' = copy.index
    BY <1>10 DEF Scan
  <2>2. /\ copy.ok
        /\ copy.cons \in Value
        /\ copy.cons.cons
        /\ IsNever(copy.cons) <=> IsNever(value)
        /\ PointsInto(copy.cons, CellsOf(space, copy.index))
        /\ CopyInv(copy.heap, copy.index, scan)
        /\ allocationIndex <= copy.index
        /\ copy.index <= SpaceSize
        /\ copy.heap[scan] = value
    <3> HIDE DEF value
    <3>1. LET c == CopyCons(value)
          IN /\ c.ok
             /\ c.cons \in Value
             /\ c.cons.cons
             /\ IsNever(c.cons) <=> IsNever(value)
             /\ PointsInto(c.cons, CellsOf(space, c.index))
             /\ CopyInv(c.heap, c.index, scan)
             /\ allocationIndex <= c.index
             /\ c.index <= SpaceSize
             /\ \A k \in AllocationStart .. AllocationEnd - 1 : c.heap[k] = heap[k]
      BY <1>2, <1>3, <1>7, <1>10, CopyConsPreserves
    <3> QED BY <3>1, <1>4 DEF value
  <2> DEFINE h == copy.heap
             n == copy.index
             c == copy.cons
  <2> HIDE DEF copy
  <2>3. n \in Nat /\ n % 2 = 0 /\ n <= fromIndex /\ HeapType(h)
        /\ ForwardsInto(h, n) /\ CopiesPoint(h, n, scan) /\ CopiesCounted(h, n)
    BY <2>2 DEF CopyInv
  <2> HIDE DEF h, n, c, value
  <2>4. /\ heap' = [h EXCEPT ![scan] = c] /\ allocationIndex' = n /\ phase' = "scan"
        /\ c \in Value /\ c.cons /\ (IsNever(c) <=> IsNever(h[scan]))
        /\ PointsInto(c, CellsOf(space, n))
        /\ allocationIndex <= n /\ n <= SpaceSize
    BY <2>1, <2>2, <1>1 DEF h, n, c
  <2>5. /\ HeapType(heap') /\ heap'[scan] = c
        /\ \A k \in 0 .. HeapSize - 1 : k # scan => heap'[k] = h[k]
    BY <2>3, <2>4, <1>6 DEF HeapType
  <2>6. \A i \in FromCells : heap'[i] = h[i] /\ heap'[i + 1] = h[i + 1]
    <3> TAKE i \in FromCells
    <3>1. fromIndex \in Nat /\ fromIndex % 2 = 0 /\ fromIndex <= SpaceSize
      BY <1>2 DEF TypeOK, Bounds
    <3>2. i \in CellsOf(~space, fromIndex) /\ (~space) \in BOOLEAN
      BY <1>5 DEF FromCells
    <3>3. /\ i \in 0 .. HeapSize - 1 /\ i + 1 \in 0 .. HeapSize - 1
          /\ i \in SpaceStart(~space) .. SpaceStart(~space) + fromIndex - 1
          /\ i + 1 \in SpaceStart(~space) .. SpaceStart(~space) + fromIndex - 1
      BY <3>1, <3>2, CellsOfFacts
    <3>4. scan \in SpaceStart(space) .. SpaceStart(space) + allocationIndex - 1
      BY <1>4, <1>5
    <3>5. i # scan /\ i + 1 # scan
      BY <3>1, <3>3, <3>4, <1>5, SpacesDisjoint
    <3> QED BY <3>3, <3>5, <2>5
  <2>7. ForwardsInto(heap', n)
    BY <2>3, <2>6 DEF ForwardsInto
  <2>8. CopiesPoint(heap', n, scan + 1)
    <3> SUFFICES ASSUME NEW i \in AllocationStart .. AllocationStart + n - 1
                 PROVE  PointsInto(heap'[i], IF i < scan + 1 THEN CellsOf(space, n)
                                                            ELSE FromCells)
      BY DEF CopiesPoint
    <3>1. CASE i = scan
      <4>1. i < scan + 1
        BY <3>1, <1>3
      <4> QED BY <4>1, <3>1, <2>4, <2>5
    <3>2. CASE i # scan
      <4>1. (i < scan + 1) <=> (i < scan)
        BY <3>2, <1>3, <1>5, <2>3
      <4>2. i \in 0 .. HeapSize - 1
        BY <1>5, <2>3, <2>4, MemoryAssumption
      <4> QED BY <4>1, <4>2, <3>2, <2>3, <2>5 DEF CopiesPoint
    <3> QED BY <3>1, <3>2
  <2>9. CopiesCounted(heap', n)
    <3>1. Forwarded(heap') = Forwarded(h)
      BY <2>6 DEF Forwarded
    <3>2. \A i \in CellsOf(space, n) : ~IsNever(heap'[i])
      <4> TAKE i \in CellsOf(space, n)
      <4>1. i \in 0 .. HeapSize - 1
        BY <1>5, <2>3, <2>4, CellsOfFacts
      <4>2. ~IsNever(h[i])
        BY <2>3 DEF CopiesCounted
      <4> QED BY <4>1, <4>2, <2>4, <2>5
    <3> QED BY <3>1, <3>2, <2>3 DEF CopiesCounted
  <2>10. CopyInv(heap', allocationIndex', scan + 1)
    BY <2>3, <2>4, <2>5, <2>7, <2>8, <2>9 DEF CopyInv
  <2>11. Scanned' = scan + 1
    BY <2>4, <1>1 DEF Scanned
  <2>12. Cells \subseteq Cells'
    BY <2>3, <2>4, <1>1, <1>5, CellsOfMonotone DEF Cells
  <2>13. AllocationEnd' = AllocationStart + n
    BY <2>4, <1>1 DEF AllocationEnd, AllocationStart
  <2>14. /\ AllocationStart <= Scanned' /\ Scanned' <= AllocationEnd' /\ Scanned' \in Int
         /\ allocationIndex <= allocationIndex' /\ allocationIndex' <= SpaceSize
    BY <2>3, <2>4, <2>11, <2>13, <1>1, <1>3, <1>5
  <2>15. /\ PointsInto(code', Cells') /\ PointsInto(stack', Cells')
         /\ PointsInto(false', Cells') /\ PointsInto(register', Cells')
         /\ PointsInto(local', Cells')
    BY <2>12, <1>1, <1>8 DEF PointsInto
  <2>16. phase' \in CollectorPhase
    BY <2>4 DEF CollectorPhase
  <2> QED BY <2>4, <2>10, <2>11, <2>14, <2>15, <2>16, <1>1, <1>4, <1>8, CollectorStep
<1> QED BY <1>9, <1>10

(* When the scan has caught up, every field points to a copy.              *)
LEMMA FinishPreserves ==
  ASSUME Aligned, IInv, Finish
  PROVE  IInv'
<1>1. /\ phase = "scan" /\ phase \in CollectorPhase /\ scan >= AllocationEnd
      /\ phase' = "mutator" /\ user' = "none"
      /\ stack' \in {stack, local}
      /\ code' = code /\ false' = false /\ register' = register
      /\ local' = local /\ result' = result /\ heap' = heap
      /\ space' = space /\ allocationIndex' = allocationIndex
      /\ fromIndex' = fromIndex /\ scan' = scan
  BY DEF Finish, CollectorPhase, spaceVars
<1>2. TypeOK /\ Bounds
  BY DEF IInv
<1>3. /\ CopyInv(heap, allocationIndex, scan)
      /\ scan \in Int /\ scan = AllocationEnd
  <2>1. Scanned = scan
    BY <1>1 DEF Scanned
  <2> QED BY <2>1, <1>1, <1>2, CollectorFacts, TypeFacts
<1>4. Cells' = Cells
  BY <1>1 DEF Cells
<1>5. /\ \A c \in {code, stack, false, register, local} : /\ c \in Value /\ c.cons
                                                         /\ PointsInto(c, Cells)
      /\ ~IsNever(false)
  BY <1>1, RootFacts
<1>6. Sound(heap, Cells)
  <2> SUFFICES ASSUME NEW i \in Cells
               PROVE  /\ ~IsNever(heap[i]) /\ PointsInto(heap[i], Cells)
                      /\ PointsInto(heap[i + 1], Cells)
    BY DEF Sound
  <2>1. \A k \in AllocationStart .. AllocationEnd - 1 : PointsInto(heap[k], Cells)
    <3>1. AllocationEnd = AllocationStart + allocationIndex
      BY DEF AllocationEnd
    <3>2. \A k \in AllocationStart .. AllocationEnd - 1 : k < scan
      BY <1>2, <1>3, TypeFacts
    <3>3. \A k \in AllocationStart .. AllocationStart + allocationIndex - 1 :
            PointsInto(heap[k], IF k < scan THEN Cells ELSE FromCells)
      BY <1>3 DEF CopyInv, CopiesPoint, Cells
    <3>4. \A k \in AllocationStart .. AllocationEnd - 1 :
            PointsInto(heap[k], IF k < scan THEN Cells ELSE FromCells)
      <4> TAKE k \in AllocationStart .. AllocationEnd - 1
      <4>1. k \in AllocationStart .. AllocationStart + allocationIndex - 1
        BY <3>1, <1>2, TypeFacts
      <4> QED BY <3>3, <4>1
    <3> QED BY <3>2, <3>4
  <2>2. i \in AllocationStart .. AllocationEnd - 1 /\ i + 1 \in AllocationStart .. AllocationEnd - 1
    BY <1>2, CellsFacts
  <2>3. ~IsNever(heap[i])
    BY <1>3 DEF CopyInv, CopiesCounted, Cells
  <2> QED BY <2>1, <2>2, <2>3
<1>7. TypeOK'
  BY <1>1, <1>2 DEF TypeOK
<1>8. Bounds'
  BY <1>1, <1>2 DEF Bounds
<1>9. PointersValid'
  BY <1>1, <1>4, <1>5, <1>6 DEF PointersValid, Sound
<1>10. CollectorConsistent'
  BY <1>1 DEF CollectorConsistent, CollectorPhase
<1> QED BY <1>7, <1>8, <1>9, <1>10 DEF IInv

(* Memory::new allocates the two conses of #f.                              *)
LEMMA InitFacts ==
  ASSUME Init
  PROVE  /\ Cells = {0, 2}
         /\ HeapType(heap)
         /\ \A k \in 0 .. HeapSize - 1 :
              heap[k] = IF k \in {2, 3} THEN Cons(0, Pair) ELSE FromNumber(0)
<1>1. /\ space = FALSE /\ allocationIndex = 4
      /\ heap = WriteCons([i \in 0 .. HeapSize - 1 |-> FromNumber(0)],
                          2, Cons(0, Pair), Cons(0, Pair))
  BY DEF Init
<1>2. FromNumber(0) \in Value /\ ~FromNumber(0).cons /\ FromNumber(0).tag = 0
  BY MemoryAssumption DEF FromNumber, Value
<1>3. Cons(0, Pair) \in Value /\ Cons(0, Pair).cons
  BY MemoryAssumption, ConsFacts DEF Pair
<1>4. /\ HeapType(heap)
      /\ \A k \in 0 .. HeapSize - 1 :
           heap[k] = IF k \in {2, 3} THEN Cons(0, Pair) ELSE FromNumber(0)
  <2> DEFINE blank == [i \in 0 .. HeapSize - 1 |-> FromNumber(0)]
  <2>1. HeapType(blank)
    BY <1>2 DEF HeapType
  <2>2. 2 \in 0 .. HeapSize - 1 /\ 2 + 1 \in 0 .. HeapSize - 1 /\ 2 + 1 = 3
    BY MemoryAssumption
  <2>3. \A k \in 0 .. HeapSize - 1 : blank[k] = FromNumber(0)
    OBVIOUS
  <2>4. heap = WriteCons(blank, 2, Cons(0, Pair), Cons(0, Pair))
    BY <1>1
  <2> HIDE DEF blank
  <2> QED BY ONLY <1>3, <2>1, <2>2, <2>3, <2>4, WriteConsFacts
<1>5. Cells = {0, 2}
  <2>1. SpaceStart(FALSE) = 0
    BY DEF SpaceStart
  <2>2. \A i : i \in 0 .. 3 /\ i % 2 = 0 <=> i \in {0, 2}
    <3>1. 0 % 2 = 0 /\ 1 % 2 # 0 /\ 2 % 2 = 0 /\ 3 % 2 # 0
      BY SMT
    <3>2. \A i : i \in 0 .. 3 <=> i \in {0, 1, 2, 3}
      OBVIOUS
    <3> QED BY <3>1, <3>2
  <2>3. CellsOf(FALSE, 4) = {i \in 0 .. 3 : i % 2 = 0}
    <3>1. \A i \in 0 .. 3 : i - 0 = i
      OBVIOUS
    <3>2. 0 .. 0 + 4 - 1 = 0 .. 3
      OBVIOUS
    <3>3. CellsOf(FALSE, 4) = {i \in 0 .. 0 + 4 - 1 : (i - 0) % 2 = 0}
      BY <2>1 DEF CellsOf
    <3> QED BY <3>1, <3>2, <3>3
  <2> QED BY <2>2, <2>3, <1>1 DEF Cells
<1> QED BY <1>4, <1>5

-----------------------------------------------------------------------------
(* What Memory::new builds satisfies the invariant,                        *)
LEMMA InitIInv ==
  ASSUME Aligned, Init
  PROVE  IInv
<1>1. /\ code = NEVER /\ stack = NEVER /\ register = NEVER /\ local = NEVER
      /\ false = Cons(2, Pair) /\ space = FALSE /\ allocationIndex = 4
      /\ result = "ok" /\ user = "none" /\ phase = "mutator" /\ scan = 0 /\ fromIndex = 0
      /\ heap = WriteCons([i \in 0 .. HeapSize - 1 |-> FromNumber(0)],
                          2, Cons(0, Pair), Cons(0, Pair))
  BY DEF Init
<1>2. SpaceSize \in Nat /\ SpaceSize >= 4
  BY SpaceSizeFacts DEF Aligned
<1>3. FromNumber(0) \in Value /\ ~FromNumber(0).cons /\ FromNumber(0).tag = 0
  BY MemoryAssumption DEF FromNumber, Value
<1>4. Pair \in Tag
  BY MemoryAssumption DEF Pair
<1>5. /\ Cons(0, Pair) \in Value /\ Cons(0, Pair).cons /\ Cons(0, Pair).payload = 0
      /\ Cons(2, Pair) \in Value /\ Cons(2, Pair).cons /\ Cons(2, Pair).payload = 2
  BY <1>4, ConsFacts
<1>6. /\ HeapType(heap)
      /\ \A k \in 0 .. HeapSize - 1 :
           heap[k] = IF k \in {2, 3} THEN Cons(0, Pair) ELSE FromNumber(0)
  BY InitFacts
<1>7. Cells = {0, 2}
  BY InitFacts
<1>8. TypeOK
  BY <1>1, <1>5, <1>6, NeverFacts DEF TypeOK, HeapType
<1>9. Bounds
  BY <1>1, <1>2 DEF Bounds
<1>10. PointersValid
  <2>1. \A c \in {code, stack, false, register, local} : PointsInto(c, {0, 2})
    BY <1>1, <1>5, NeverFacts DEF PointsInto
  <2>2. ~IsNever(false)
    BY <1>1, <1>5 DEF IsNever
  <2>3. 0 \in 0 .. HeapSize - 1 /\ 1 \in 0 .. HeapSize - 1
        /\ 2 \in 0 .. HeapSize - 1 /\ 3 \in 0 .. HeapSize - 1
    BY MemoryAssumption
  <2>4. /\ heap[0] = FromNumber(0) /\ heap[1] = FromNumber(0)
        /\ heap[2] = Cons(0, Pair) /\ heap[3] = Cons(0, Pair)
    BY <2>3, <1>6
  <2>5. \A i \in {0, 2} : /\ ~IsNever(heap[i])
                          /\ PointsInto(heap[i], {0, 2})
                          /\ PointsInto(heap[i + 1], {0, 2})
    BY <2>4, <1>3, <1>5 DEF PointsInto, IsNever
  <2> QED BY <2>1, <2>2, <2>5, <1>7 DEF PointersValid
<1>11. CollectorConsistent
  BY <1>1 DEF CollectorConsistent, CollectorPhase
<1> QED BY <1>8, <1>9, <1>10, <1>11 DEF IInv

(* every step keeps it,                                                    *)
LEMMA NextIInv ==
  ASSUME Aligned, IInv, [Next]_vars
  PROVE  IInv'
<1>1. CASE Allocation
  BY <1>1, AllocationPreserves
<1>2. CASE Mutation
  BY <1>2, MutationPreserves
<1>3. CASE CopyCode
  BY <1>3, CopyCodePreserves
<1>4. CASE CopyStack
  BY <1>4, CopyStackPreserves
<1>5. CASE CopyFalse
  BY <1>5, CopyFalsePreserves
<1>6. CASE CopyRegister
  BY <1>6, CopyRegisterPreserves
<1>7. CASE CopyLocal
  BY <1>7, CopyLocalPreserves
<1>8. CASE Scan
  BY <1>8, ScanPreserves
<1>9. CASE Finish
  BY <1>9, FinishPreserves
<1>10. CASE UNCHANGED vars
  <2>1. /\ code' = code /\ stack' = stack /\ false' = false /\ register' = register
        /\ local' = local /\ heap' = heap /\ allocationIndex' = allocationIndex
        /\ space' = space /\ user' = user /\ phase' = phase /\ scan' = scan
        /\ fromIndex' = fromIndex /\ result' = result
    BY <1>10 DEF vars, rootVars, spaceVars, collectorVars
  <2>2. /\ Cells' = Cells /\ FromCells' = FromCells /\ Scanned' = Scanned
        /\ AllocationStart' = AllocationStart /\ AllocationEnd' = AllocationEnd
    BY <2>1 DEF Cells, FromCells, Scanned, AllocationStart, AllocationEnd
  <2>3. TypeOK' /\ Bounds'
    BY <2>1 DEF IInv, TypeOK, Bounds
  <2>4. PointersValid'
    BY <2>1, <2>2 DEF IInv, PointersValid
  <2>5. /\ ForwardsInto(heap, allocationIndex)' <=> ForwardsInto(heap, allocationIndex)
        /\ CopiesPoint(heap, allocationIndex, Scanned)'
             <=> CopiesPoint(heap, allocationIndex, Scanned)
        /\ CopiesCounted(heap, allocationIndex)' <=> CopiesCounted(heap, allocationIndex)
    BY <2>1, <2>2 DEF ForwardsInto, CopiesPoint, CopiesCounted, Forwarded
  <2>6. CollectorConsistent'
    BY <2>1, <2>2, <2>5 DEF IInv, CollectorConsistent
  <2> QED BY <2>3, <2>4, <2>6 DEF IInv
<1> QED BY <1>1, <1>2, <1>3, <1>4, <1>5, <1>6, <1>7, <1>8, <1>9, <1>10
        DEF Next, Collector

(* so it always holds.                                                     *)
LEMMA Invariance ==
  ASSUME Aligned
  PROVE  Spec => []IInv
<1>1. Init => IInv
  BY InitIInv
<1>2. IInv /\ [Next]_vars => IInv'
  BY NextIInv
<1> QED BY <1>1, <1>2, PTL DEF Spec

(* Every variable keeps its type.                                          *)
THEOREM TypeCorrect ==
  ASSUME Aligned
  PROVE  Spec => []TypeOK
BY Invariance, PTL DEF IInv

(* No call leaves a pointer into the space that was collected, or a cons   *)
(* the next collection would take for a forwarded one: the assertions      *)
(* assert_heap_cons and assert_heap_value hold of every access.            *)
THEOREM PointersAlwaysValid ==
  ASSUME Aligned
  PROVE  Spec => []PointersValid
BY Invariance, PTL DEF IInv

(* The current space never runs over its end, and a collection never runs  *)
(* out of the memory it collects into.                                     *)
THEOREM SpaceAlwaysSuffices ==
  ASSUME Aligned
  PROVE  Spec => []SpaceSuffices
<1>1. IInv => SpaceSuffices
  BY DEF IInv, Bounds, SpaceSuffices
<1> QED BY <1>1, Invariance, PTL

(* At every step of a collection the heap is split between what has been   *)
(* moved and what has not, as CollectorConsistent says.                    *)
THEOREM CollectorAlwaysConsistent ==
  ASSUME Aligned
  PROVE  Spec => []CollectorConsistent
BY Invariance, PTL DEF IInv

-----------------------------------------------------------------------------
(* Two conses are two objects.                                             *)
Named ==
  /\ object \in [0 .. HeapSize - 1 -> 0 .. Capacity]
  /\ \A i \in GraphCells : object[i] # 0
  /\ \A i, j \in GraphCells : object[i] = object[j] => i = j

(* The copies are those of the forwarded conses.                           *)
CopiesNamed ==
  Collecting =>
    /\ \A i \in FromCells : IsNever(heap[i]) => object[heap[i + 1].payload] = object[i]
    /\ \A i \in Cells : \E j \in FromCells : IsNever(heap[j]) /\ heap[j + 1].payload = i

(* The stack is a root of its own while the cons that is pushed on it      *)
(* already stands for it in the graph.                                     *)
OnlyReachable ==
  Collecting =>
    /\ \A i \in Cells : object[i] \in ObjectMemory!Reachable
    /\ phase \in {"code", "stack"} /\ ~IsNever(stack)
         => object[stack.payload] \in ObjectMemory!Reachable

HInv ==
  /\ Named
  /\ CopiesNamed
  /\ OnlyReachable
  /\ ~Collecting => user = "none"

-----------------------------------------------------------------------------
(* What the mapping shows of a state. *)

(* An object's fields are those of the cons that it is.                    *)
FieldsOfConses ==
  /\ DOMAIN Fields = {object[i] : i \in GraphCells}
  /\ Fields = [o \in DOMAIN Fields |-> Fields[o]]
  /\ \A i \in GraphCells :
       Fields[object[i]] = [car |-> Graph(heap[Home(i)]), cdr |-> Graph(heap[Home(i) + 1])]

LEMMA FieldsFacts == Named => FieldsOfConses
<1> SUFFICES ASSUME Named
             PROVE  FieldsOfConses
  OBVIOUS
<1>1. \A i \in GraphCells : CellOf(object[i]) = i
  BY DEF Named, CellOf
<1>2. Fields = [o \in {object[i] : i \in GraphCells} |->
                  [car |-> Graph(heap[Home(CellOf(o))]),
                   cdr |-> Graph(heap[Home(CellOf(o)) + 1])]]
  BY DEF Fields
<1> QED BY <1>1, <1>2 DEF FieldsOfConses

(* A step that leaves the conses of the graph their names and their fields *)
(* leaves the graph its fields.                                            *)
LEMMA FieldsUnchanged ==
  ASSUME Named, Named', GraphCells' = GraphCells,
         \A i \in GraphCells : object'[i] = object[i],
         \A i \in GraphCells : /\ Graph(heap[Home(i)])' = Graph(heap[Home(i)])
                               /\ Graph(heap[Home(i) + 1])' = Graph(heap[Home(i) + 1])
  PROVE  Fields' = Fields
<1>1. FieldsOfConses'
  BY FieldsFacts, PTL
<1>2. /\ DOMAIN Fields' = {object'[i] : i \in GraphCells'}
      /\ Fields' = [o \in DOMAIN Fields' |-> Fields'[o]]
      /\ \A i \in GraphCells' :
           Fields'[object'[i]] = [car |-> Graph(heap[Home(i)])',
                                  cdr |-> Graph(heap[Home(i) + 1])']
  BY <1>1 DEF FieldsOfConses
<1>3. FieldsOfConses
  BY FieldsFacts
<1>4. DOMAIN Fields' = DOMAIN Fields
  BY <1>2, <1>3 DEF FieldsOfConses
<1>5. \A o \in DOMAIN Fields : Fields'[o] = Fields[o]
  <2> TAKE o \in DOMAIN Fields
  <2>1. PICK i \in GraphCells : o = object[i]
    BY <1>3 DEF FieldsOfConses
  <2>2. Fields[o] = [car |-> Graph(heap[Home(i)]), cdr |-> Graph(heap[Home(i) + 1])]
    BY <2>1, <1>3 DEF FieldsOfConses
  <2>3. Fields'[o] = [car |-> Graph(heap[Home(i)])', cdr |-> Graph(heap[Home(i) + 1])']
    BY <2>1, <1>2
  <2> QED BY <2>2, <2>3
<1> QED BY <1>2, <1>3, <1>4, <1>5 DEF FieldsOfConses

(* The rules of reachability: the roots, then field by field,              *)
Reaches(v) ==
  ObjectMemory!IsPointer(v) /\ v.object # 0 /\ v.object \in DOMAIN Fields
    => v.object \in ObjectMemory!Reachable

RootsAndFieldsReach ==
  /\ \A v \in {Graph(code), Graph(IF user = "push" THEN local ELSE stack),
               Graph(false), Graph(register), Graph(local)} : Reaches(v)
  /\ \A o \in ObjectMemory!Reachable : Reaches(Fields[o].car) /\ Reaches(Fields[o].cdr)

LEMMA ReachableRules == RootsAndFieldsReach
<1>1. ASSUME NEW v \in {Graph(code), Graph(IF user = "push" THEN local ELSE stack),
                        Graph(false), Graph(register), Graph(local)},
             ObjectMemory!IsPointer(v), v.object # 0, v.object \in DOMAIN Fields
      PROVE  v.object \in ObjectMemory!Reachable
  <2>1. v.object \in ObjectMemory!Pointers({Graph(code),
                       Graph(IF user = "push" THEN local ELSE stack),
                       Graph(false), Graph(register), Graph(local)})
    BY <1>1 DEF ObjectMemory!Pointers
  <2> QED BY <1>1, <2>1 DEF ObjectMemory!Reachable, ObjectMemory!Closed
<1>2. ASSUME NEW o \in ObjectMemory!Reachable, NEW v \in {Fields[o].car, Fields[o].cdr},
             ObjectMemory!IsPointer(v), v.object # 0, v.object \in DOMAIN Fields
      PROVE  v.object \in ObjectMemory!Reachable
  <2>1. v.object \in ObjectMemory!Pointers({Fields[o].car, Fields[o].cdr})
    BY <1>2 DEF ObjectMemory!Pointers
  <2> QED BY <1>2, <2>1 DEF ObjectMemory!Reachable, ObjectMemory!Closed
<1> QED BY <1>1, <1>2 DEF RootsAndFieldsReach, Reaches

(* and nothing else.                                                       *)
LEMMA ReachableLeast ==
  ASSUME NEW S \in SUBSET DOMAIN Fields, ObjectMemory!Closed(S)
  PROVE  ObjectMemory!Reachable \subseteq S
BY DEF ObjectMemory!Reachable

(* What is reachable depends on nothing but the graph.                     *)
LEMMA ReachableUnchanged ==
  ASSUME UNCHANGED ObjectMemory!vars
  PROVE  ObjectMemory!Reachable' = ObjectMemory!Reachable
BY DEF ObjectMemory!vars, ObjectMemory!roots, ObjectMemory!Reachable, ObjectMemory!Closed

-----------------------------------------------------------------------------
(* The graph. *)

(* Collect leaves what is reachable, and all of that is still reachable.   *)
LEMMA CollectLeavesReachable ==
  ASSUME ObjectMemory!Collect
  PROVE  DOMAIN Fields' = ObjectMemory!Reachable'
<1> DEFINE R == ObjectMemory!Reachable
<1>1. /\ Fields' = [o \in R |-> Fields[o]]
      /\ UNCHANGED ObjectMemory!roots
  BY DEF ObjectMemory!Collect, ObjectMemory!Restrict
<1>2. R \subseteq DOMAIN Fields
  BY DEF ObjectMemory!Reachable
<1>3. ASSUME NEW S \in SUBSET DOMAIN Fields', ObjectMemory!Closed(S)'
      PROVE  R \subseteq S
  <2>1. S \in SUBSET DOMAIN Fields /\ \A o \in S : Fields'[o] = Fields[o]
    BY <1>1, <1>2
  <2>2. ObjectMemory!Closed(S)
    BY <1>1, <1>3, <2>1 DEF ObjectMemory!Closed, ObjectMemory!roots
  <2> QED BY <2>1, <2>2, ReachableLeast
<1>4. ObjectMemory!Reachable' =
        {o \in DOMAIN Fields' :
           \A S \in SUBSET DOMAIN Fields' : ObjectMemory!Closed(S)' => o \in S}
  BY DEF ObjectMemory!Reachable
<1> QED BY <1>1, <1>3, <1>4

(* Nothing but a collection makes the memory full with no collection due.  *)
LEMMA OnlyCollectExhausts ==
  ASSUME [ObjectMemory!Next]_(ObjectMemory!vars),
         ObjectMemory!Exhausted', ~ObjectMemory!Exhausted
  PROVE  ObjectMemory!Collect
<1>1. ASSUME DOMAIN Fields' = DOMAIN Fields,
             Collecting' = Collecting \/ Collecting' = TRUE
      PROVE  FALSE
  BY <1>1 DEF ObjectMemory!Exhausted, ObjectMemory!Full
<1>2. ASSUME NEW o, NEW car, NEW cdr, ObjectMemory!New(o, car, cdr)
      PROVE  FALSE
  BY <1>2 DEF ObjectMemory!New, ObjectMemory!Exhausted
<1>3. CASE UNCHANGED ObjectMemory!vars
  BY <1>1, <1>3 DEF ObjectMemory!vars
<1>4. CASE ObjectMemory!Program
  <2>1. ASSUME NEW value, ObjectMemory!Push(value)
        PROVE  FALSE
    BY <2>1, <1>2 DEF ObjectMemory!Push
  <2>2. ASSUME NEW car, NEW cdr, ObjectMemory!Allocate(car, cdr)
        PROVE  FALSE
    BY <2>2, <1>2 DEF ObjectMemory!Allocate
  <2>3. CASE ObjectMemory!AllocateFails
    BY <2>3, <1>1 DEF ObjectMemory!AllocateFails
  <2>4. CASE ObjectMemory!CollectGarbages
    BY <2>4, <1>1 DEF ObjectMemory!CollectGarbages
  <2>5. ASSUME ObjectMemory!SetRoots
        PROVE  FALSE
    BY <2>5, <1>1 DEF ObjectMemory!SetRoots
  <2>6. ASSUME NEW o, NEW pair, ObjectMemory!SetFields(o, pair)
        PROVE  FALSE
    BY <2>6, <1>1 DEF ObjectMemory!SetFields
  <2> QED BY <1>4, <2>1, <2>2, <2>3, <2>4, <2>5, <2>6
          DEF ObjectMemory!Program, ObjectMemory!Pop, ObjectMemory!SetCode,
              ObjectMemory!SetStack, ObjectMemory!SetRegister, ObjectMemory!SetFalse,
              ObjectMemory!SetCar, ObjectMemory!SetCdr, ObjectMemory!SetRawCdr
<1> QED BY <1>3, <1>4 DEF ObjectMemory!Next

(* As long as the memory is full, it has the same conses. *)
LEMMA FullKeepsConses ==
  ASSUME [ObjectMemory!Next]_(ObjectMemory!vars),
         ObjectMemory!Exhausted', ObjectMemory!Exhausted
  PROVE  DOMAIN Fields' = DOMAIN Fields
<1>1. ASSUME NEW o, NEW car, NEW cdr, ObjectMemory!New(o, car, cdr)
      PROVE  FALSE
  BY <1>1 DEF ObjectMemory!New, ObjectMemory!Exhausted
<1>2. CASE UNCHANGED ObjectMemory!vars
  BY <1>2 DEF ObjectMemory!vars
<1>3. CASE ObjectMemory!Collect
  BY <1>3 DEF ObjectMemory!Collect, ObjectMemory!Exhausted
<1>4. CASE ObjectMemory!Program
  <2>1. CASE ObjectMemory!AllocateFails
    BY <2>1 DEF ObjectMemory!AllocateFails
  <2>2. CASE ObjectMemory!CollectGarbages
    BY <2>2 DEF ObjectMemory!CollectGarbages, ObjectMemory!Exhausted
  <2>3. ASSUME ObjectMemory!SetRoots
        PROVE  DOMAIN Fields' = DOMAIN Fields
    BY <2>3 DEF ObjectMemory!SetRoots
  <2>4. ASSUME NEW o, NEW pair, ObjectMemory!SetFields(o, pair)
        PROVE  DOMAIN Fields' = DOMAIN Fields
    BY <2>4 DEF ObjectMemory!SetFields
  <2> QED BY <1>1, <1>4, <2>1, <2>2, <2>3, <2>4
          DEF ObjectMemory!Program, ObjectMemory!Push, ObjectMemory!Allocate,
              ObjectMemory!Pop, ObjectMemory!SetCode,
              ObjectMemory!SetStack, ObjectMemory!SetRegister, ObjectMemory!SetFalse,
              ObjectMemory!SetCar, ObjectMemory!SetCdr, ObjectMemory!SetRawCdr
<1> QED BY <1>2, <1>3, <1>4 DEF ObjectMemory!Next

(* The two conses of a new memory are live. *)
LEMMA AllLiveAtFirst ==
  ASSUME ObjectMemory!Init
  PROVE  ObjectMemory!AllLive
<1>1. /\ DOMAIN Fields = {1, 2}
      /\ Graph(false) = ObjectMemory!Pointer(2, 0)
      /\ Fields[2].car = ObjectMemory!Pointer(1, 0)
  BY DEF ObjectMemory!Init
<1>2. ASSUME NEW S \in SUBSET DOMAIN Fields, ObjectMemory!Closed(S)
      PROVE  1 \in S /\ 2 \in S
  <2>1. \A T, o : ObjectMemory!Pointer(o, 0) \in T /\ o # 0 => o \in ObjectMemory!Pointers(T)
    BY DEF ObjectMemory!Pointers, ObjectMemory!Pointer, ObjectMemory!IsPointer
  <2>2. 2 \in S
    BY <1>1, <1>2, <2>1 DEF ObjectMemory!Closed
  <2>3. 1 \in S
    <3>1. ObjectMemory!Pointer(1, 0) \in {Fields[2].car, Fields[2].cdr}
      BY <1>1
    <3>2. 1 \in ObjectMemory!Pointers({Fields[2].car, Fields[2].cdr})
      BY <2>1, <3>1
    <3> QED BY <1>2, <2>2, <3>2 DEF ObjectMemory!Closed
  <2> QED BY <2>2, <2>3
<1> QED BY <1>1, <1>2 DEF ObjectMemory!AllLive, ObjectMemory!Reachable

-----------------------------------------------------------------------------
(* Values. *)

(* A number is one in the graph too, a cons a pointer with its tag.        *)
LEMMA GraphFacts ==
  ASSUME NEW v \in Value
  PROVE  /\ ObjectMemory!IsPointer(Graph(v)) <=> v.cons
         /\ v.cons => ObjectMemory!TagOf(Graph(v)) = v.tag
         /\ ~v.cons => ObjectMemory!TagOf(Graph(v)) = 0
         /\ v.cons /\ IsNever(v) => Graph(v).object = 0
         /\ v.cons /\ ~IsNever(v) => Graph(v).object = object[v.payload]
         /\ \A t \in Tag : Graph(SetTag(v, t)) = ObjectMemory!SetTag(Graph(v), t)
<1>1. CASE ~v.cons
  BY <1>1 DEF Graph, ObjectMemory!IsPointer, ObjectMemory!TagOf, ObjectMemory!SetTag, SetTag
<1>2. CASE v.cons
  <2>1. \A t \in Tag : /\ SetTag(v, t).cons /\ SetTag(v, t).payload = v.payload
                       /\ SetTag(v, t).tag = t
    BY <1>2 DEF SetTag, Value
  <2>2. \A t \in Tag : IsNever(SetTag(v, t)) <=> IsNever(v)
    BY <1>2, <2>1 DEF IsNever
  <2>3. \A o, s, t : [[object |-> o, tag |-> s] EXCEPT !.tag = t] = [object |-> o, tag |-> t]
    OBVIOUS
  <2>4. Graph(v) = [object |-> IF IsNever(v) THEN 0 ELSE object[v.payload], tag |-> v.tag]
    BY <1>2 DEF Graph
  <2>5. \A t \in Tag :
          Graph(SetTag(v, t)) =
            [object |-> IF IsNever(v) THEN 0 ELSE object[v.payload], tag |-> t]
    BY <2>1, <2>2 DEF Graph
  <2> QED BY <1>2, <2>3, <2>4, <2>5
          DEF ObjectMemory!IsPointer, ObjectMemory!TagOf, ObjectMemory!SetTag
<1> QED BY <1>1, <1>2 DEF Value

(* Between two calls the graph is made of the conses in use.               *)
LEMMA MutatorGraph ==
  ASSUME IInv, HInv, phase = "mutator"
  PROVE  /\ ~Collecting /\ GraphCells = Cells /\ user = "none"
         /\ \A i : Home(i) = i
         /\ DOMAIN Fields = {object[i] : i \in Cells}
         /\ \A i \in Cells :
              Fields[object[i]] = [car |-> Graph(heap[i]), cdr |-> Graph(heap[i + 1])]
<1>1. FieldsOfConses
  BY FieldsFacts DEF HInv
<1> QED BY <1>1 DEF HInv, FieldsOfConses, Collecting, GraphCells, Home

(* What a program passes to the memory it may pass to the graph.           *)
LEMMA GraphArguments ==
  ASSUME Aligned, IInv, HInv, phase = "mutator"
  PROVE  /\ \A v \in Held : Graph(v) \in ObjectMemory!Held
         /\ \A v \in Root : Graph(v) \in ObjectMemory!Root
         /\ \A v \in Car : Graph(v) \in ObjectMemory!Car
         /\ \A v \in Cdr : Graph(v) \in ObjectMemory!Cdr
<1>1. \A v \in Held : Graph(v) \in ObjectMemory!Held
  <2> SUFFICES ASSUME NEW i \in Cells, NEW t \in Tag
               PROVE  Graph(Cons(i, t)) \in ObjectMemory!Held
    BY DEF Held
  <2>1. i # 1
    BY CellsOfEven DEF IInv, TypeOK, Cells
  <2>2. Graph(Cons(i, t)) = [object |-> object[i], tag |-> t]
    BY <2>1 DEF Graph, Cons, IsNever
  <2>3. object[i] \in DOMAIN Fields
    BY MutatorGraph
  <2> QED BY <2>2, <2>3 DEF ObjectMemory!Held, ObjectMemory!Pointer
<1>2. Graph(NEVER) = ObjectMemory!NEVER
  BY DEF Graph, NEVER, Cons, IsNever, Pair, ObjectMemory!NEVER, ObjectMemory!Pointer
<1>3. \A n \in Number : Graph(FromNumber(n)) = ObjectMemory!FromNumber(n)
  BY DEF Graph, FromNumber, ObjectMemory!FromNumber
<1>4. \A v \in Car : Graph(v) \in ObjectMemory!Car
  BY <1>1, <1>3 DEF Car, ObjectMemory!Car
<1> QED BY <1>1, <1>2, <1>4 DEF Root, ObjectMemory!Root, Cdr, ObjectMemory!Cdr

-----------------------------------------------------------------------------
(* The calls that allocate nothing. *)

(* Between two calls HInv says no more than that a cons is an object.      *)
LEMMA MutatorHInv ==
  ASSUME phase' = "mutator", user' = "none", Named'
  PROVE  HInv'
BY DEF HInv, CopiesNamed, OnlyReachable, Collecting

(* The accessors of the roots leave the conses alone.                      *)
LEMMA SetRootsRefines ==
  ASSUME IInv, HInv, SetRoots, UNCHANGED object
  PROVE  /\ HInv'
         /\ ~Collecting /\ ~Collecting' /\ user = "none" /\ user' = "none"
         /\ Fields' = Fields /\ Graph(local)' = Graph(local) /\ result' = result
         /\ \A v : Graph(v)' = Graph(v)
<1>1. /\ phase = "mutator" /\ phase' = "mutator" /\ user' = user
      /\ space' = space /\ allocationIndex' = allocationIndex /\ fromIndex' = fromIndex
      /\ heap' = heap /\ result' = result /\ local' = local /\ object' = object
  BY DEF SetRoots, spaceVars, collectorVars
<1>2. ~Collecting /\ ~Collecting' /\ GraphCells' = GraphCells
  BY <1>1 DEF Collecting, GraphCells, Cells, AllocationStart
<1>3. user = "none"
  BY <1>2 DEF HInv
<1>4. Named'
  BY <1>1, <1>2 DEF HInv, Named
<1>5. \A v : Graph(v)' = Graph(v)
  BY <1>1 DEF Graph
<1>6. \A i : Home(i) = i /\ Home(i)' = i
  BY <1>2 DEF Home
<1>7. Fields' = Fields
  <2>1. \A i \in GraphCells : /\ Graph(heap[Home(i)])' = Graph(heap[Home(i)])
                              /\ Graph(heap[Home(i) + 1])' = Graph(heap[Home(i) + 1])
    BY <1>1, <1>6 DEF Graph
  <2> QED BY <2>1, <1>1, <1>2, <1>4, FieldsUnchanged DEF HInv
<1>8. Graph(local)' = Graph(local)
  BY <1>1 DEF Graph
<1> QED BY <1>1, <1>2, <1>3, <1>4, <1>5, <1>7, <1>8, MutatorHInv

(* They are those of the graph.                                            *)
LEMMA SetRootRefines ==
  ASSUME IInv, HInv, UNCHANGED object, NEW c
  PROVE  /\ SetCode(c) => HInv' /\ ObjectMemory!SetCode(Graph(c))
         /\ SetStack(c) => HInv' /\ ObjectMemory!SetStack(Graph(c))
         /\ SetRegister(c) => HInv' /\ ObjectMemory!SetRegister(Graph(c))
         /\ SetFalse(c) => HInv' /\ ObjectMemory!SetFalse(Graph(c))
<1> DEFINE top == Graph(IF user = "push" THEN local ELSE stack)
<1>1. ASSUME SetRoots
      PROVE  /\ HInv' /\ ObjectMemory!SetRoots
             /\ \A v : Graph(v)' = Graph(v)
             /\ top = Graph(stack) /\ top' = Graph(stack)'
  BY <1>1, SetRootsRefines DEF ObjectMemory!SetRoots, Collecting
<1>2. ASSUME SetCode(c)
      PROVE  HInv' /\ ObjectMemory!SetCode(Graph(c))
  <2>1. SetRoots /\ code' = c /\ stack' = stack /\ false' = false /\ register' = register
    BY <1>2 DEF SetCode
  <2>2. /\ Graph(code)' = Graph(c)
        /\ Graph(stack)' = Graph(stack) /\ Graph(false)' = Graph(false) /\ Graph(register)' = Graph(register)
    BY <2>1, <1>1 DEF Graph
  <2> QED BY <2>1, <2>2, <1>1 DEF ObjectMemory!SetCode
<1>3. ASSUME SetStack(c)
      PROVE  HInv' /\ ObjectMemory!SetStack(Graph(c))
  <2>1. SetRoots /\ stack' = c /\ code' = code /\ false' = false /\ register' = register
    BY <1>3 DEF SetStack
  <2>2. /\ Graph(stack)' = Graph(c)
        /\ Graph(code)' = Graph(code) /\ Graph(false)' = Graph(false) /\ Graph(register)' = Graph(register)
    BY <2>1, <1>1 DEF Graph
  <2> QED BY <2>1, <2>2, <1>1 DEF ObjectMemory!SetStack
<1>4. ASSUME SetRegister(c)
      PROVE  HInv' /\ ObjectMemory!SetRegister(Graph(c))
  <2>1. SetRoots /\ register' = c /\ code' = code /\ stack' = stack /\ false' = false
    BY <1>4 DEF SetRegister
  <2>2. /\ Graph(register)' = Graph(c)
        /\ Graph(code)' = Graph(code) /\ Graph(stack)' = Graph(stack) /\ Graph(false)' = Graph(false)
    BY <2>1, <1>1 DEF Graph
  <2> QED BY <2>1, <2>2, <1>1 DEF ObjectMemory!SetRegister
<1>5. ASSUME SetFalse(c)
      PROVE  HInv' /\ ObjectMemory!SetFalse(Graph(c))
  <2>1. SetRoots /\ false' = c /\ code' = code /\ stack' = stack /\ register' = register
    BY <1>5 DEF SetFalse
  <2>2. /\ Graph(false)' = Graph(c)
        /\ Graph(code)' = Graph(code) /\ Graph(stack)' = Graph(stack) /\ Graph(register)' = Graph(register)
    BY <2>1, <1>1 DEF Graph
  <2> QED BY <2>1, <2>2, <1>1 DEF ObjectMemory!SetFalse
<1> QED BY <1>2, <1>3, <1>4, <1>5

(* A pop follows the cdr of the top.                                       *)
LEMMA PopRefines ==
  ASSUME Aligned, IInv, HInv, Pop, UNCHANGED object
  PROVE  HInv' /\ ObjectMemory!Pop
<1> DEFINE next == heap[stack.payload + 1]
<1>1. /\ ~IsNever(stack) /\ next.cons /\ SetStack(next) /\ phase = "mutator"
  BY DEF Pop, SetStack, SetRoots
<1>2. /\ stack \in Value /\ stack.cons /\ stack.payload \in Cells
  BY <1>1, MutatorFacts DEF PointsInto
<1>3. /\ next \in Value
  BY <1>2, CellsFacts DEF IInv, TypeOK
<1>4. /\ Graph(stack).object = object[stack.payload] /\ object[stack.payload] # 0
  BY <1>1, <1>2, GraphFacts, MutatorGraph DEF HInv, Named
<1>5. Fields[object[stack.payload]].cdr = Graph(next)
  <2>1. Fields[object[stack.payload]] = [car |-> Graph(heap[stack.payload]), cdr |-> Graph(next)]
    BY <1>1, <1>2, MutatorGraph
  <2> QED BY <2>1
<1>6. Graph(IF user = "push" THEN local ELSE stack) = Graph(stack)
  BY <1>1, MutatorGraph
<1>7. ObjectMemory!IsPointer(Graph(next))
  BY <1>1, <1>3, GraphFacts
<1>8. HInv' /\ ObjectMemory!SetStack(Graph(next))
  BY <1>1, SetRootRefines
<1> QED BY <1>4, <1>5, <1>6, <1>7, <1>8 DEF ObjectMemory!Pop

(* A write of a field is one of the object that the cons is.               *)
LEMMA SetFieldRefines ==
  ASSUME Aligned, IInv, HInv, NEW i \in Cells, NEW index \in {i, i + 1}, NEW value,
         SetField(index, value), UNCHANGED object
  PROVE  /\ HInv'
         /\ ObjectMemory!SetFields(object[i],
              [car |-> IF index = i THEN Graph(value) ELSE Graph(heap[i]),
               cdr |-> IF index = i THEN Graph(heap[i + 1]) ELSE Graph(value)])
<1>1. /\ phase = "mutator" /\ phase' = "mutator" /\ user' = user
      /\ space' = space /\ allocationIndex' = allocationIndex /\ fromIndex' = fromIndex
      /\ heap' = [heap EXCEPT ![index] = value] /\ object' = object
      /\ code' = code /\ stack' = stack /\ false' = false /\ register' = register
      /\ local' = local /\ result' = result
  BY DEF SetField, spaceVars, collectorVars, rootVars
<1>2. /\ ~Collecting /\ ~Collecting' /\ GraphCells = Cells /\ GraphCells' = Cells
      /\ user = "none" /\ user' = "none" /\ FieldsOfConses
  BY <1>1, MutatorGraph, FieldsFacts
     DEF HInv, Collecting, GraphCells, Cells, AllocationStart
<1>3. \A j : Home(j) = j /\ Home(j)' = j
  BY <1>2 DEF Home
<1>4. Named'
  BY <1>1, <1>2 DEF HInv, Named
<1>5. FieldsOfConses'
  BY <1>4, FieldsFacts, PTL
<1>6. \A v : Graph(v)' = Graph(v)
  BY <1>1 DEF Graph
<1>7. \A j \in Cells :
        /\ heap'[j] = IF index = j THEN value ELSE heap[j]
        /\ heap'[j + 1] = IF index = j + 1 THEN value ELSE heap[j + 1]
  BY <1>1, CellsFacts DEF IInv, TypeOK
<1>8. \A j \in Cells : (index = j <=> j = i /\ index = i)
                       /\ (index = j + 1 <=> j = i /\ index = i + 1)
  <2> TAKE j \in Cells
  <2>1. i \in Int /\ j \in Int
    BY CellsFacts DEF IInv
  <2>2. space \in BOOLEAN /\ allocationIndex \in Nat
    BY DEF IInv, TypeOK
  <2>3. i \in CellsOf(space, allocationIndex) /\ j \in CellsOf(space, allocationIndex)
    BY DEF Cells
  <2>4. i + 1 # j /\ j + 1 # i
    BY <2>2, <2>3, CellsOfApart
  <2> QED BY <2>1, <2>4
<1>9. DOMAIN Fields' = DOMAIN Fields
  BY <1>1, <1>2, <1>5 DEF FieldsOfConses
<1>10. \A j \in Cells :
         Fields'[object[j]] =
           IF j = i
           THEN [car |-> IF index = i THEN Graph(value) ELSE Graph(heap[i]),
                 cdr |-> IF index = i THEN Graph(heap[i + 1]) ELSE Graph(value)]
           ELSE Fields[object[j]]
  <2> TAKE j \in Cells
  <2>1. Fields'[object[j]] = [car |-> Graph(heap[j])', cdr |-> Graph(heap[j + 1])']
    BY <1>1, <1>2, <1>3, <1>5 DEF FieldsOfConses
  <2>2. Fields[object[j]] = [car |-> Graph(heap[j]), cdr |-> Graph(heap[j + 1])]
    BY <1>2, <1>3 DEF FieldsOfConses
  <2>3. /\ Graph(heap[j])' = IF index = j THEN Graph(value) ELSE Graph(heap[j])
        /\ Graph(heap[j + 1])' = IF index = j + 1 THEN Graph(value) ELSE Graph(heap[j + 1])
    BY <1>1, <1>7 DEF Graph
  <2>4. CASE j # i
    BY <2>1, <2>2, <2>3, <2>4, <1>8
  <2>5. CASE j = i
    <3>1. i \in Int
      BY CellsFacts DEF IInv
    <3>2. (index = i /\ index # i + 1) \/ (index = i + 1 /\ index # i)
      BY <3>1
    <3> QED BY <2>1, <2>3, <2>5, <3>2
  <2> QED BY <2>4, <2>5
<1>11. \A j \in Cells : object[j] = object[i] => j = i
  BY <1>2 DEF HInv, Named
<1>12. Fields' = [Fields EXCEPT ![object[i]] =
                    [car |-> IF index = i THEN Graph(value) ELSE Graph(heap[i]),
                     cdr |-> IF index = i THEN Graph(heap[i + 1]) ELSE Graph(value)]]
  <2> DEFINE pair == [car |-> IF index = i THEN Graph(value) ELSE Graph(heap[i]),
                      cdr |-> IF index = i THEN Graph(heap[i + 1]) ELSE Graph(value)]
  <2>1. \A o \in DOMAIN Fields :
          Fields'[o] = IF o = object[i] THEN pair ELSE Fields[o]
    <3> TAKE o \in DOMAIN Fields
    <3>1. PICK j \in Cells : o = object[j]
      BY <1>2 DEF FieldsOfConses
    <3> HIDE DEF pair
    <3>2. Fields'[object[j]] = IF j = i THEN pair ELSE Fields[object[j]]
      BY <1>10 DEF pair
    <3> QED BY <3>1, <3>2, <1>11
  <2>2. /\ Fields = [o \in DOMAIN Fields |-> Fields[o]]
        /\ Fields' = [o \in DOMAIN Fields |-> Fields'[o]]
    BY <1>2, <1>5, <1>9 DEF FieldsOfConses
  <2> HIDE DEF pair
  <2>3. Fields' = [Fields EXCEPT ![object[i]] = pair]
    BY <2>1, <2>2
  <2> QED BY <2>3 DEF pair
<1>13. UNCHANGED <<ObjectMemory!roots, Collecting, result>>
  <2>1. Collecting' = Collecting
    BY <1>1 DEF Collecting
  <2> QED BY <2>1, <1>1, <1>6 DEF ObjectMemory!roots, Graph
<1>14. HInv'
  BY <1>1, <1>2, <1>4, MutatorHInv
<1> QED BY <1>12, <1>13, <1>14 DEF ObjectMemory!SetFields

LEMMA SetCarRefines ==
  ASSUME Aligned, IInv, HInv, NEW i \in Cells, NEW value \in Car,
         SetCar(i, value), UNCHANGED object
  PROVE  HInv' /\ ObjectMemory!SetCar(object[i], Graph(value))
<1>1. phase = "mutator" /\ SetField(i, value)
  BY DEF SetCar, SetField
<1>2. Fields[object[i]] = [car |-> Graph(heap[i]), cdr |-> Graph(heap[i + 1])]
  BY <1>1, MutatorGraph
<1>3. HInv' /\ ObjectMemory!SetFields(object[i],
                 [car |-> Graph(value), cdr |-> Graph(heap[i + 1])])
  BY <1>1, SetFieldRefines
<1>4. \A a, b, c : [[car |-> a, cdr |-> b] EXCEPT !.car = c] = [car |-> c, cdr |-> b]
  OBVIOUS
<1> QED BY <1>2, <1>3, <1>4 DEF ObjectMemory!SetCar

LEMMA SetRawCdrRefines ==
  ASSUME Aligned, IInv, HInv, NEW i \in Cells, NEW value,
         SetRawCdr(i, value), UNCHANGED object
  PROVE  HInv' /\ ObjectMemory!SetRawCdr(object[i], Graph(value))
<1>1. phase = "mutator" /\ SetField(i + 1, value) /\ i + 1 # i
  BY CellsFacts DEF SetRawCdr, SetField, IInv
<1>2. Fields[object[i]] = [car |-> Graph(heap[i]), cdr |-> Graph(heap[i + 1])]
  BY <1>1, MutatorGraph
<1>3. HInv' /\ ObjectMemory!SetFields(object[i],
                 [car |-> Graph(heap[i]), cdr |-> Graph(value)])
  <2> DEFINE index == i + 1
  <2>1. index \in {i, i + 1} /\ index # i /\ SetField(index, value)
    BY <1>1
  <2> HIDE DEF index
  <2> QED BY <2>1, SetFieldRefines
<1>4. \A a, b, c : [[car |-> a, cdr |-> b] EXCEPT !.cdr = c] = [car |-> a, cdr |-> c]
  OBVIOUS
<1> QED BY <1>2, <1>3, <1>4 DEF ObjectMemory!SetRawCdr

(* set_cdr keeps the tag of the pointer it overwrites.                     *)
LEMMA SetCdrRefines ==
  ASSUME Aligned, IInv, HInv, NEW i \in Cells, NEW value \in Cdr,
         SetCdr(i, value), UNCHANGED object
  PROVE  HInv' /\ ObjectMemory!SetCdr(object[i], Graph(value))
<1> DEFINE tag == IF heap[i + 1].cons THEN heap[i + 1].tag ELSE 0
<1>1. phase = "mutator" /\ SetRawCdr(i, SetTag(value, tag))
  BY DEF SetCdr, SetRawCdr, SetField
<1>2. heap[i + 1] \in Value /\ value \in Value
  BY CellsFacts, ArgumentFacts DEF IInv, TypeOK
<1>3. tag \in Tag /\ tag = ObjectMemory!TagOf(Graph(heap[i + 1]))
  BY <1>2, MemoryAssumption, GraphFacts DEF Value
<1>4. Graph(SetTag(value, tag)) = ObjectMemory!SetTag(Graph(value), tag)
  BY <1>2, <1>3, GraphFacts
<1> HIDE DEF tag
<1>5. HInv' /\ ObjectMemory!SetRawCdr(object[i], Graph(SetTag(value, tag)))
  BY <1>1, SetRawCdrRefines
<1>6. Fields[object[i]] = [car |-> Graph(heap[i]), cdr |-> Graph(heap[i + 1])]
  BY <1>1, MutatorGraph
<1>7. \A a, b, c : [[car |-> a, cdr |-> b] EXCEPT !.cdr = c] = [car |-> a, cdr |-> c]
  OBVIOUS
<1>8. [Fields[object[i]] EXCEPT !.cdr =
         ObjectMemory!SetTag(Graph(value), ObjectMemory!TagOf(@))]
      = [car |-> Graph(heap[i]),
         cdr |-> ObjectMemory!SetTag(Graph(value), tag)]
  BY <1>3, <1>6
<1> QED BY <1>4, <1>5, <1>6, <1>7, <1>8
        DEF ObjectMemory!SetCdr, ObjectMemory!SetRawCdr

-----------------------------------------------------------------------------
(* Counting. *)

LEMMA ImageCardinality ==
  ASSUME NEW S, IsFiniteSet(S), NEW f, \A i, j \in S : f[i] = f[j] => i = j
  PROVE  LET T == {f[i] : i \in S}
         IN  IsFiniteSet(T) /\ Cardinality(T) = Cardinality(S)
<1> DEFINE T == {f[i] : i \in S}
           g == [i \in S |-> f[i]]
<1>1. g \in Surjection(S, T) /\ g \in Injection(S, T)
  BY DEF Surjection, Injection, IsInjective
<1> HIDE DEF g, T
<1>2. IsFiniteSet(T) /\ Cardinality(T) = Cardinality(S)
  BY <1>1, FS_Surjection
<1> QED BY <1>2 DEF T

(* The graph has one cons for two values of the space.                     *)
LEMMA GraphCount ==
  ASSUME Named, NEW s \in BOOLEAN, NEW n \in Nat, n % 2 = 0, GraphCells = CellsOf(s, n)
  PROVE  /\ IsFiniteSet(DOMAIN Fields) /\ Cardinality(DOMAIN Fields) \in Nat
         /\ n = 2 * Cardinality(DOMAIN Fields)
<1>1. DOMAIN Fields = {object[i] : i \in GraphCells}
  BY FieldsFacts DEF FieldsOfConses
<1>2. IsFiniteSet(GraphCells) /\ n = 2 * Cardinality(GraphCells)
  BY CellsOfCardinality
<1>3. IsFiniteSet(DOMAIN Fields) /\ Cardinality(DOMAIN Fields) = Cardinality(GraphCells)
  <2>1. \A i, j \in GraphCells : object[i] = object[j] => i = j
    BY DEF Named
  <2> QED BY <1>1, <1>2, <2>1, ImageCardinality
<1> QED BY <1>2, <1>3, FS_CardinalityType

LEMMA GraphCardinality == \A S : ObjectMemory!Cardinality(S) = Cardinality(S)
BY DEF ObjectMemory!Cardinality, Cardinality

(* A memory that is not full has room for one more object.                 *)
LEMMA RoomInGraph ==
  ASSUME Aligned, IInv, HInv, phase = "mutator"
  PROVE  /\ Capacity \in Nat /\ SpaceSize = 2 * Capacity
         /\ IsFiniteSet(DOMAIN Fields) /\ Cardinality(DOMAIN Fields) \in Nat
         /\ allocationIndex = 2 * Cardinality(DOMAIN Fields)
         /\ ObjectMemory!Full <=> IsOutOfMemory
         /\ ~IsOutOfMemory => /\ Fresh \in Object
                              /\ \A i \in Cells : object[i] # Fresh
<1>1. Capacity \in Nat /\ SpaceSize = 2 * Capacity
  <2>1. \A n \in Nat : n % 2 = 0 => n \div 2 \in Nat /\ n = 2 * (n \div 2)
    BY SMT
  <2> QED BY <2>1, SpaceSizeFacts DEF Aligned, Capacity
<1>2. /\ IsFiniteSet(DOMAIN Fields) /\ Cardinality(DOMAIN Fields) \in Nat
      /\ allocationIndex = 2 * Cardinality(DOMAIN Fields)
  <2>1. GraphCells = CellsOf(space, allocationIndex)
    BY MutatorGraph DEF Cells
  <2>2. space \in BOOLEAN /\ allocationIndex \in Nat /\ allocationIndex % 2 = 0
    BY DEF IInv, TypeOK, Bounds
  <2> QED BY <2>1, <2>2, GraphCount DEF HInv
<1>3. ObjectMemory!Full <=> IsOutOfMemory
  BY <1>1, <1>2, GraphCardinality DEF ObjectMemory!Full, IsOutOfMemory
<1>4. ASSUME ~IsOutOfMemory
      PROVE  /\ Fresh \in Object
             /\ \A i \in Cells : object[i] # Fresh
  <2>1. DOMAIN Fields = {object[i] : i \in Cells}
    BY MutatorGraph
  <2>2. Cardinality(Object) = Capacity
    BY <1>1, FS_Interval DEF Object
  <2>3. DOMAIN Fields # Object
    BY <1>1, <1>2, <1>4, <2>2 DEF IsOutOfMemory
  <2>4. DOMAIN Fields \subseteq Object
    <3> SUFFICES ASSUME NEW i \in Cells
                 PROVE  object[i] \in 1 .. Capacity
      BY <2>1 DEF Object
    <3>1. object[i] \in 0 .. Capacity /\ object[i] # 0
      BY CellsFacts, MutatorGraph DEF IInv, HInv, Named
    <3> QED BY <3>1, <1>1
  <2>5. \E o \in Object : \A i \in Cells : object[i] # o
    BY <2>1, <2>3, <2>4
  <2> QED BY <2>5 DEF Fresh
<1> QED BY <1>1, <1>2, <1>3, <1>4

(* A new cons is a new object of the graph.                                *)
LEMMA NewObject ==
  ASSUME Aligned, IInv, HInv, phase = "mutator", ~IsOutOfMemory,
         NEW car \in Car, NEW cdr \in Value, PointsInto(cdr, Cells),
         ~cdr.cons => cdr.tag = 0,
         heap' = WriteCons(heap, AllocationEnd, car, cdr),
         object' = [object EXCEPT ![AllocationEnd] = Fresh],
         local' = Cons(AllocationEnd, Pair), result' = "ok",
         code' = code, false' = false, register' = register,
         GraphCells' = CellsOf(space, allocationIndex + 2),
         \A i \in GraphCells' : Home(i)' = i,
         Collecting' <=> (GcAlways \/ allocationIndex + 2 >= SpaceSize)
  PROVE  /\ Named'
         /\ \A v \in Value : PointsInto(v, Cells) => Graph(v)' = Graph(v)
         /\ ObjectMemory!New(Fresh, Graph(car), Graph(cdr))
<1>0. PICK end : end = AllocationEnd
  OBVIOUS
<1>t. /\ TypeOK /\ Bounds /\ PointersValid
      /\ space \in BOOLEAN /\ allocationIndex \in Nat /\ allocationIndex % 2 = 0
      /\ HeapType(heap)
      /\ object \in [0 .. HeapSize - 1 -> 0 .. Capacity]
  BY DEF IInv, TypeOK, Bounds, HeapType, HInv, Named
<1>r. /\ Fresh \in Object /\ \A i \in Cells : object[i] # Fresh
      /\ Capacity \in Nat /\ SpaceSize = 2 * Capacity /\ Fresh \in 1 .. Capacity
  BY RoomInGraph DEF Object
<1>1. /\ GraphCells' = Cells \cup {end} /\ end \notin Cells
  BY <1>0, <1>t, CellsOfExtend DEF Cells, AllocationEnd, AllocationStart
<1>2. /\ end \in 0 .. HeapSize - 1 /\ end + 1 \in 0 .. HeapSize - 1 /\ end # 1
  <2>1. /\ end \in CellsOf(space, allocationIndex + 2)
        /\ allocationIndex + 2 \in Nat /\ allocationIndex + 2 <= SpaceSize
    BY <1>0, <1>t, <1>1, NewCons
  <2> QED BY <2>1, <1>t, CellsOfFacts, CellsOfEven
<1>3. /\ car \in Value /\ PointsInto(car, Cells) /\ (~car.cons => car.tag = 0)
  BY <1>t, ArgumentFacts
<1>4. \A k \in 0 .. HeapSize - 1 :
        heap'[k] = IF k = end THEN car ELSE IF k = end + 1 THEN cdr ELSE heap[k]
  BY <1>0, <1>2, <1>3, <1>t, WriteConsFacts
<1>5. /\ \A i \in Cells : object'[i] = object[i]
      /\ object'[end] = Fresh
      /\ object' \in [0 .. HeapSize - 1 -> 0 .. Capacity]
  BY <1>0, <1>1, <1>2, <1>r, <1>t
<1>6. \A i \in Cells : heap'[i] = heap[i] /\ heap'[i + 1] = heap[i + 1]
  <2> TAKE i \in Cells
  <2>1. /\ i \in 0 .. HeapSize - 1 /\ i + 1 \in 0 .. HeapSize - 1
        /\ i < end /\ i + 1 < end
    BY <1>0, <1>t, <1>2, CellsFacts
  <2> QED BY <2>1, <1>2, <1>4
<1>7. ASSUME NEW v \in Value, PointsInto(v, Cells)
      PROVE  Graph(v)' = Graph(v)
  BY <1>5, <1>7 DEF Graph, PointsInto
<1>8. Named'
  <2>1. \A i \in Cells : object[i] # 0
    BY MutatorGraph DEF HInv, Named
  <2>2. \A i, j \in Cells : object[i] = object[j] => i = j
    BY MutatorGraph DEF HInv, Named
  <2>3. \A i \in GraphCells' : object'[i] # 0
    BY <2>1, <1>1, <1>5, <1>r
  <2>4. \A i, j \in GraphCells' : object'[i] = object'[j] => i = j
    BY <2>2, <1>1, <1>5, <1>r
  <2> QED BY <2>3, <2>4, <1>5 DEF Named
<1>9. FieldsOfConses'
  BY <1>8, FieldsFacts, PTL
<1>10. DOMAIN Fields' = DOMAIN Fields \cup {Fresh} /\ Fresh \notin DOMAIN Fields
  BY <1>1, <1>5, <1>9, <1>r, MutatorGraph DEF FieldsOfConses
<1>11. \A i \in Cells : Fields'[object[i]] = Fields[object[i]]
  <2> TAKE i \in Cells
  <2>1. Fields'[object'[i]] = [car |-> Graph(heap[i])', cdr |-> Graph(heap[i + 1])']
    <3>1. i \in GraphCells' /\ Home(i)' = i
      BY <1>1
    <3> QED BY <3>1, <1>9 DEF FieldsOfConses
  <2>2. Fields[object[i]] = [car |-> Graph(heap[i]), cdr |-> Graph(heap[i + 1])]
    BY MutatorGraph
  <2>3. /\ heap[i] \in Value /\ heap[i + 1] \in Value
        /\ PointsInto(heap[i], Cells) /\ PointsInto(heap[i + 1], Cells)
    BY <1>t, CellsFacts DEF TypeOK, PointersValid
  <2>4. Graph(heap[i])' = Graph(heap[i]) /\ Graph(heap[i + 1])' = Graph(heap[i + 1])
    BY <2>3, <1>6, <1>7 DEF Graph
  <2> QED BY <2>1, <2>2, <2>4, <1>5
<1>12. Fields'[Fresh] = [car |-> Graph(car), cdr |-> Graph(cdr)]
  <2>1. Fields'[object'[end]] = [car |-> Graph(heap[end])', cdr |-> Graph(heap[end + 1])']
    <3>1. end \in GraphCells' /\ Home(end)' = end
      BY <1>1
    <3> QED BY <3>1, <1>9 DEF FieldsOfConses
  <2>2. heap'[end] = car /\ heap'[end + 1] = cdr
    BY <1>2, <1>4
  <2>3. /\ Graph(heap[end])' = Graph(car) /\ Graph(heap[end + 1])' = Graph(cdr)
    BY <2>2, <1>3, <1>7 DEF Graph
  <2> QED BY <2>1, <2>3, <1>5
<1>13. Fields' = [o \in DOMAIN Fields \cup {Fresh} |->
                    IF o = Fresh THEN [car |-> Graph(car), cdr |-> Graph(cdr)]
                    ELSE Fields[o]]
  <2>1. \A o \in DOMAIN Fields : Fields'[o] = Fields[o]
    BY <1>11, MutatorGraph
  <2> QED BY <2>1, <1>9, <1>10, <1>12 DEF FieldsOfConses
<1>14. Graph(local)' = ObjectMemory!Pointer(Fresh, 0)
  BY <1>0, <1>2, <1>5
     DEF Graph, Cons, IsNever, Pair, ObjectMemory!Pointer
<1>15. ObjectMemory!Full' <=> allocationIndex + 2 >= SpaceSize
  <2>1. Cardinality(DOMAIN Fields') = Cardinality(DOMAIN Fields) + 1
    BY <1>10, RoomInGraph, FS_AddElement
  <2> QED BY <2>1, RoomInGraph, GraphCardinality DEF ObjectMemory!Full
<1>16. Graph(code)' = Graph(code) /\ Graph(false)' = Graph(false)
       /\ Graph(register)' = Graph(register)
  BY <1>7, MutatorFacts DEF Graph
<1>17. ~ObjectMemory!Full /\ Fresh \in Object \ DOMAIN Fields
  BY <1>10, <1>r, RoomInGraph
<1> QED BY <1>7, <1>8, <1>13, <1>14, <1>15, <1>16, <1>17
        DEF ObjectMemory!New, Collecting

-----------------------------------------------------------------------------
(* The calls that allocate or collect. *)

(* When a collection starts there are no copies, and what the old stack    *)
(* points to is reachable: it is a root, or the cdr of the cons pushed.    *)
LEMMA FlipHInv ==
  ASSUME Aligned, Named', NEW s \in BOOLEAN, space' = ~s, allocationIndex' = 0,
         phase' = "code",
         \A i \in FromCells' : ~IsNever(heap'[i]),
         ~IsNever(stack') => object'[stack'.payload] \in ObjectMemory!Reachable'
  PROVE  HInv'
<1>1. Collecting'
  BY DEF Collecting
<1>2. Cells' = {}
  <2>1. space' \in BOOLEAN /\ Cells' = CellsOf(space', 0)
    BY DEF Cells
  <2>2. \A i \in CellsOf(space', 0) : FALSE
    BY <2>1, SpaceStartFacts, EmptyRange DEF CellsOf
  <2> QED BY <2>1, <2>2
<1>3. CopiesNamed'
  BY <1>1, <1>2 DEF CopiesNamed
<1>4. OnlyReachable'
  BY <1>1, <1>2 DEF OnlyReachable
<1> QED BY <1>1, <1>3, <1>4 DEF HInv

(* An allocation with room left, and what push does with the new cons.     *)
LEMMA AllocateWithinRefines ==
  ASSUME Aligned, IInv, HInv, NEW car \in Car, NEW cdr \in Value, PointsInto(cdr, Cells),
         ~cdr.cons => cdr.tag = 0, NEW use \in {"none", "push"},
         AllocateWithin(car, cdr, use), NameNew
  PROVE  /\ HInv'
         /\ ObjectMemory!New(Fresh, Graph(car), Graph(cdr))
         /\ LET top == Graph(IF user = "push" THEN local ELSE stack)
            IN top' = IF use = "push" THEN Graph(local)' ELSE top
<1>1. /\ phase = "mutator" /\ ~IsOutOfMemory /\ ~GcAlways
      /\ allocationIndex + 2 < SpaceSize
      /\ heap' = WriteCons(heap, AllocationEnd, car, cdr)
      /\ allocationIndex' = allocationIndex + 2
      /\ local' = Cons(AllocationEnd, Pair) /\ result' = "ok"
      /\ stack' = IF use = "push" THEN local' ELSE stack
      /\ code' = code /\ false' = false /\ register' = register
      /\ space' = space /\ user' = user /\ phase' = phase
  BY DEF AllocateWithin, collectorVars
<1>2. object' = [object EXCEPT ![AllocationEnd] = Fresh]
  BY <1>1 DEF NameNew
<1>3. ~Collecting /\ ~Collecting' /\ user = "none" /\ user' = "none"
  BY <1>1, MutatorGraph DEF Collecting
<1>4. GraphCells' = CellsOf(space, allocationIndex + 2)
  BY <1>1, <1>3 DEF GraphCells, Cells
<1>5. \A i \in GraphCells' : Home(i)' = i
  BY <1>3 DEF Home
<1>6. Collecting' <=> (GcAlways \/ allocationIndex + 2 >= SpaceSize)
  <2>1. allocationIndex \in Nat /\ SpaceSize \in Nat
    BY SpaceSizeFacts DEF IInv, TypeOK
  <2> QED BY <2>1, <1>1, <1>3
<1>7. /\ Named'
      /\ \A v \in Value : PointsInto(v, Cells) => Graph(v)' = Graph(v)
      /\ ObjectMemory!New(Fresh, Graph(car), Graph(cdr))
  BY <1>1, <1>2, <1>4, <1>5, <1>6, NewObject
<1>8. HInv'
  BY <1>1, <1>3, <1>7, MutatorHInv
<1>9. use # "push" => Graph(stack)' = Graph(stack)
  BY <1>1, <1>7, MutatorFacts DEF Graph
<1>10. use = "push" => Graph(stack)' = Graph(local)'
  BY <1>1 DEF Graph
<1> QED BY <1>3, <1>7, <1>8, <1>9, <1>10

(* An allocation that collects.                                            *)
LEMMA AllocateAndCollectRefines ==
  ASSUME Aligned, IInv, HInv, NEW car \in Car, NEW cdr \in Value, PointsInto(cdr, Cells),
         ~cdr.cons => cdr.tag = 0, NEW use \in {"none", "push"},
         use = "push" => cdr = SetTag(stack, Pair),
         AllocateAndCollect(car, cdr, use), NameNew
  PROVE  /\ HInv'
         /\ ObjectMemory!New(Fresh, Graph(car), Graph(cdr))
         /\ LET top == Graph(IF user = "push" THEN local ELSE stack)
            IN top' = IF use = "push" THEN Graph(local)' ELSE top
<1>1. /\ phase = "mutator" /\ ~IsOutOfMemory
      /\ GcAlways \/ allocationIndex + 2 >= SpaceSize
      /\ heap' = WriteCons(heap, AllocationEnd, car, cdr)
      /\ allocationIndex' = 0 /\ fromIndex' = allocationIndex + 2
      /\ local' = Cons(AllocationEnd, Pair) /\ result' = "ok"
      /\ stack' = stack /\ code' = code /\ false' = false /\ register' = register
      /\ space' = ~space /\ user' = use /\ phase' = "code"
  BY DEF AllocateAndCollect, Flip, rootVars
<1>2. object' = [object EXCEPT ![AllocationEnd] = Fresh]
  BY <1>1 DEF NameNew
<1>3. ~Collecting /\ Collecting' /\ user = "none" /\ space \in BOOLEAN
  BY <1>1, MutatorGraph DEF Collecting, IInv, TypeOK
<1>4. FromCells' = CellsOf(space, allocationIndex + 2) /\ GraphCells' = FromCells'
  BY <1>1, <1>3 DEF GraphCells, FromCells
<1>5. \A i \in FromCells' : ~IsNever(heap'[i])
  <2>1. Sound(heap', CellsOf(space, allocationIndex + 2))
    BY <1>1, NewCons DEF IInv
  <2> QED BY <2>1, <1>4 DEF Sound
<1>6. \A i \in GraphCells' : Home(i)' = i
  BY <1>4, <1>5 DEF Home, IsNever
<1>7. /\ Named'
      /\ \A v \in Value : PointsInto(v, Cells) => Graph(v)' = Graph(v)
      /\ ObjectMemory!New(Fresh, Graph(car), Graph(cdr))
  BY <1>1, <1>2, <1>3, <1>4, <1>6, NewObject
<1>8. stack \in Value /\ stack.cons /\ PointsInto(stack, Cells)
  BY <1>1, MutatorFacts
<1>9. Graph(stack)' = Graph(stack)
  BY <1>1, <1>7, <1>8 DEF Graph
<1>10. LET top == Graph(IF user = "push" THEN local ELSE stack)
       IN top' = IF use = "push" THEN Graph(local)' ELSE top
  BY <1>1, <1>3, <1>9
<1>11. ASSUME ~IsNever(stack')
       PROVE  object'[stack'.payload] \in ObjectMemory!Reachable'
  <2>1. RootsAndFieldsReach'
    BY ReachableRules, PTL
  <2>2. /\ ObjectMemory!IsPointer(Graph(stack)) /\ Graph(stack).object # 0
        /\ Graph(stack).object = object[stack.payload]
        /\ Graph(stack).object \in DOMAIN Fields
    BY <1>1, <1>8, <1>11, GraphFacts, MutatorGraph DEF PointsInto, HInv, Named
  <2>3. DOMAIN Fields \subseteq DOMAIN Fields'
    BY <1>7 DEF ObjectMemory!New
  <2>4. Graph(stack)'.object = object'[stack'.payload]
    BY <1>8, <1>11, <1>1 DEF Graph
  <2>5. CASE use # "push"
    <3>1. Reaches(Graph(stack))'
      BY <2>1, <2>5, <1>1 DEF RootsAndFieldsReach
    <3> QED BY <3>1, <2>2, <2>3, <2>4, <1>9 DEF Reaches, ObjectMemory!IsPointer
  <2>6. CASE use = "push"
    <3>1. Reaches(Graph(local))'
      BY <2>1 DEF RootsAndFieldsReach
    <3>2. Graph(local)' = ObjectMemory!Pointer(Fresh, 0) /\ Fresh \in DOMAIN Fields'
          /\ Fields'[Fresh] = [car |-> Graph(car), cdr |-> Graph(cdr)]
      BY <1>7 DEF ObjectMemory!New
    <3>3. Fresh \in Object /\ Fresh # 0
      BY <1>1, RoomInGraph DEF Object
    <3>4. Fresh \in ObjectMemory!Reachable'
      BY <3>1, <3>2, <3>3 DEF Reaches, ObjectMemory!Pointer, ObjectMemory!IsPointer
    <3>5. PICK o : o = Fresh
      OBVIOUS
    <3>6. Reaches(Fields[o].cdr)'
      BY <3>4, <3>5, <2>1 DEF RootsAndFieldsReach
    <3>7. Fields'[o].cdr = Graph(SetTag(stack, Pair))
      BY <3>2, <3>5, <2>6
    <3>8. /\ ObjectMemory!IsPointer(Graph(SetTag(stack, Pair)))
          /\ Graph(SetTag(stack, Pair)).object = Graph(stack).object
      <4>1. Pair \in Tag
        BY MemoryAssumption DEF Pair
      <4>2. Graph(SetTag(stack, Pair)) = ObjectMemory!SetTag(Graph(stack), Pair)
        BY <4>1, <1>8, GraphFacts
      <4> QED BY <4>2, <2>2 DEF ObjectMemory!SetTag, ObjectMemory!IsPointer
    <3>9. object'[stack'.payload] = Graph(stack).object
      BY <2>4, <1>9
    <3> QED BY <3>6, <3>7, <3>8, <3>9, <2>2, <2>3 DEF Reaches, ObjectMemory!IsPointer
  <2> QED BY <2>5, <2>6
<1>12. HInv'
  BY <1>1, <1>3, <1>5, <1>7, <1>11, FlipHInv
<1> QED BY <1>7, <1>10, <1>12

(* Whatever an allocation does, the graph can do.                          *)
LEMMA AllocationRefines ==
  ASSUME Aligned, IInv, HInv, Allocation, NameNew
  PROVE  HInv' /\ ~Collecting /\ ObjectMemory!Program
<1>t. TypeOK /\ Bounds
  BY DEF IInv
<1>1. ASSUME NEW value \in Car, Push(value)
      PROVE  HInv' /\ ~Collecting /\ ObjectMemory!Program
  <2> DEFINE cdr == SetTag(stack, Pair)
  <2>1. AllocateWithin(value, cdr, "push") \/ AllocateAndCollect(value, cdr, "push")
    BY <1>1 DEF Push
  <2>2. phase = "mutator" /\ ~IsOutOfMemory
    BY <2>1 DEF AllocateWithin, AllocateAndCollect
  <2>3. Pair \in Tag /\ Pair = 0
    BY MemoryAssumption DEF Pair
  <2>4. stack \in Value /\ stack.cons /\ PointsInto(stack, Cells)
    BY <2>2, MutatorFacts
  <2>5. cdr \in Value /\ cdr.cons /\ PointsInto(cdr, Cells)
    BY <2>3, <2>4, SetTagFacts DEF PointsInto, IsNever
  <2>6. ~Collecting /\ Graph(IF user = "push" THEN local ELSE stack) = Graph(stack)
    BY <2>2, MutatorGraph
  <2>7. Graph(cdr) = ObjectMemory!SetTag(Graph(stack), 0)
    BY <2>3, <2>4, GraphFacts
  <2>8. cdr = SetTag(stack, Pair)
    OBVIOUS
  <2> HIDE DEF cdr
  <2>9. /\ HInv' /\ ObjectMemory!New(Fresh, Graph(value), Graph(cdr))
        /\ Graph(IF user = "push" THEN local ELSE stack)' = Graph(local)'
    BY <2>1, <2>5, <2>8, AllocateWithinRefines, AllocateAndCollectRefines
  <2>10. Fresh \in Object /\ Graph(value) \in ObjectMemory!Car
    BY <2>2, RoomInGraph, GraphArguments
  <2>11. ObjectMemory!Push(Graph(value))
    BY <2>6, <2>7, <2>9, <2>10 DEF ObjectMemory!Push
  <2> QED BY <2>6, <2>9, <2>10, <2>11 DEF ObjectMemory!Program
<1>2. ASSUME NEW car \in Car, NEW cdr \in Cdr, Allocate(car, cdr)
      PROVE  HInv' /\ ~Collecting /\ ObjectMemory!Program
  <2>1. AllocateWithin(car, cdr, "none") \/ AllocateAndCollect(car, cdr, "none")
    BY <1>2 DEF Allocate
  <2>2. phase = "mutator" /\ ~IsOutOfMemory
    BY <2>1 DEF AllocateWithin, AllocateAndCollect
  <2>3. cdr \in Value /\ PointsInto(cdr, Cells) /\ (~cdr.cons => cdr.tag = 0)
    BY <1>t, ArgumentFacts
  <2>4. /\ HInv' /\ ObjectMemory!New(Fresh, Graph(car), Graph(cdr))
        /\ UNCHANGED Graph(IF user = "push" THEN local ELSE stack)
    BY <2>1, <2>3, AllocateWithinRefines, AllocateAndCollectRefines
  <2>5. /\ ~Collecting /\ Fresh \in Object
        /\ Graph(car) \in ObjectMemory!Car /\ Graph(cdr) \in ObjectMemory!Cdr
    BY <2>2, MutatorGraph, RoomInGraph, GraphArguments
  <2>6. ObjectMemory!Allocate(Graph(car), Graph(cdr))
    BY <2>4, <2>5 DEF ObjectMemory!Allocate
  <2> QED BY <2>4, <2>5, <2>6 DEF ObjectMemory!Program
<1>3. CASE AllocateFails
  <2>1. /\ phase = "mutator" /\ IsOutOfMemory /\ result' = "out of memory"
        /\ code' = code /\ stack' = stack /\ false' = false /\ register' = register
        /\ local' = local /\ heap' = heap /\ allocationIndex' = allocationIndex
        /\ space' = space /\ user' = user /\ phase' = phase /\ fromIndex' = fromIndex
    BY <1>3 DEF AllocateFails, rootVars, spaceVars, collectorVars
  <2>2. object' = object
    BY <2>1 DEF NameNew
  <2>3. ~Collecting /\ Collecting' = Collecting /\ user = "none" /\ GraphCells' = GraphCells
    BY <2>1, MutatorGraph DEF Collecting, GraphCells, Cells, FromCells
  <2>4. Named'
    BY <2>1, <2>2, <2>3 DEF HInv, Named
  <2>5. Fields' = Fields
    <3>1. \A i \in GraphCells : /\ Graph(heap[Home(i)])' = Graph(heap[Home(i)])
                                /\ Graph(heap[Home(i) + 1])' = Graph(heap[Home(i) + 1])
      BY <2>1, <2>2 DEF Graph, Home, Collecting
    <3> QED BY <3>1, <2>2, <2>3, <2>4, FieldsUnchanged DEF HInv
  <2>6. UNCHANGED ObjectMemory!roots
    BY <2>1, <2>2 DEF ObjectMemory!roots, Graph
  <2>7. HInv'
    BY <2>1, <2>3, <2>4, MutatorHInv
  <2>8. ObjectMemory!AllocateFails
    BY <2>1, <2>3, <2>5, <2>6, RoomInGraph DEF ObjectMemory!AllocateFails
  <2> QED BY <2>3, <2>7, <2>8 DEF ObjectMemory!Program
<1> QED BY <1>1, <1>2, <1>3 DEF Allocation

(* A collection the program asks for gives up the cons it held.            *)
LEMMA CollectGarbagesRefines ==
  ASSUME Aligned, IInv, HInv, CollectGarbages, UNCHANGED object
  PROVE  HInv' /\ ObjectMemory!CollectGarbages
<1>1. /\ phase = "mutator" /\ local' = NEVER /\ user' = "none" /\ phase' = "code"
      /\ fromIndex' = allocationIndex /\ allocationIndex' = 0 /\ space' = ~space
      /\ code' = code /\ stack' = stack /\ false' = false /\ register' = register
      /\ heap' = heap /\ result' = result /\ object' = object
  BY DEF CollectGarbages, Flip, rootVars
<1>2. /\ ~Collecting /\ Collecting' /\ Collecting' = TRUE
      /\ user = "none" /\ space \in BOOLEAN
  BY <1>1, MutatorGraph DEF Collecting, IInv, TypeOK
<1>3. FromCells' = Cells /\ GraphCells' = GraphCells /\ GraphCells = Cells
  BY <1>1, <1>2 DEF GraphCells, FromCells, Cells
<1>4. \A i \in FromCells' : ~IsNever(heap'[i])
  BY <1>1, <1>3, MutatorFacts DEF Sound
<1>5. Named'
  BY <1>1, <1>3 DEF HInv, Named
<1>6. Fields' = Fields
  <2>1. \A i \in GraphCells : Home(i) = i /\ Home(i)' = i
    BY <1>2, <1>3, <1>4 DEF Home, IsNever
  <2>2. \A i \in GraphCells : /\ Graph(heap[Home(i)])' = Graph(heap[Home(i)])
                              /\ Graph(heap[Home(i) + 1])' = Graph(heap[Home(i) + 1])
    BY <1>1, <2>1 DEF Graph
  <2> QED BY <2>2, <1>1, <1>3, <1>5, FieldsUnchanged DEF HInv
<1>7. ObjectMemory!CollectGarbages
  <2>1. Graph(local)' = ObjectMemory!NEVER
    BY <1>1 DEF Graph, NEVER, Cons, IsNever, Pair, ObjectMemory!NEVER, ObjectMemory!Pointer
  <2>2. UNCHANGED <<Graph(code), Graph(IF user = "push" THEN local ELSE stack),
                    Graph(false), Graph(register), Fields, result>>
    BY <1>1, <1>2, <1>6 DEF Graph
  <2> QED BY <2>1, <2>2, <1>2 DEF ObjectMemory!CollectGarbages
<1>8. ~IsNever(stack') => object'[stack'.payload] \in ObjectMemory!Reachable'
  <2> SUFFICES ASSUME ~IsNever(stack)
               PROVE  object[stack.payload] \in ObjectMemory!Reachable'
    BY <1>1 DEF IsNever
  <2>1. RootsAndFieldsReach'
    BY ReachableRules, PTL
  <2>2. Reaches(Graph(stack))'
    BY <2>1, <1>1 DEF RootsAndFieldsReach
  <2>3. stack \in Value /\ stack.cons /\ stack.payload \in Cells
    BY <1>1, MutatorFacts DEF PointsInto
  <2>4. /\ ObjectMemory!IsPointer(Graph(stack)) /\ Graph(stack).object # 0
        /\ Graph(stack).object = object[stack.payload]
        /\ Graph(stack).object \in DOMAIN Fields
    BY <1>1, <2>3, GraphFacts, MutatorGraph DEF HInv, Named
  <2>5. Graph(stack)' = Graph(stack)
    BY <1>1 DEF Graph
  <2> QED BY <2>2, <2>4, <2>5, <1>6 DEF Reaches, ObjectMemory!IsPointer
<1>9. HInv'
  BY <1>1, <1>2, <1>4, <1>5, <1>8, FlipHInv
<1> QED BY <1>7, <1>9

(* The other calls of a program.                                           *)
LEMMA MutationRefines ==
  ASSUME Aligned, IInv, HInv, Mutation, UNCHANGED object
  PROVE  HInv' /\ ~Collecting /\ ObjectMemory!Program
<1>0. phase = "mutator" /\ ~Collecting
  BY DEF Mutation, CollectGarbages, Pop, SetCode, SetStack, SetRegister, SetFalse,
         SetCar, SetCdr, SetRawCdr, SetRoots, SetField, Collecting
<1>1. CASE CollectGarbages
  BY <1>0, <1>1, CollectGarbagesRefines DEF ObjectMemory!Program
<1>2. CASE Pop
  BY <1>0, <1>2, PopRefines DEF ObjectMemory!Program
<1>3. ASSUME NEW c \in Root, SetCode(c) \/ SetStack(c) \/ SetRegister(c)
      PROVE  HInv' /\ ObjectMemory!Program
  <2>1. Graph(c) \in ObjectMemory!Root
    BY <1>0, GraphArguments
  <2> QED BY <2>1, <1>3, SetRootRefines DEF ObjectMemory!Program
<1>4. ASSUME NEW c \in Held, SetFalse(c)
      PROVE  HInv' /\ ObjectMemory!Program
  <2>1. Graph(c) \in ObjectMemory!Held
    BY <1>0, GraphArguments
  <2> QED BY <2>1, <1>4, SetRootRefines DEF ObjectMemory!Program
<1>5. \A i \in Cells : object[i] \in DOMAIN Fields
  BY <1>0, MutatorGraph
<1>6. ASSUME NEW i \in Cells, NEW value \in Car, SetCar(i, value)
      PROVE  HInv' /\ ObjectMemory!Program
  <2>1. Graph(value) \in ObjectMemory!Car
    BY <1>0, GraphArguments
  <2> QED BY <2>1, <1>5, <1>6, SetCarRefines DEF ObjectMemory!Program
<1>7. ASSUME NEW i \in Cells, NEW value \in Cdr, SetCdr(i, value) \/ SetRawCdr(i, value)
      PROVE  HInv' /\ ObjectMemory!Program
  <2>1. Graph(value) \in ObjectMemory!Cdr
    BY <1>0, GraphArguments
  <2> QED BY <2>1, <1>5, <1>7, SetCdrRefines, SetRawCdrRefines DEF ObjectMemory!Program
<1> QED BY <1>0, <1>1, <1>2, <1>3, <1>4, <1>6, <1>7 DEF Mutation

-----------------------------------------------------------------------------
(* The collector. *)

(* A collection copies into one space and leaves the other.                *)
ToSpace == AllocationStart .. AllocationStart + SpaceSize - 1

LEMMA SpacesApart ==
  ASSUME Aligned, IInv, phase \in CollectorPhase
  PROVE  /\ \A i \in FromCells : /\ i \in 0 .. HeapSize - 1 /\ i + 1 \in 0 .. HeapSize - 1
                                 /\ i \notin ToSpace /\ i + 1 \notin ToSpace /\ i # 1
         /\ \A i, j \in FromCells : i + 1 # j
         /\ AllocationStart .. AllocationEnd - 1 \subseteq ToSpace
         /\ ToSpace \subseteq 0 .. HeapSize - 1
         /\ \A i \in Cells : /\ i \in AllocationStart .. AllocationEnd - 1 /\ i # 1
                             /\ i + 1 \in AllocationStart .. AllocationEnd - 1
<1>1. /\ space \in BOOLEAN /\ (~space) \in BOOLEAN
      /\ fromIndex \in Nat /\ fromIndex % 2 = 0 /\ fromIndex <= SpaceSize
      /\ allocationIndex \in Nat /\ allocationIndex <= SpaceSize
  BY DEF IInv, TypeOK, Bounds
<1>2. AllocationStart = SpaceStart(space) /\ AllocationStart \in Nat /\ SpaceSize \in Nat
      /\ AllocationStart + SpaceSize <= HeapSize /\ HeapSize \in Nat
      /\ AllocationEnd = AllocationStart + allocationIndex
  BY <1>1, SpaceStartFacts, SpaceSizeFacts, MemoryAssumption
     DEF AllocationStart, AllocationEnd
<1>3. \A i \in CellsOf(~space, fromIndex) :
        /\ i \in 0 .. HeapSize - 1 /\ i + 1 \in 0 .. HeapSize - 1
        /\ i \in SpaceStart(~space) .. SpaceStart(~space) + fromIndex - 1
        /\ i + 1 \in SpaceStart(~space) .. SpaceStart(~space) + fromIndex - 1
        /\ i # 1
  BY <1>1, CellsOfFacts, CellsOfEven
<1>4. \A i \in CellsOf(~space, fromIndex) : i \notin ToSpace /\ i + 1 \notin ToSpace
  BY <1>1, <1>2, <1>3, SpacesDisjoint DEF ToSpace
<1>5. \A i, j \in CellsOf(~space, fromIndex) : i + 1 # j
  BY <1>1, CellsOfApart
<1>6. /\ AllocationStart .. AllocationEnd - 1 \subseteq ToSpace
      /\ ToSpace \subseteq 0 .. HeapSize - 1
  BY <1>1, <1>2 DEF ToSpace
<1>7. \A i \in Cells : i # 1
  BY <1>1, CellsOfEven DEF Cells
<1> QED BY <1>3, <1>4, <1>5, <1>6, <1>7, CellsFacts DEF FromCells, IInv

(* The three things copy_cons does, field by field.                        *)
CopyStays(c) ==
  LET copy == CopyCons(c)
  IN  IsNever(c) /\ copy.cons = c /\ copy.heap = heap /\ copy.index = allocationIndex

CopyFollows(c) ==
  LET copy == CopyCons(c)
  IN  /\ ~IsNever(c) /\ c.payload \in FromCells /\ IsNever(heap[c.payload])
      /\ copy.cons.payload = heap[c.payload + 1].payload /\ copy.cons.tag = c.tag
      /\ copy.heap = heap /\ copy.index = allocationIndex

CopyMoves(c) ==
  LET copy == CopyCons(c)
  IN  /\ ~IsNever(c) /\ c.payload \in FromCells /\ ~IsNever(heap[c.payload])
      /\ copy.cons = Cons(AllocationEnd, c.tag) /\ copy.index = allocationIndex + 2
      /\ AllocationEnd \in ToSpace /\ AllocationEnd + 1 \in ToSpace
      /\ AllocationEnd # 1 /\ Cells' = Cells \cup {AllocationEnd}
      /\ \A j \in 0 .. HeapSize - 1 :
           copy.heap[j] = IF j = c.payload THEN NEVER
                          ELSE IF j = c.payload + 1 THEN Cons(AllocationEnd, Pair)
                          ELSE IF j = AllocationEnd THEN heap[c.payload]
                          ELSE IF j = AllocationEnd + 1 THEN heap[c.payload + 1]
                          ELSE heap[j]

LEMMA CopyConsCases ==
  ASSUME Aligned, IInv, phase \in CollectorPhase,
         NEW c \in Value, c.cons, PointsInto(c, FromCells),
         allocationIndex' = CopyCons(c).index, space' = space
  PROVE  /\ CopyCons(c).cons \in Value /\ CopyCons(c).cons.cons
         /\ IsNever(CopyCons(c).cons) <=> IsNever(c)
         /\ CopyStays(c) \/ CopyFollows(c) \/ CopyMoves(c)
<1> DEFINE p == c.payload
<1>t. /\ TypeOK /\ Bounds /\ HeapType(heap) /\ c.tag \in Tag
      /\ space \in BOOLEAN /\ (~space) \in BOOLEAN /\ fromIndex \in Nat
      /\ fromIndex <= SpaceSize
      /\ allocationIndex \in Nat /\ allocationIndex % 2 = 0
      /\ ForwardsInto(heap, allocationIndex) /\ CopiesCounted(heap, allocationIndex)
  BY CollectorFacts DEF IInv, TypeOK, Bounds, HeapType, CopyInv, Value
<1>0. /\ CopyCons(c).ok /\ CopyCons(c).cons \in Value /\ CopyCons(c).cons.cons
      /\ IsNever(CopyCons(c).cons) <=> IsNever(c)
      /\ CopyCons(c).index <= SpaceSize
  BY <1>t, CollectorFacts, CopyConsPreserves
<1>1. CASE IsNever(c)
  BY <1>1 DEF CopyStays, CopyCons
<1>a. ASSUME ~IsNever(c)
      PROVE  /\ p \in FromCells /\ p \in 0 .. HeapSize - 1 /\ p + 1 \in 0 .. HeapSize - 1
             /\ heap[p] \in Value /\ heap[p + 1] \in Value
             /\ ~heap[p].cons => heap[p].tag = 0
             /\ ~heap[p + 1].cons => heap[p + 1].tag = 0
  <2>1. p \in CellsOf(~space, fromIndex)
    BY <1>a DEF PointsInto, FromCells
  <2>2. p \in 0 .. HeapSize - 1 /\ p + 1 \in 0 .. HeapSize - 1
    <3>1. /\ (~space) \in BOOLEAN /\ fromIndex \in Nat /\ fromIndex <= SpaceSize
          /\ fromIndex % 2 = 0
      BY <1>t DEF Bounds
    <3> HIDE DEF p
    <3> QED BY ONLY <2>1, <3>1, CellsOfFacts
  <2>3. p \in FromCells
    BY <2>1 DEF FromCells
  <2> HIDE DEF p
  <2> QED BY <2>2, <2>3, <1>t DEF HeapType
<1>2. CASE ~IsNever(c) /\ IsNever(heap[p])
  <2>1. CopyCons(c) = [ok |-> TRUE, cons |-> SetTag(heap[p + 1], c.tag),
                       heap |-> heap, index |-> allocationIndex]
    BY <1>2 DEF CopyCons
  <2>2. heap[p + 1].cons
    BY <1>2, <1>a, <1>t DEF ForwardsInto
  <2>3. /\ SetTag(heap[p + 1], c.tag).payload = heap[p + 1].payload
        /\ SetTag(heap[p + 1], c.tag).tag = c.tag
    BY <2>2, <1>2, <1>a DEF SetTag, Value
  <2> QED BY <2>1, <2>3, <1>0, <1>2, <1>a DEF CopyFollows
<1>3. CASE ~IsNever(c) /\ ~IsNever(heap[p])
  <2>0. PICK end : end = AllocationEnd
    OBVIOUS
  <2> DEFINE h1 == WriteCons(heap, end, heap[p], heap[p + 1])
             h2 == WriteCons(h1, p, NEVER, Cons(end, Pair))
  <2>1. /\ CopyCons(c) = [ok |-> TRUE, cons |-> Cons(end, c.tag), heap |-> h2,
                          index |-> allocationIndex + 2]
    BY <1>0, <1>3, <2>0 DEF CopyCons
  <2>2. allocationIndex + 2 <= SpaceSize /\ allocationIndex + 2 \in Nat
    BY <1>0, <1>t, <2>1
  <2>3. /\ CellsOf(space, allocationIndex + 2) = Cells \cup {end}
        /\ end \in 0 .. HeapSize - 1 /\ end + 1 \in 0 .. HeapSize - 1 /\ end # 1
    <3>1. CellsOf(space, allocationIndex + 2) = Cells \cup {end}
      BY <1>t, <2>0, CellsOfExtend DEF Cells, AllocationEnd, AllocationStart
    <3>2. end \in CellsOf(space, allocationIndex + 2)
      BY <3>1
    <3> QED BY <3>1, <3>2, <2>2, <1>t, CellsOfFacts, CellsOfEven
  <2>4. /\ HeapType(h1)
        /\ \A k \in 0 .. HeapSize - 1 :
             h1[k] = IF k = end THEN heap[p] ELSE IF k = end + 1 THEN heap[p + 1] ELSE heap[k]
    <3>1. /\ heap[p] \in Value /\ (~heap[p].cons => heap[p].tag = 0)
          /\ heap[p + 1] \in Value /\ (~heap[p + 1].cons => heap[p + 1].tag = 0)
      BY <1>3, <1>a
    <3>2. HeapType(heap)
      BY <1>t
    <3>3. PICK a, b : a = heap[p] /\ b = heap[p + 1]
      OBVIOUS
    <3>4. /\ a \in Value /\ b \in Value
          /\ (~a.cons => a.tag = 0) /\ (~b.cons => b.tag = 0)
      BY <3>1, <3>3
    <3>5. end \in 0 .. HeapSize - 1 /\ end + 1 \in 0 .. HeapSize - 1
      BY <2>3
    <3>6. /\ HeapType(WriteCons(heap, end, a, b))
          /\ \A k \in 0 .. HeapSize - 1 :
               WriteCons(heap, end, a, b)[k] = IF k = end THEN a
                                               ELSE IF k = end + 1 THEN b ELSE heap[k]
      BY ONLY <3>2, <3>4, <3>5, WriteConsFacts
    <3> QED BY <3>3, <3>6
  <2>5. \A k \in 0 .. HeapSize - 1 :
          h2[k] = IF k = p THEN NEVER ELSE IF k = p + 1 THEN Cons(end, Pair) ELSE h1[k]
    <3>1. p \in 0 .. HeapSize - 1 /\ p + 1 \in 0 .. HeapSize - 1
      BY <1>3, <1>a
    <3>2. Cons(end, Pair) \in Value /\ Cons(end, Pair).cons
      BY <2>3, MemoryAssumption, ConsFacts DEF Pair
    <3>3. NEVER \in Value /\ NEVER.cons
      BY NeverFacts
    <3>4. PICK g, q, d : g = h1 /\ q = p /\ d = Cons(end, Pair)
      OBVIOUS
    <3>5. /\ HeapType(g) /\ d \in Value /\ d.cons
          /\ q \in 0 .. HeapSize - 1 /\ q + 1 \in 0 .. HeapSize - 1
      BY <2>4, <3>1, <3>2, <3>4
    <3>6. \A k \in 0 .. HeapSize - 1 :
            WriteCons(g, q, NEVER, d)[k] = IF k = q THEN NEVER
                                           ELSE IF k = q + 1 THEN d ELSE g[k]
      BY ONLY <3>3, <3>5, WriteConsFacts
    <3> QED BY <3>4, <3>6
  <2>6. \A k \in 0 .. HeapSize - 1 :
          h2[k] = IF k = p THEN NEVER ELSE IF k = p + 1 THEN Cons(end, Pair)
                  ELSE IF k = end THEN heap[p] ELSE IF k = end + 1 THEN heap[p + 1]
                  ELSE heap[k]
    <3> HIDE DEF h1, h2, p
    <3> QED BY <2>4, <2>5
  <2>7. Cells' = Cells \cup {end}
    BY <2>1, <2>3 DEF Cells
  <2>8. end \in ToSpace /\ end + 1 \in ToSpace
    <3>1. AllocationStart \in Nat /\ SpaceSize \in Nat /\ end = AllocationStart + allocationIndex
      BY <1>t, <2>0, SpaceStartFacts, SpaceSizeFacts DEF AllocationStart, AllocationEnd
    <3> QED BY <3>1, <2>2, <1>t DEF ToSpace
  <2> HIDE DEF h2
  <2> QED BY <2>0, <2>1, <2>3, <2>6, <2>7, <2>8, <1>0, <1>3, <1>a DEF CopyMoves
<1> QED BY <1>0, <1>1, <1>2, <1>3

(* A step of the collector that copies c and overwrites with the result a  *)
(* root, or the field k of a copy.                                         *)
CopyStep(c, k) ==
  /\ phase \in CollectorPhase /\ phase' \in CollectorPhase
  /\ c \in Value /\ c.cons /\ PointsInto(c, FromCells)
  /\ \/ k \notin 0 .. HeapSize - 1
     \/ k \in AllocationStart .. AllocationEnd - 1 /\ heap[k] = c
  /\ \A j \in 0 .. HeapSize - 1 :
       heap'[j] = IF j = k THEN CopyCons(c).cons ELSE CopyCons(c).heap[j]
  /\ allocationIndex' = CopyCons(c).index
  /\ space' = space /\ fromIndex' = fromIndex

(* A copy is the object it is a copy of, and nothing else is renamed.      *)
LEMMA CopyNames ==
  ASSUME Aligned, IInv, HInv, NEW c, NEW k, CopyStep(c, k), NameCopy
  PROVE  /\ object' \in [0 .. HeapSize - 1 -> 0 .. Capacity]
         /\ \A i \in FromCells \cup Cells : object'[i] = object[i]
         /\ CopyMoves(c) => object'[AllocationEnd] = object[c.payload]
<1>1. /\ object \in [0 .. HeapSize - 1 -> 0 .. Capacity] /\ phase' # "mutator"
      /\ allocationIndex \in Nat
  BY DEF CopyStep, CollectorPhase, HInv, Named, IInv, TypeOK
<1>2. CopyStays(c) \/ CopyFollows(c) \/ CopyMoves(c)
  BY CopyConsCases DEF CopyStep
<1>3. CASE CopyStays(c) \/ CopyFollows(c)
  <2>1. object' = object
    BY <1>1, <1>3 DEF CopyStays, CopyFollows, CopyStep, NameCopy
  <2>2. ~CopyMoves(c)
    BY <1>1, <1>3 DEF CopyStays, CopyFollows, CopyMoves
  <2> QED BY <1>1, <2>1, <2>2
<1>4. CASE CopyMoves(c)
  <2> DEFINE Moved == {i \in FromCells : ~IsNever(heap[i]) /\ IsNever(heap'[i])}
             p == c.payload
  <2>0. PICK end : end = AllocationEnd
    OBVIOUS
  <2>1. /\ p \in FromCells /\ ~IsNever(heap[p]) /\ end \in ToSpace /\ end + 1 \in ToSpace
        /\ \A j \in 0 .. HeapSize - 1 :
             CopyCons(c).heap[j] = IF j = p THEN NEVER
                                   ELSE IF j = p + 1 THEN Cons(end, Pair)
                                   ELSE IF j = end THEN heap[p]
                                   ELSE IF j = end + 1 THEN heap[p + 1]
                                   ELSE heap[j]
    BY <1>4, <2>0 DEF CopyMoves
  <2>2. k \notin FromCells
    BY SpacesApart DEF CopyStep
  <2>3. \A i \in FromCells : heap'[i] = IF i = p THEN NEVER ELSE heap[i]
    <3> TAKE i \in FromCells
    <3>1. /\ i \in 0 .. HeapSize - 1 /\ i # k /\ i # p + 1 /\ i # end /\ i # end + 1
      BY <2>1, <2>2, SpacesApart DEF CopyStep
    <3>2. heap'[i] = CopyCons(c).heap[i]
      BY <3>1 DEF CopyStep
    <3> HIDE DEF p
    <3> QED BY <2>1, <3>1, <3>2
  <2>4. Moved = {p}
    BY <2>1, <2>3, NeverFacts
  <2>5. allocationIndex' = allocationIndex + 2 /\ allocationIndex' # allocationIndex
    BY <1>1, <1>4 DEF CopyMoves, CopyStep
  <2> HIDE DEF Moved
  <2>6. object' = [object EXCEPT ![end] = object[p]]
    <3>1. object' = [object EXCEPT ![end] =
                       IF Moved = {} THEN 0 ELSE object[CHOOSE i \in Moved : TRUE]]
      BY <1>1, <2>0, <2>5 DEF NameCopy, Moved
    <3>2. (CHOOSE i \in Moved : TRUE) = p
      BY <2>4
    <3> HIDE DEF p
    <3> QED BY <3>1, <3>2, <2>4
  <2>7. /\ p \in 0 .. HeapSize - 1 /\ end \in 0 .. HeapSize - 1
        /\ \A i \in FromCells : i # end
    BY <1>4, <2>0, <2>1, SpacesApart DEF CopyStep
  <2>8. \A i \in Cells : i # end
    <3>1. AllocationEnd \in Nat
      BY TypeFacts DEF IInv
    <3> QED BY <3>1, <2>0, SpacesApart DEF CopyStep
  <2> HIDE DEF p
  <2> QED BY <1>1, <2>0, <2>6, <2>7, <2>8 DEF p
<1> QED BY <1>2, <1>3, <1>4

(* So no value changes what it stands for, not even the one copied.        *)
LEMMA CopyGraph ==
  ASSUME Aligned, IInv, HInv, NEW c, NEW k, CopyStep(c, k), NameCopy
  PROVE  /\ \A v \in Value : PointsInto(v, FromCells) \/ PointsInto(v, Cells)
                               => Graph(v)' = Graph(v)
         /\ \A d : d = CopyCons(c).cons => Graph(d)' = Graph(c)
<1>1. \A i \in FromCells \cup Cells : object'[i] = object[i]
  BY CopyNames
<1>2. /\ CopyCons(c).cons \in Value /\ CopyCons(c).cons.cons
      /\ IsNever(CopyCons(c).cons) <=> IsNever(c)
      /\ CopyStays(c) \/ CopyFollows(c) \/ CopyMoves(c)
      /\ c \in Value /\ c.cons /\ PointsInto(c, FromCells)
  BY CopyConsCases DEF CopyStep
<1>3. ASSUME NEW v \in Value, PointsInto(v, FromCells) \/ PointsInto(v, Cells)
      PROVE  Graph(v)' = Graph(v)
  BY <1>1, <1>3 DEF Graph, PointsInto
<1>4. ASSUME NEW d, d = CopyCons(c).cons
      PROVE  Graph(d)' = Graph(c)
  <2>1. CASE CopyStays(c)
    BY <1>2, <1>3, <1>4, <2>1 DEF CopyStays
  <2>2. CASE CopyFollows(c)
    <3>1. /\ d.cons /\ ~IsNever(d) /\ d.tag = c.tag /\ c.cons /\ ~IsNever(c)
          /\ d.payload = heap[c.payload + 1].payload /\ c.payload \in FromCells
          /\ IsNever(heap[c.payload])
      BY <1>2, <1>4, <2>2 DEF CopyFollows
    <3>2. ForwardsInto(heap, allocationIndex)
      BY CollectorFacts DEF CopyStep, CopyInv
    <3>3. d.payload \in Cells
      BY <3>1, <3>2 DEF ForwardsInto, Cells
    <3>4. object[d.payload] = object[c.payload]
      BY <3>1 DEF HInv, CopiesNamed, Collecting, CopyStep, CollectorPhase
    <3> QED BY <3>1, <3>3, <3>4, <1>1 DEF Graph
  <2>3. CASE CopyMoves(c)
    <3>1. d = Cons(AllocationEnd, c.tag) /\ ~IsNever(c) /\ AllocationEnd # 1
      BY <1>4, <2>3 DEF CopyMoves
    <3>2. object'[AllocationEnd] = object[c.payload]
      BY <2>3, CopyNames
    <3> QED BY <3>1, <3>2, <1>2 DEF Graph, Cons, IsNever
  <2> QED BY <1>2, <2>1, <2>2, <2>3
<1> QED BY <1>3, <1>4

(* Nor does the heap of the graph: what is where a cons moved to stands    *)
(* for what was where it came from.                                        *)
LEMMA CopyHomes ==
  ASSUME Aligned, IInv, HInv, NEW c, NEW k, CopyStep(c, k), NameCopy
  PROVE  /\ \A i \in FromCells :
              /\ Graph(heap[Home(i)])' = Graph(heap[Home(i)])
              /\ Graph(heap[Home(i) + 1])' = Graph(heap[Home(i) + 1])
         /\ \A i \in FromCells :
              \/ IsNever(heap'[i]) /\ IsNever(heap[i])
                 /\ heap'[i + 1].payload = heap[i + 1].payload
              \/ ~IsNever(heap'[i]) /\ ~IsNever(heap[i])
              \/ CopyMoves(c) /\ i = c.payload /\ IsNever(heap'[i])
                 /\ heap'[i + 1].payload = AllocationEnd
         /\ CopyMoves(c) => /\ IsNever(heap'[c.payload])
                            /\ heap'[c.payload + 1].payload = AllocationEnd
<1>0. /\ phase \in CollectorPhase /\ phase' \in CollectorPhase
      /\ Collecting /\ Collecting'
  BY DEF CopyStep, Collecting, CollectorPhase
<1>1. PICK d : d = CopyCons(c).cons
  OBVIOUS
<1>2. /\ CopyStays(c) \/ CopyFollows(c) \/ CopyMoves(c)
  BY CopyConsCases DEF CopyStep
<1>3. /\ \A i \in FromCells : IF IsNever(heap[i])
                              THEN heap[i + 1].payload \in Cells
                              ELSE PointsInto(heap[i], FromCells)
                                   /\ PointsInto(heap[i + 1], FromCells)
      /\ \A i \in AllocationStart .. AllocationEnd - 1 :
           PointsInto(heap[i], FromCells) \/ PointsInto(heap[i], Cells)
      /\ heap \in [0 .. HeapSize - 1 -> Value]
  <2>1. ForwardsInto(heap, allocationIndex) /\ CopiesPoint(heap, allocationIndex, Scanned)
    BY <1>0, CollectorFacts DEF CopyInv
  <2>2. AllocationStart + allocationIndex - 1 = AllocationEnd - 1
    BY TypeFacts DEF IInv
  <2> QED BY <2>1, <2>2 DEF ForwardsInto, CopiesPoint, Cells, IInv, TypeOK
(* A field of the graph that is written nowhere but at k.                  *)
<1>4. ASSUME NEW x \in 0 .. HeapSize - 1, NEW y \in 0 .. HeapSize - 1,
             CopyCons(c).heap[y] = heap[x],
             PointsInto(heap[x], FromCells) \/ PointsInto(heap[x], Cells),
             y = k => x = k
      PROVE  Graph(heap[y])' = Graph(heap[x])
  <2>1. CASE y = k
    <3>1. heap'[y] = d /\ heap[x] = c
      BY <1>1, <1>4, <2>1 DEF CopyStep
    <3>2. Graph(d)' = Graph(c)
      BY <1>1, CopyGraph
    <3> QED BY <3>1, <3>2 DEF Graph
  <2>2. CASE y # k
    <3>1. heap'[y] = heap[x] /\ heap[x] \in Value
      BY <1>3, <1>4, <2>2 DEF CopyStep
    <3>2. PICK v : v = heap[x]
      OBVIOUS
    <3>3. Graph(v)' = Graph(v)
      BY <1>4, <3>1, <3>2, CopyGraph
    <3> QED BY <3>1, <3>2, <3>3 DEF Graph
  <2> QED BY <2>1, <2>2
<1>5. /\ \A i \in FromCells : /\ i \in 0 .. HeapSize - 1 /\ i + 1 \in 0 .. HeapSize - 1
                              /\ i # k /\ i + 1 # k
      /\ \A i \in Cells : /\ i \in 0 .. HeapSize - 1 /\ i + 1 \in 0 .. HeapSize - 1
                          /\ i \in AllocationStart .. AllocationEnd - 1
                          /\ i + 1 \in AllocationStart .. AllocationEnd - 1
  BY SpacesApart DEF CopyStep
<1>6. CASE CopyStays(c) \/ CopyFollows(c)
  <2>1. CopyCons(c).heap = heap /\ ~CopyMoves(c)
    <3>1. allocationIndex \in Nat
      BY DEF IInv, TypeOK
    <3> QED BY <3>1, <1>6 DEF CopyStays, CopyFollows, CopyMoves
  <2>2. \A i \in FromCells : heap'[i] = heap[i] /\ heap'[i + 1] = heap[i + 1]
    BY <2>1, <1>5 DEF CopyStep
  <2>3. ASSUME NEW i \in FromCells
        PROVE  /\ Graph(heap[Home(i)])' = Graph(heap[Home(i)])
               /\ Graph(heap[Home(i) + 1])' = Graph(heap[Home(i) + 1])
    <3>1. PICK x : x = Home(i)
      OBVIOUS
    <3>2. Home(i)' = x
      BY <3>1, <2>2, <1>0 DEF Home, IsNever
    <3>3. /\ x \in 0 .. HeapSize - 1 /\ x + 1 \in 0 .. HeapSize - 1
          /\ PointsInto(heap[x], FromCells) \/ PointsInto(heap[x], Cells)
          /\ PointsInto(heap[x + 1], FromCells) \/ PointsInto(heap[x + 1], Cells)
      BY <3>1, <1>0, <1>3, <1>5 DEF Home
    <3>4. Graph(heap[x])' = Graph(heap[x])
      BY <3>3, <2>1, <1>4
    <3>5. PICK y : y = x + 1
      OBVIOUS
    <3>6. Graph(heap[y])' = Graph(heap[y])
      BY <3>3, <3>5, <2>1, <1>4
    <3> QED BY <3>1, <3>2, <3>4, <3>5, <3>6
  <2>4. \A i \in FromCells : IsNever(heap'[i]) <=> IsNever(heap[i])
    BY <2>2 DEF IsNever
  <2> QED BY <2>1, <2>2, <2>3, <2>4
<1>7. CASE CopyMoves(c)
  <2>0. PICK p, end : p = c.payload /\ end = AllocationEnd
    OBVIOUS
  <2>1. /\ p \in FromCells /\ ~IsNever(heap[p]) /\ end \in ToSpace /\ end + 1 \in ToSpace
        /\ \A j \in 0 .. HeapSize - 1 :
             CopyCons(c).heap[j] = IF j = p THEN NEVER
                                   ELSE IF j = p + 1 THEN Cons(end, Pair)
                                   ELSE IF j = end THEN heap[p]
                                   ELSE IF j = end + 1 THEN heap[p + 1]
                                   ELSE heap[j]
    BY <1>7, <2>0 DEF CopyMoves
  <2>2. /\ p \in 0 .. HeapSize - 1 /\ p + 1 \in 0 .. HeapSize - 1
        /\ end \in 0 .. HeapSize - 1 /\ end + 1 \in 0 .. HeapSize - 1
        /\ p \notin ToSpace /\ p + 1 \notin ToSpace /\ end \in Nat /\ p \in Nat
        /\ AllocationStart \in Nat
    <3>1. AllocationStart \in Nat /\ AllocationEnd \in Nat
      BY TypeFacts DEF IInv
    <3> QED BY <3>1, <2>0, <2>1, <1>0, SpacesApart
  <2>3. k # end /\ k # end + 1
    BY <2>0, <2>2 DEF CopyStep
(* Another cons and the copies there were are as before,                   *)
  <2>4. ASSUME NEW i \in FromCells, i # p
        PROVE  /\ CopyCons(c).heap[i] = heap[i] /\ CopyCons(c).heap[i + 1] = heap[i + 1]
               /\ heap'[i] = heap[i] /\ heap'[i + 1] = heap[i + 1]
    <3>1. /\ i \in 0 .. HeapSize - 1 /\ i + 1 \in 0 .. HeapSize - 1
          /\ i # p /\ i # p + 1 /\ i + 1 # p /\ i + 1 # p + 1
          /\ i \notin ToSpace /\ i + 1 \notin ToSpace
      BY <1>0, <2>1, <2>2, <2>4, SpacesApart
    <3>2. i # end /\ i # end + 1 /\ i + 1 # end /\ i + 1 # end + 1
      BY <2>1, <3>1
    <3>3. CopyCons(c).heap[i] = heap[i] /\ CopyCons(c).heap[i + 1] = heap[i + 1]
      BY <2>1, <3>1, <3>2
    <3> QED BY <3>1, <3>3, <1>5 DEF CopyStep
  <2>5. ASSUME NEW i \in Cells
        PROVE  CopyCons(c).heap[i] = heap[i] /\ CopyCons(c).heap[i + 1] = heap[i + 1]
    <3>1. /\ i \in 0 .. HeapSize - 1 /\ i + 1 \in 0 .. HeapSize - 1
          /\ i \in AllocationStart .. end - 1 /\ i + 1 \in AllocationStart .. end - 1
      BY <1>5, <2>0
    <3>2. i \in ToSpace /\ i + 1 \in ToSpace
      BY <3>1, <2>0, <1>0, SpacesApart
    <3>3. /\ i # p /\ i # p + 1 /\ i + 1 # p /\ i + 1 # p + 1
          /\ i # end /\ i # end + 1 /\ i + 1 # end /\ i + 1 # end + 1
      BY <2>2, <3>1, <3>2
    <3> QED BY <2>1, <3>1, <3>3
(* and this one is forwarded to its copy.                                  *)
  <2>6. heap'[p] = NEVER /\ heap'[p + 1] = Cons(end, Pair)
    <3>1. p # p + 1
      BY <2>2
    <3>2. CopyCons(c).heap[p] = NEVER /\ CopyCons(c).heap[p + 1] = Cons(end, Pair)
      BY <2>1, <2>2, <3>1
    <3> QED BY <2>1, <2>2, <3>2, <1>5 DEF CopyStep
  <2>7. CopyCons(c).heap[end] = heap[p] /\ CopyCons(c).heap[end + 1] = heap[p + 1]
    <3>1. end # p /\ end # p + 1 /\ end + 1 # p /\ end + 1 # p + 1 /\ end + 1 # end
      BY <2>1, <2>2
    <3> QED BY <2>1, <2>2, <3>1
  <2>8. IsNever(heap'[p]) /\ heap'[p + 1].payload = end
    BY <2>6, NeverFacts DEF Cons
  <2>9. ASSUME NEW i \in FromCells
        PROVE  /\ Graph(heap[Home(i)])' = Graph(heap[Home(i)])
               /\ Graph(heap[Home(i) + 1])' = Graph(heap[Home(i) + 1])
    <3>1. PICK x : x = Home(i)
      OBVIOUS
    <3>2. CASE i = p
      <4>1. x = p /\ Home(i)' = end
        BY <3>1, <3>2, <2>1, <2>8, <1>0 DEF Home
      <4>2. /\ PointsInto(heap[p], FromCells) /\ PointsInto(heap[p + 1], FromCells)
        BY <2>1, <1>3
      <4>3. Graph(heap[end])' = Graph(heap[p])
        BY <1>4, <2>2, <2>3, <2>7, <4>2
      <4>4. PICK y : y = end + 1
        OBVIOUS
      <4>5. PICK z : z = p + 1
        OBVIOUS
      <4>6. Graph(heap[y])' = Graph(heap[z])
        BY <1>4, <2>2, <2>3, <2>7, <4>2, <4>4, <4>5
      <4> QED BY <3>1, <4>1, <4>3, <4>4, <4>5, <4>6
    <3>3. CASE i # p
      <4>1. Home(i)' = x
        BY <3>1, <3>3, <2>4, <1>0 DEF Home
      <4>2. /\ x \in 0 .. HeapSize - 1 /\ x + 1 \in 0 .. HeapSize - 1
            /\ PointsInto(heap[x], FromCells) \/ PointsInto(heap[x], Cells)
            /\ PointsInto(heap[x + 1], FromCells) \/ PointsInto(heap[x + 1], Cells)
        BY <3>1, <1>0, <1>3, <1>5 DEF Home
      <4>3. CopyCons(c).heap[x] = heap[x] /\ CopyCons(c).heap[x + 1] = heap[x + 1]
        BY <3>1, <3>3, <2>4, <2>5, <1>0, <1>3 DEF Home
      <4>4. Graph(heap[x])' = Graph(heap[x])
        BY <4>2, <4>3, <1>4
      <4>5. PICK y : y = x + 1
        OBVIOUS
      <4>6. Graph(heap[y])' = Graph(heap[y])
        BY <4>2, <4>3, <4>5, <1>4
      <4> QED BY <3>1, <4>1, <4>4, <4>5, <4>6
    <3> QED BY <3>2, <3>3
  <2>10. ASSUME NEW i \in FromCells, i # p
         PROVE  \/ IsNever(heap'[i]) /\ IsNever(heap[i])
                   /\ heap'[i + 1].payload = heap[i + 1].payload
                \/ ~IsNever(heap'[i]) /\ ~IsNever(heap[i])
    BY <2>4, <2>10
  <2> QED BY <1>7, <2>0, <2>8, <2>9, <2>10
<1> QED BY <1>2, <1>6, <1>7

(* A copy leaves the graph alone, if what is copied is reachable.          *)
LEMMA CopyRefines ==
  ASSUME Aligned, IInv, HInv, NEW c, NEW k, CopyStep(c, k), NameCopy,
         ~IsNever(c) => object[c.payload] \in ObjectMemory!Reachable,
         Graph(code)' = Graph(code), Graph(stack)' = Graph(stack),
         Graph(false)' = Graph(false), Graph(register)' = Graph(register),
         Graph(local)' = Graph(local), user' = user, result' = result,
         phase' \in {"code", "stack"} => phase \in {"code", "stack"} /\ stack' = stack
  PROVE  HInv' /\ UNCHANGED ObjectMemory!vars
<1>1. /\ Collecting /\ Collecting' /\ phase \in CollectorPhase
      /\ FromCells' = FromCells /\ GraphCells = FromCells /\ GraphCells' = FromCells
  BY DEF CopyStep, Collecting, CollectorPhase, FromCells, GraphCells
<1>2. /\ object' \in [0 .. HeapSize - 1 -> 0 .. Capacity]
      /\ \A i \in FromCells \cup Cells : object'[i] = object[i]
      /\ CopyMoves(c) => object'[AllocationEnd] = object[c.payload]
  BY CopyNames
<1>3. Named
  BY DEF HInv
<1>4. Named'
  BY <1>1, <1>2, <1>3 DEF Named
<1>5. Fields' = Fields
  BY <1>1, <1>2, <1>3, <1>4, CopyHomes, FieldsUnchanged
<1>6. Graph(IF user = "push" THEN local ELSE stack)'
        = Graph(IF user = "push" THEN local ELSE stack)
  <2>1. CASE user = "push"
    BY <2>1 DEF Graph
  <2>2. CASE user # "push"
    BY <2>2 DEF Graph
  <2> QED BY <2>1, <2>2
<1>7. UNCHANGED ObjectMemory!vars
  BY <1>1, <1>5, <1>6 DEF ObjectMemory!vars, ObjectMemory!roots, Collecting
<1>8. ObjectMemory!Reachable' = ObjectMemory!Reachable
  BY <1>7, ReachableUnchanged
<1>9. CopyStays(c) \/ CopyFollows(c) \/ CopyMoves(c)
  BY CopyConsCases DEF CopyStep
<1>10. Cells' = IF CopyMoves(c) THEN Cells \cup {AllocationEnd} ELSE Cells
  <2>1. CASE CopyMoves(c)
    BY <2>1 DEF CopyMoves
  <2>2. CASE ~CopyMoves(c)
    BY <2>2, <1>9 DEF CopyStays, CopyFollows, CopyStep, Cells
  <2> QED BY <2>1, <2>2
<1>11. CopyMoves(c) => ~IsNever(c) /\ c.payload \in FromCells /\ ~IsNever(heap[c.payload])
  BY DEF CopyMoves
<1>12. CopiesNamed'
  <2>1. ASSUME NEW i \in FromCells, IsNever(heap'[i])
        PROVE  object'[heap'[i + 1].payload] = object'[i]
    <3>1. CASE IsNever(heap[i]) /\ heap'[i + 1].payload = heap[i + 1].payload
      <4>1. heap[i + 1].payload \in Cells
        BY <1>1, <3>1, CollectorFacts DEF CopyInv, ForwardsInto, Cells
      <4>2. object[heap[i + 1].payload] = object[i]
        BY <1>1, <3>1 DEF HInv, CopiesNamed
      <4> QED BY <3>1, <4>1, <4>2, <1>2
    <3>2. CASE CopyMoves(c) /\ i = c.payload /\ heap'[i + 1].payload = AllocationEnd
      BY <3>2, <1>2
    <3> QED BY <2>1, <3>1, <3>2, CopyHomes
  <2>2. ASSUME NEW i \in Cells'
        PROVE  \E j \in FromCells : IsNever(heap'[j]) /\ heap'[j + 1].payload = i
    <3>1. CASE i \in Cells
      <4>1. PICK j \in FromCells : IsNever(heap[j]) /\ heap[j + 1].payload = i
        BY <1>1, <3>1 DEF HInv, CopiesNamed
      <4>2. IsNever(heap'[j]) /\ heap'[j + 1].payload = heap[j + 1].payload
        BY <4>1, <1>11, CopyHomes
      <4> QED BY <4>1, <4>2
    <3>2. CASE CopyMoves(c) /\ i = AllocationEnd
      BY <3>2, <1>11, CopyHomes
    <3> QED BY <2>2, <3>1, <3>2, <1>10
  <2> QED BY <1>1, <2>1, <2>2 DEF CopiesNamed, IsNever
<1>13. OnlyReachable'
  <2>1. ASSUME NEW i \in Cells'
        PROVE  object'[i] \in ObjectMemory!Reachable
    <3>1. CASE i \in Cells
      BY <3>1, <1>1, <1>2 DEF HInv, OnlyReachable
    <3>2. CASE CopyMoves(c) /\ i = AllocationEnd
      BY <3>2, <1>2, <1>11
    <3> QED BY <2>1, <3>1, <3>2, <1>10
  <2>2. ASSUME phase' \in {"code", "stack"}, ~IsNever(stack')
        PROVE  object'[stack'.payload] \in ObjectMemory!Reachable
    <3>1. phase \in {"code", "stack"} /\ stack' = stack
      BY <2>2
    <3>2. stack.payload \in FromCells
      BY <1>1, <2>2, <3>1, RootFacts DEF PointsInto
    <3> QED BY <1>1, <1>2, <2>2, <3>1, <3>2 DEF HInv, OnlyReachable
  <2> QED BY <1>8, <2>1, <2>2 DEF OnlyReachable, IsNever
<1> QED BY <1>1, <1>4, <1>7, <1>12, <1>13 DEF HInv

(* No root changes what it stands for, whichever of them is copied.        *)
LEMMA CopyRootsGraph ==
  ASSUME Aligned, IInv, HInv, NEW c, NEW k, CopyStep(c, k), NameCopy
  PROVE  LET new == CopyCons(c).cons
         IN  /\ code' = code \/ (code = c /\ code' = new) => Graph(code)' = Graph(code)
             /\ stack' = stack \/ (stack = c /\ stack' = new) => Graph(stack)' = Graph(stack)
             /\ false' = false \/ (false = c /\ false' = new) => Graph(false)' = Graph(false)
             /\ register' = register \/ (register = c /\ register' = new)
                  => Graph(register)' = Graph(register)
             /\ local' = local \/ (local = c /\ local' = new) => Graph(local)' = Graph(local)
<1>1. PICK new : new = CopyCons(c).cons
  OBVIOUS
<1>2. Graph(new)' = Graph(c)
  BY <1>1, CopyGraph
<1>3. \A v \in Value : PointsInto(v, FromCells) \/ PointsInto(v, Cells)
                         => Graph(v)' = Graph(v)
  BY CopyGraph
<1>4. \A v \in {code, stack, false, register, local} :
        v \in Value /\ (PointsInto(v, FromCells) \/ PointsInto(v, Cells))
  BY RootFacts DEF CopyStep
<1>5. ASSUME NEW r \in {code, stack, false, register, local},
             NEW s, s = r \/ (r = c /\ s = new)
      PROVE  Graph(s)' = Graph(r)
  BY <1>2, <1>3, <1>4, <1>5
<1>6. ASSUME code' = code \/ (code = c /\ code' = new)
      PROVE  Graph(code)' = Graph(code)
  <2>1. PICK s : s = code'
    OBVIOUS
  <2> QED BY <1>5, <1>6, <2>1 DEF Graph
<1>7. ASSUME stack' = stack \/ (stack = c /\ stack' = new)
      PROVE  Graph(stack)' = Graph(stack)
  <2>1. PICK s : s = stack'
    OBVIOUS
  <2> QED BY <1>5, <1>7, <2>1 DEF Graph
<1>8. ASSUME false' = false \/ (false = c /\ false' = new)
      PROVE  Graph(false)' = Graph(false)
  <2>1. PICK s : s = false'
    OBVIOUS
  <2> QED BY <1>5, <1>8, <2>1 DEF Graph
<1>9. ASSUME register' = register \/ (register = c /\ register' = new)
      PROVE  Graph(register)' = Graph(register)
  <2>1. PICK s : s = register'
    OBVIOUS
  <2> QED BY <1>5, <1>9, <2>1 DEF Graph
<1>10. ASSUME local' = local \/ (local = c /\ local' = new)
       PROVE  Graph(local)' = Graph(local)
  <2>1. PICK s : s = local'
    OBVIOUS
  <2> QED BY <1>5, <1>10, <2>1 DEF Graph
<1> QED BY <1>1, <1>6, <1>7, <1>8, <1>9, <1>10

(* A pointer to one of the conses the collection started from reaches it.  *)
LEMMA PointerReaches ==
  ASSUME Named, Collecting, NEW c, c.cons, PointsInto(c, FromCells), ~IsNever(c),
         Reaches(Graph(c))
  PROVE  object[c.payload] \in ObjectMemory!Reachable
<1>1. c.payload \in GraphCells
  BY DEF PointsInto, GraphCells
<1>2. object[c.payload] # 0 /\ object[c.payload] \in DOMAIN Fields
  BY <1>1, FieldsFacts DEF Named, FieldsOfConses
<1>3. /\ Graph(c) = [object |-> object[c.payload], tag |-> c.tag]
      /\ ObjectMemory!IsPointer(Graph(c))
  BY DEF Graph, ObjectMemory!IsPointer
<1> QED BY <1>2, <1>3 DEF Reaches

(* The copy of a root.                                                     *)
LEMMA CopyRootStep ==
  ASSUME Aligned, IInv, NEW c \in Value, c.cons, PointsInto(c, FromCells),
         NEW here \in CollectorPhase \ {"scan"}, NEW next \in CollectorPhase,
         CopyRoot(here, next, CopyCons(c))
  PROVE  /\ CopyStep(c, -1)
         /\ phase = here /\ phase' = next /\ user' = user /\ result' = result
<1>1. /\ phase = here /\ heap' = CopyCons(c).heap /\ allocationIndex' = CopyCons(c).index
      /\ space' = space /\ fromIndex' = fromIndex /\ user' = user /\ result' = result
      /\ phase' = IF CopyCons(c).ok THEN next ELSE "failed"
  BY DEF CopyRoot
<1>2. CopyCons(c).ok
  BY <1>1, CollectorFacts, CopyConsPreserves DEF IInv
<1>3. -1 \notin 0 .. HeapSize - 1 /\ \A j \in 0 .. HeapSize - 1 : j # -1
  BY MemoryAssumption
<1> QED BY <1>1, <1>2, <1>3 DEF CopyStep

(* Each of the roots in turn: it is reachable because it is a root.        *)
LEMMA CopyCodeRefines ==
  ASSUME Aligned, IInv, HInv, CopyCode, NameCopy
  PROVE  HInv' /\ UNCHANGED ObjectMemory!vars
<1>1. /\ CopyRoot("code", "stack", CopyCons(code)) /\ code' = CopyCons(code).cons
      /\ stack' = stack /\ false' = false /\ register' = register /\ local' = local
      /\ phase = "code" /\ Collecting
      /\ "code" \in CollectorPhase \ {"scan"} /\ "stack" \in CollectorPhase
  BY DEF CopyCode, CopyRoot, Collecting, CollectorPhase
<1>2. code \in Value /\ code.cons /\ PointsInto(code, FromCells)
  BY <1>1, RootFacts
<1>3. CopyStep(code, -1) /\ user' = user /\ result' = result
  BY <1>1, <1>2, CopyRootStep
<1>4. ~IsNever(code) => object[code.payload] \in ObjectMemory!Reachable
  BY <1>1, <1>2, ReachableRules, PointerReaches DEF RootsAndFieldsReach, HInv
<1> QED BY <1>1, <1>3, <1>4, CopyRootsGraph, CopyRefines

LEMMA CopyStackRefines ==
  ASSUME Aligned, IInv, HInv, CopyStack, NameCopy
  PROVE  HInv' /\ UNCHANGED ObjectMemory!vars
<1>1. /\ CopyRoot("stack", "false", CopyCons(stack)) /\ stack' = CopyCons(stack).cons
      /\ code' = code /\ false' = false /\ register' = register /\ local' = local
      /\ phase = "stack" /\ Collecting
      /\ "stack" \in CollectorPhase \ {"scan"} /\ "false" \in CollectorPhase
  BY DEF CopyStack, CopyRoot, Collecting, CollectorPhase
<1>2. stack \in Value /\ stack.cons /\ PointsInto(stack, FromCells)
  BY <1>1, RootFacts
<1>3. CopyStep(stack, -1) /\ user' = user /\ result' = result /\ phase' = "false"
  BY <1>1, <1>2, CopyRootStep
<1>4. ~IsNever(stack) => object[stack.payload] \in ObjectMemory!Reachable
  BY <1>1 DEF HInv, OnlyReachable
<1> QED BY <1>1, <1>3, <1>4, CopyRootsGraph, CopyRefines

LEMMA CopyFalseRefines ==
  ASSUME Aligned, IInv, HInv, CopyFalse, NameCopy
  PROVE  HInv' /\ UNCHANGED ObjectMemory!vars
<1>1. /\ CopyRoot("false", "register", CopyCons(false)) /\ false' = CopyCons(false).cons
      /\ code' = code /\ stack' = stack /\ register' = register /\ local' = local
      /\ phase = "false" /\ Collecting
      /\ "false" \in CollectorPhase \ {"scan"} /\ "register" \in CollectorPhase
  BY DEF CopyFalse, CopyRoot, Collecting, CollectorPhase
<1>2. false \in Value /\ false.cons /\ PointsInto(false, FromCells)
  BY <1>1, RootFacts
<1>3. CopyStep(false, -1) /\ user' = user /\ result' = result /\ phase' = "register"
  BY <1>1, <1>2, CopyRootStep
<1>4. ~IsNever(false) => object[false.payload] \in ObjectMemory!Reachable
  BY <1>1, <1>2, ReachableRules, PointerReaches DEF RootsAndFieldsReach, HInv
<1> QED BY <1>1, <1>3, <1>4, CopyRootsGraph, CopyRefines

LEMMA CopyRegisterRefines ==
  ASSUME Aligned, IInv, HInv, CopyRegister, NameCopy
  PROVE  HInv' /\ UNCHANGED ObjectMemory!vars
<1>1. /\ CopyRoot("register", "local", CopyCons(register))
      /\ register' = CopyCons(register).cons
      /\ code' = code /\ stack' = stack /\ false' = false /\ local' = local
      /\ phase = "register" /\ Collecting
      /\ "register" \in CollectorPhase \ {"scan"} /\ "local" \in CollectorPhase
  BY DEF CopyRegister, CopyRoot, Collecting, CollectorPhase
<1>2. register \in Value /\ register.cons /\ PointsInto(register, FromCells)
  BY <1>1, RootFacts
<1>3. CopyStep(register, -1) /\ user' = user /\ result' = result /\ phase' = "local"
  BY <1>1, <1>2, CopyRootStep
<1>4. ~IsNever(register) => object[register.payload] \in ObjectMemory!Reachable
  BY <1>1, <1>2, ReachableRules, PointerReaches DEF RootsAndFieldsReach, HInv
<1> QED BY <1>1, <1>3, <1>4, CopyRootsGraph, CopyRefines

LEMMA CopyLocalRefines ==
  ASSUME Aligned, IInv, HInv, CopyLocal, NameCopy
  PROVE  HInv' /\ UNCHANGED ObjectMemory!vars
<1>1. /\ CopyRoot("local", "scan", CopyCons(local)) /\ local' = CopyCons(local).cons
      /\ code' = code /\ stack' = stack /\ false' = false /\ register' = register
      /\ phase = "local" /\ Collecting
      /\ "local" \in CollectorPhase \ {"scan"} /\ "scan" \in CollectorPhase
  BY DEF CopyLocal, CopyRoot, Collecting, CollectorPhase, rootVars
<1>2. local \in Value /\ local.cons /\ PointsInto(local, FromCells)
  BY <1>1, RootFacts
<1>3. CopyStep(local, -1) /\ user' = user /\ result' = result /\ phase' = "scan"
  BY <1>1, <1>2, CopyRootStep
<1>4. ~IsNever(local) => object[local.payload] \in ObjectMemory!Reachable
  BY <1>1, <1>2, ReachableRules, PointerReaches DEF RootsAndFieldsReach, HInv
<1> QED BY <1>1, <1>3, <1>4, CopyRootsGraph, CopyRefines

(* A step that the graph does not see changes nothing it is made of.       *)
LEMMA NothingChanges ==
  ASSUME HInv, UNCHANGED <<rootVars, spaceVars, heap, result, local, user, phase,
                           fromIndex, object>>
  PROVE  HInv' /\ UNCHANGED ObjectMemory!vars
<1>1. /\ code' = code /\ stack' = stack /\ false' = false /\ register' = register
      /\ allocationIndex' = allocationIndex /\ space' = space /\ heap' = heap
      /\ result' = result /\ local' = local /\ user' = user /\ phase' = phase
      /\ fromIndex' = fromIndex /\ object' = object
  BY DEF rootVars, spaceVars
<1>2. /\ Cells' = Cells /\ FromCells' = FromCells /\ Collecting' = Collecting
      /\ GraphCells' = GraphCells
  BY <1>1 DEF Cells, FromCells, Collecting, GraphCells
<1>3. \A v : Graph(v)' = Graph(v)
  BY <1>1 DEF Graph
<1>4. Named'
  BY <1>1, <1>2 DEF HInv, Named
<1>5. ASSUME NEW i \in GraphCells
      PROVE  /\ Graph(heap[Home(i)])' = Graph(heap[Home(i)])
             /\ Graph(heap[Home(i) + 1])' = Graph(heap[Home(i) + 1])
  <2>1. PICK x : x = Home(i)
    OBVIOUS
  <2>2. Home(i)' = x
    BY <2>1, <1>1, <1>2 DEF Home, IsNever
  <2> QED BY <2>1, <2>2, <1>1 DEF Graph
<1>6. Fields' = Fields
  BY <1>1, <1>2, <1>4, <1>5, FieldsUnchanged DEF HInv
<1>7. UNCHANGED ObjectMemory!vars
  BY <1>1, <1>2, <1>6 DEF ObjectMemory!vars, ObjectMemory!roots, Graph
<1>8. ObjectMemory!Reachable' = ObjectMemory!Reachable
  BY <1>7, ReachableUnchanged
<1>9. CopiesNamed' /\ OnlyReachable'
  BY <1>1, <1>2, <1>8 DEF HInv, CopiesNamed, OnlyReachable, IsNever
<1> QED BY <1>1, <1>2, <1>4, <1>7, <1>9 DEF HInv

(* The fields of a cons that has moved are those of its copy.              *)
LEMMA CopyFields ==
  ASSUME HInv, Collecting
  PROVE  /\ \A i \in Cells :
              /\ object[i] # 0 /\ object[i] \in DOMAIN Fields
              /\ Fields[object[i]] = [car |-> Graph(heap[i]), cdr |-> Graph(heap[i + 1])]
         /\ \A i, j \in Cells : object[i] = object[j] => i = j
<1>1. GraphCells = FromCells /\ Named /\ FieldsOfConses
  BY FieldsFacts DEF GraphCells, HInv
<1>2. \A i \in Cells : \E j \in FromCells :
        /\ IsNever(heap[j]) /\ heap[j + 1].payload = i /\ object[i] = object[j]
  BY DEF HInv, CopiesNamed
<1>3. ASSUME NEW i \in Cells
      PROVE  /\ object[i] # 0 /\ object[i] \in DOMAIN Fields
             /\ Fields[object[i]] = [car |-> Graph(heap[i]), cdr |-> Graph(heap[i + 1])]
  <2>1. PICK j \in FromCells :
          /\ IsNever(heap[j]) /\ heap[j + 1].payload = i /\ object[i] = object[j]
    BY <1>2
  <2>2. Home(j) = i
    BY <2>1 DEF Home
  <2> QED BY <1>1, <2>1, <2>2 DEF Named, FieldsOfConses
<1>4. \A i, j \in Cells : object[i] = object[j] => i = j
  BY <1>1, <1>2 DEF Named
<1> QED BY <1>3, <1>4

(* A value in the space being filled is a field of a cons.                 *)
LEMMA FieldOfCell ==
  ASSUME IInv, NEW k \in AllocationStart .. AllocationEnd - 1
  PROVE  \E i \in Cells : k = i \/ k = i + 1
<1>1. /\ AllocationStart = SpaceStart(space) /\ AllocationStart \in Nat
      /\ AllocationEnd = AllocationStart + allocationIndex
      /\ allocationIndex \in Nat /\ allocationIndex % 2 = 0
  BY TypeFacts DEF IInv, Bounds
<1>2. PICK start, n : start = AllocationStart /\ n = allocationIndex
  OBVIOUS
<1>3. /\ start \in Nat /\ n \in Nat /\ n % 2 = 0 /\ k \in start .. start + n - 1
  BY <1>1, <1>2
<1>4. \/ (k - start) % 2 = 0
      \/ ((k - 1) - start) % 2 = 0 /\ k - 1 \in start .. start + n - 1
  <2>1. PICK d : d = k - start
    OBVIOUS
  <2>2. d \in Nat /\ d < n /\ k = start + d
    BY <1>3, <2>1
  <2>3. d % 2 = 0 \/ (d >= 1 /\ (d - 1) % 2 = 0)
    BY <2>2
  <2>4. (k - 1) - start = d - 1
    BY <1>3, <2>2
  <2> QED BY <1>3, <2>1, <2>2, <2>3, <2>4
<1>5. Cells = {i \in start .. start + n - 1 : (i - start) % 2 = 0}
  BY <1>1, <1>2 DEF Cells, CellsOf
<1>6. k = (k - 1) + 1
  BY <1>3
<1> QED BY <1>3, <1>4, <1>5, <1>6

(* A field of a copy: what it points to is reachable, through the copy.    *)
LEMMA ScanRefines ==
  ASSUME Aligned, IInv, HInv, Scan, NameCopy
  PROVE  HInv' /\ UNCHANGED ObjectMemory!vars
<1>1. PICK c : c = heap[scan]
  OBVIOUS
<1>2. /\ phase = "scan" /\ scan < AllocationEnd
      /\ code' = code /\ stack' = stack /\ false' = false /\ register' = register
      /\ local' = local /\ user' = user /\ result' = result
      /\ space' = space /\ fromIndex' = fromIndex
      /\ \/ ~c.cons /\ phase' = phase /\ heap' = heap /\ allocationIndex' = allocationIndex
         \/ /\ c.cons
            /\ phase' = IF CopyCons(c).ok THEN phase ELSE "failed"
            /\ heap' = [CopyCons(c).heap EXCEPT ![scan] = CopyCons(c).cons]
            /\ allocationIndex' = CopyCons(c).index
  BY <1>1 DEF Scan, rootVars
<1>3. phase \in CollectorPhase /\ Collecting
  BY <1>2 DEF CollectorPhase, Collecting
<1>4. CASE ~c.cons
  <2>1. object' = object
    BY <1>2, <1>4 DEF NameCopy
  <2> QED BY <1>2, <1>4, <2>1, NothingChanges DEF rootVars, spaceVars
<1>5. CASE c.cons
  <2>1. /\ CopyInv(heap, allocationIndex, Scanned) /\ Scanned = scan
        /\ Scanned \in Int /\ AllocationStart <= Scanned /\ Scanned <= AllocationEnd
        /\ AllocationStart \in Nat /\ AllocationEnd \in Nat
        /\ AllocationEnd = AllocationStart + allocationIndex /\ allocationIndex \in Nat
    BY <1>2, <1>3, CollectorFacts, TypeFacts DEF IInv, Scanned
  <2>2. scan \in AllocationStart .. AllocationEnd - 1
    BY <1>2, <2>1
  <2>3. scan \in 0 .. HeapSize - 1
    BY <1>3, <2>2, SpacesApart
  <2>4. c \in Value
    <3>1. heap \in [0 .. HeapSize - 1 -> Value]
      BY <2>1 DEF CopyInv, HeapType
    <3> QED BY <1>1, <2>3, <3>1
  <2>5. PointsInto(c, FromCells)
    <3>1. scan \in AllocationStart .. AllocationStart + allocationIndex - 1
      BY <2>1, <2>2
    <3>2. ~(scan < Scanned)
      BY <2>1
    <3> QED BY <1>1, <2>1, <3>1, <3>2 DEF CopyInv, CopiesPoint
  <2>6. CopyCons(c).ok /\ HeapType(CopyCons(c).heap)
    BY <1>5, <2>1, <2>4, <2>5, CopyConsPreserves DEF IInv, CopyInv
  <2>7. \A j \in 0 .. HeapSize - 1 :
          heap'[j] = IF j = scan THEN CopyCons(c).cons ELSE CopyCons(c).heap[j]
    BY <1>2, <1>5, <2>3, <2>6 DEF HeapType
  <2>8. CopyStep(c, scan)
    BY <1>1, <1>2, <1>3, <1>5, <2>2, <2>4, <2>5, <2>6, <2>7 DEF CopyStep
  <2>9. ~IsNever(c) => object[c.payload] \in ObjectMemory!Reachable
    <3>1. PICK i \in Cells : scan = i \/ scan = i + 1
      BY <2>2, FieldOfCell
    <3>2. /\ object[i] \in ObjectMemory!Reachable
          /\ Fields[object[i]] = [car |-> Graph(heap[i]), cdr |-> Graph(heap[i + 1])]
      BY <1>3, <3>1, CopyFields DEF HInv, OnlyReachable
    <3>3. Reaches(Graph(heap[i])) /\ Reaches(Graph(heap[i + 1]))
      BY <3>2, ReachableRules DEF RootsAndFieldsReach
    <3>4. Reaches(Graph(c))
      BY <1>1, <3>1, <3>3
    <3> QED BY <1>3, <1>5, <2>5, <3>4, PointerReaches DEF HInv
  <2>10. /\ Graph(code)' = Graph(code) /\ Graph(stack)' = Graph(stack)
         /\ Graph(false)' = Graph(false) /\ Graph(register)' = Graph(register)
         /\ Graph(local)' = Graph(local)
    BY <1>2, <2>8, CopyRootsGraph
  <2>11. phase' \notin {"code", "stack"}
    BY <1>2, <1>5, <2>6
  <2> QED BY <1>2, <2>8, <2>9, <2>10, <2>11, CopyRefines
<1> QED BY <1>4, <1>5

(* Where a scanned value points to has been copied, so that is all a root  *)
(* reaches, and all that Finish leaves.                                    *)
LEMMA ScannedIsReachable ==
  ASSUME Aligned, IInv, HInv, phase = "scan", scan >= AllocationEnd
  PROVE  ObjectMemory!Reachable = {object[i] : i \in Cells}
<1> DEFINE S == {object[i] : i \in Cells}
<1>1. phase \in CollectorPhase /\ Collecting
  BY DEF CollectorPhase, Collecting
<1>2. S \subseteq ObjectMemory!Reachable
  BY <1>1 DEF HInv, OnlyReachable
<1>3. \A v : PointsInto(v, Cells) => ObjectMemory!Pointers({Graph(v)}) \subseteq S
  BY DEF PointsInto, Graph, ObjectMemory!Pointers, ObjectMemory!IsPointer
<1>4. \A u, v : ObjectMemory!Pointers({u, v})
                  = ObjectMemory!Pointers({u}) \cup ObjectMemory!Pointers({v})
  BY DEF ObjectMemory!Pointers
<1>5. \A v \in {code, stack, false, register, local} : PointsInto(v, Cells)
  <2>1. /\ "scan" \notin {"code", "stack", "false"} /\ "scan" \in {"local", "scan"}
        /\ "scan" \notin {"code", "stack"} /\ "scan" # "code"
    OBVIOUS
  <2> QED BY <1>1, <2>1, RootFacts
<1>6. \A i \in Cells : PointsInto(heap[i], Cells) /\ PointsInto(heap[i + 1], Cells)
  <2>1. /\ CopiesPoint(heap, allocationIndex, scan) /\ scan \in Int
        /\ AllocationStart \in Nat /\ AllocationEnd \in Nat
        /\ AllocationEnd = AllocationStart + allocationIndex /\ allocationIndex \in Nat
    BY <1>1, CollectorFacts, TypeFacts DEF IInv, Scanned, CopyInv
  <2>2. \A k \in AllocationStart .. AllocationEnd - 1 : PointsInto(heap[k], Cells)
    <3>1. \A k \in AllocationStart .. AllocationEnd - 1 :
            k \in AllocationStart .. AllocationStart + allocationIndex - 1 /\ k < scan
      BY <2>1
    <3> QED BY <2>1, <3>1 DEF CopiesPoint, Cells
  <2> QED BY <2>2, CellsFacts DEF IInv
<1>7. S \subseteq DOMAIN Fields
  BY <1>1, CopyFields
<1>8. ObjectMemory!Pointers({Graph(code), Graph(IF user = "push" THEN local ELSE stack),
                             Graph(false), Graph(register), Graph(local)}) \subseteq S
  <2>1. \A v \in {code, IF user = "push" THEN local ELSE stack, false, register, local} :
          ObjectMemory!Pointers({Graph(v)}) \subseteq S
    BY <1>3, <1>5
  <2> QED BY <2>1 DEF ObjectMemory!Pointers
<1>9. \A o \in S : ObjectMemory!Pointers({Fields[o].car, Fields[o].cdr}) \subseteq S
  <2> TAKE o \in S
  <2>1. PICK i \in Cells : o = object[i]
    OBVIOUS
  <2>2. Fields[o] = [car |-> Graph(heap[i]), cdr |-> Graph(heap[i + 1])]
    BY <1>1, <2>1, CopyFields
  <2>3. /\ ObjectMemory!Pointers({Graph(heap[i])}) \subseteq S
        /\ ObjectMemory!Pointers({Graph(heap[i + 1])}) \subseteq S
    BY <1>3, <1>6
  <2>4. PICK u, v : u = Graph(heap[i]) /\ v = Graph(heap[i + 1])
    OBVIOUS
  <2>5. Fields[o].car = u /\ Fields[o].cdr = v
    BY <2>2, <2>4
  <2>6. ObjectMemory!Pointers({u, v}) = ObjectMemory!Pointers({u}) \cup ObjectMemory!Pointers({v})
    BY <1>4
  <2> HIDE DEF S
  <2>7. ObjectMemory!Pointers({u}) \subseteq S /\ ObjectMemory!Pointers({v}) \subseteq S
    BY <2>3, <2>4
  <2>8. ObjectMemory!Pointers({u, v}) \subseteq S
    BY <2>6, <2>7
  <2> QED BY <2>5, <2>8
<1> HIDE DEF S
<1>10. ObjectMemory!Reachable \subseteq S
  BY <1>7, <1>8, <1>9, ReachableLeast DEF ObjectMemory!Closed
<1> QED BY <1>2, <1>10 DEF S

LEMMA FinishRefines ==
  ASSUME Aligned, IInv, HInv, Finish, NameCopy
  PROVE  HInv' /\ ObjectMemory!Collect
<1>1. /\ phase = "scan" /\ scan >= AllocationEnd /\ phase' = "mutator" /\ user' = "none"
      /\ stack' = (IF user = "push" THEN local ELSE stack)
      /\ code' = code /\ false' = false /\ register' = register /\ local' = local
      /\ allocationIndex' = allocationIndex /\ space' = space /\ heap' = heap
      /\ result' = result
      /\ object' = [i \in DOMAIN object |-> IF i \in Cells THEN object[i] ELSE 0]
  BY DEF Finish, NameCopy, spaceVars
<1>2. /\ phase \in CollectorPhase /\ Collecting /\ ~Collecting'
      /\ Cells' = Cells /\ GraphCells' = Cells
  BY <1>1 DEF CollectorPhase, Collecting, Cells, GraphCells
<1>3. /\ object \in [0 .. HeapSize - 1 -> 0 .. Capacity]
      /\ \A i \in Cells : i \in 0 .. HeapSize - 1 /\ i # 1
  BY <1>2, SpacesApart, CellsFacts DEF HInv, Named, IInv
<1>4. \A i \in Cells : object'[i] = object[i]
  BY <1>1, <1>3
<1>5. /\ \A i \in Cells :
           /\ object[i] # 0 /\ object[i] \in DOMAIN Fields
           /\ Fields[object[i]] = [car |-> Graph(heap[i]), cdr |-> Graph(heap[i + 1])]
      /\ \A i, j \in Cells : object[i] = object[j] => i = j
  BY <1>2, CopyFields
<1>6. object' \in [0 .. HeapSize - 1 -> 0 .. Capacity]
  <2>1. Capacity \in Nat
    BY SpaceSizeFacts DEF Capacity
  <2>2. PICK n : n = Capacity
    OBVIOUS
  <2> QED BY <1>1, <1>3, <2>1, <2>2
<1>7. Named'
  <2>1. \A i \in GraphCells' : object'[i] # 0
    BY <1>2, <1>4, <1>5
  <2>2. \A i, j \in GraphCells' : object'[i] = object'[j] => i = j
    BY <1>2, <1>4, <1>5
  <2> QED BY <1>6, <2>1, <2>2 DEF Named
<1>8. HInv'
  BY <1>1, <1>2, <1>7 DEF HInv, CopiesNamed, OnlyReachable
<1>9. ObjectMemory!Reachable = {object[i] : i \in Cells}
  BY <1>1, ScannedIsReachable
<1>10. /\ DOMAIN Fields' = {object'[i] : i \in Cells}
       /\ Fields' = [o \in DOMAIN Fields' |-> Fields'[o]]
       /\ \A i \in Cells :
            Fields'[object'[i]] = [car |-> Graph(heap[Home(i)])',
                                   cdr |-> Graph(heap[Home(i) + 1])']
  <2>1. FieldsOfConses'
    BY <1>7, FieldsFacts, PTL
  <2> QED BY <2>1, <1>2 DEF FieldsOfConses
<1>11. DOMAIN Fields' = ObjectMemory!Reachable
  BY <1>4, <1>9, <1>10
<1>12. ASSUME NEW v, PointsInto(v, Cells)
       PROVE  Graph(v)' = Graph(v)
  BY <1>4, <1>12 DEF Graph, PointsInto
<1>13. \A v \in {code, stack, false, register, local} : PointsInto(v, Cells)
  <2>1. /\ "scan" \notin {"code", "stack", "false"} /\ "scan" \in {"local", "scan"}
        /\ "scan" \notin {"code", "stack"} /\ "scan" # "code"
    OBVIOUS
  <2> QED BY <1>1, <1>2, <2>1, RootFacts
<1>14. \A i \in Cells : PointsInto(heap[i], Cells) /\ PointsInto(heap[i + 1], Cells)
  <2>1. IInv'
    BY FinishPreserves
  <2>2. PointersValid'
    BY <2>1 DEF IInv
  <2> QED BY <1>1, <1>2, <2>2 DEF PointersValid, PointsInto, IsNever
<1>15. \A o \in DOMAIN Fields' : Fields'[o] = Fields[o]
  <2> TAKE o \in DOMAIN Fields'
  <2>1. PICK i \in Cells : o = object'[i]
    BY <1>10
  <2>2. Home(i)' = i
    BY <1>2 DEF Home
  <2>3. Graph(heap[i])' = Graph(heap[i])
    <3>1. PICK v : v = heap[i]
      OBVIOUS
    <3>2. Graph(v)' = Graph(v)
      BY <3>1, <1>12, <1>14
    <3> QED BY <1>1, <3>1, <3>2 DEF Graph
  <2>4. Graph(heap[i + 1])' = Graph(heap[i + 1])
    <3>1. PICK v : v = heap[i + 1]
      OBVIOUS
    <3>2. Graph(v)' = Graph(v)
      BY <3>1, <1>12, <1>14
    <3> QED BY <1>1, <3>1, <3>2 DEF Graph
  <2>5. Fields'[o] = [car |-> Graph(heap[i])', cdr |-> Graph(heap[i + 1])']
    BY <1>10, <2>1, <2>2
  <2>6. Fields[o] = [car |-> Graph(heap[i]), cdr |-> Graph(heap[i + 1])]
    BY <1>4, <1>5, <2>1
  <2> QED BY <2>3, <2>4, <2>5, <2>6
<1>16. Fields' = ObjectMemory!Restrict(Fields, ObjectMemory!Reachable)
  BY <1>10, <1>11, <1>15 DEF ObjectMemory!Restrict
<1>17. \A v \in {code, stack, false, register, local} : Graph(v)' = Graph(v)
  BY <1>12, <1>13
<1>18. /\ Graph(code)' = Graph(code) /\ Graph(false)' = Graph(false)
       /\ Graph(register)' = Graph(register) /\ Graph(local)' = Graph(local)
  BY <1>1, <1>17 DEF Graph
<1>19. Graph(IF user = "push" THEN local ELSE stack)'
         = Graph(IF user = "push" THEN local ELSE stack)
  <2>1. PICK v : v = (IF user = "push" THEN local ELSE stack)
    OBVIOUS
  <2>2. Graph(v)' = Graph(v)
    BY <1>17, <2>1
  <2> QED BY <1>1, <2>1, <2>2 DEF Graph
<1> QED BY <1>1, <1>2, <1>8, <1>16, <1>18, <1>19
        DEF ObjectMemory!Collect, ObjectMemory!roots

(* Each step of a collection but the last is invisible in the graph.       *)
LEMMA CollectorRefines ==
  ASSUME Aligned, IInv, HInv, Collector, NameCopy
  PROVE  HInv' /\ (ObjectMemory!Collect \/ UNCHANGED ObjectMemory!vars)
BY CopyCodeRefines, CopyStackRefines, CopyFalseRefines, CopyRegisterRefines,
   CopyLocalRefines, ScanRefines, FinishRefines DEF Collector

-----------------------------------------------------------------------------
(* The refinement. *)

(* Memory::new builds the graph of the two conses of #f,                   *)
LEMMA InitRefines ==
  ASSUME Aligned, HInit
  PROVE  HInv /\ ObjectMemory!Init
<1>1. /\ code = NEVER /\ stack = NEVER /\ register = NEVER /\ local = NEVER
      /\ false = Cons(2, Pair) /\ result = "ok" /\ user = "none" /\ phase = "mutator"
  BY DEF HInit, Init
<1>2. /\ Cells = {0, 2}
      /\ \A k \in 0 .. HeapSize - 1 :
           heap[k] = IF k \in {2, 3} THEN Cons(0, Pair) ELSE FromNumber(0)
  BY InitFacts DEF HInit
<1>3. /\ 0 \in 0 .. HeapSize - 1 /\ 1 \in 0 .. HeapSize - 1
      /\ 2 \in 0 .. HeapSize - 1 /\ 3 \in 0 .. HeapSize - 1
  BY MemoryAssumption
<1>4. /\ heap[0] = FromNumber(0) /\ heap[0 + 1] = FromNumber(0)
      /\ heap[2] = Cons(0, Pair) /\ heap[2 + 1] = Cons(0, Pair)
  BY <1>2, <1>3
<1>5. object = [i \in 0 .. HeapSize - 1 |-> IF i = 0 THEN 1 ELSE IF i = 2 THEN 2 ELSE 0]
  BY DEF HInit
<1>6. object[0] = 1 /\ object[2] = 2
  BY <1>3, <1>5
<1>7. ~Collecting /\ GraphCells = {0, 2}
  BY <1>1, <1>2 DEF Collecting, GraphCells
<1>8. Named
  <2>1. Capacity \in Nat /\ Capacity >= 2
    BY SpaceSizeFacts DEF Capacity, Aligned
  <2>2. 0 \in 0 .. Capacity /\ 1 \in 0 .. Capacity /\ 2 \in 0 .. Capacity
    BY <2>1
  <2>3. object \in [0 .. HeapSize - 1 -> 0 .. Capacity]
    BY <1>5, <2>2
  <2> QED BY <1>6, <1>7, <2>3 DEF Named
<1>9. HInv
  BY <1>1, <1>7, <1>8 DEF HInv, CopiesNamed, OnlyReachable
<1>10. /\ Graph(NEVER) = ObjectMemory!NEVER
       /\ Graph(Cons(2, Pair)) = ObjectMemory!Pointer(2, 0)
       /\ Graph(Cons(0, Pair)) = ObjectMemory!Pointer(1, 0)
       /\ Graph(FromNumber(0)) = ObjectMemory!FromNumber(0)
  BY <1>6 DEF Graph, NEVER, Cons, FromNumber, IsNever, Pair, ObjectMemory!NEVER,
              ObjectMemory!Pointer, ObjectMemory!FromNumber
<1>11. /\ DOMAIN Fields = {1, 2} /\ Fields = [o \in DOMAIN Fields |-> Fields[o]]
       /\ Fields[1] = [car |-> Graph(FromNumber(0)), cdr |-> Graph(FromNumber(0))]
       /\ Fields[2] = [car |-> Graph(Cons(0, Pair)), cdr |-> Graph(Cons(0, Pair))]
  <2>1. Home(0) = 0 /\ Home(2) = 2
    BY <1>7 DEF Home
  <2>2. FieldsOfConses
    BY <1>8, FieldsFacts
  <2> QED BY <1>4, <1>6, <1>7, <2>1, <2>2 DEF FieldsOfConses
<1>12. Fields = [o \in {1, 2} |->
                   IF o = 1
                   THEN [car |-> ObjectMemory!FromNumber(0), cdr |-> ObjectMemory!FromNumber(0)]
                   ELSE [car |-> ObjectMemory!Pointer(1, 0), cdr |-> ObjectMemory!Pointer(1, 0)]]
  BY <1>10, <1>11
<1> QED BY <1>1, <1>7, <1>9, <1>10, <1>12 DEF ObjectMemory!Init

(* and every step keeps the invariant and is a step of the graph, or none. *)
LEMMA NextRefines ==
  ASSUME Aligned, IInv, HInv, [HNext]_historyVars
  PROVE  IInv' /\ HInv' /\ [ObjectMemory!Next]_(ObjectMemory!vars)
<1>1. [Next]_vars
  BY DEF HNext, Next, historyVars
<1>2. IInv'
  BY <1>1, NextIInv
<1>3. CASE Allocation /\ NameNew
  BY <1>2, <1>3, AllocationRefines DEF ObjectMemory!Next
<1>4. CASE Mutation /\ UNCHANGED object
  BY <1>2, <1>4, MutationRefines DEF ObjectMemory!Next
<1>5. CASE Collector /\ NameCopy
  BY <1>2, <1>5, CollectorRefines DEF ObjectMemory!Next
<1>6. CASE UNCHANGED historyVars
  BY <1>2, <1>6, NothingChanges DEF historyVars, vars, rootVars, spaceVars, collectorVars
<1> QED BY <1>3, <1>4, <1>5, <1>6 DEF HNext

LEMMA HistoryInvariance ==
  ASSUME Aligned
  PROVE  HSpec => [](IInv /\ HInv)
<1>1. HInit => IInv /\ HInv
  BY InitIInv, InitRefines DEF HInit
<1>2. IInv /\ HInv /\ [HNext]_historyVars => (IInv /\ HInv)'
  BY NextRefines
<1> QED BY <1>1, <1>2, PTL DEF HSpec

(* The memory behaves as a graph of conses that have an identity: its      *)
(* collector moves conses and changes or loses no field and no cons the    *)
(* roots reach, and an allocation is refused only when the memory is full. *)
THEOREM MemoryRefinesObjectGraph ==
  ASSUME Aligned
  PROVE  HSpec => ObjectMemory!SafeSpec
<1>1. HInit => ObjectMemory!Init
  BY InitRefines
<1>2. IInv /\ HInv /\ [HNext]_historyVars => [ObjectMemory!Next]_(ObjectMemory!vars)
  BY NextRefines
<1> QED BY <1>1, <1>2, HistoryInvariance, PTL DEF HSpec, ObjectMemory!SafeSpec

(* A collection copies exactly the conses the program can still reach, and *)
(* as long as the memory is full nothing else changes which conses it has: *)
(* when an allocation is refused, all of them were live at the end of the  *)
(* last collection, the one that ran when the memory had been filled.      *)
THEOREM RefusedAlwaysAllWereLive ==
  ASSUME Aligned
  PROVE  HSpec => RefusedOnlyIfAllWereLive
<1>1. [ObjectMemory!Next]_(ObjectMemory!vars)
        => [ObjectMemory!Exhausted'
              => \/ ObjectMemory!AllLive'
                 \/ ObjectMemory!Exhausted /\ DOMAIN Fields' = DOMAIN Fields]_(ObjectMemory!vars)
  BY OnlyCollectExhausts, CollectLeavesReachable, FullKeepsConses DEF ObjectMemory!AllLive
<1>2. ObjectMemory!Init => (ObjectMemory!Exhausted => ObjectMemory!AllLive)
  BY AllLiveAtFirst
<1> QED BY <1>1, <1>2, MemoryRefinesObjectGraph, PTL
        DEF RefusedOnlyIfAllWereLive, ObjectMemory!FullSinceAllLive, ObjectMemory!SafeSpec

=============================================================================
