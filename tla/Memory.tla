------------------------------- MODULE Memory -------------------------------
(***************************************************************************)
(* The heap of the virtual machine and its collector: Memory<H> of         *)
(* vm/src/memory.rs.                                                       *)
(*                                                                         *)
(* The heap is one array of values split into two semispaces.  A cons is   *)
(* two consecutive values, car and cdr; a pointer to it is the index of    *)
(* its car and carries a tag.  Allocation bumps allocation_index; when an  *)
(* allocation fills its space (or always, under the cargo feature          *)
(* gc_always) it runs a copying collection before it returns.  The         *)
(* collection is modelled one copy_cons or one scanned field at a time,    *)
(* because that is where its correctness lies; a client never sees it in   *)
(* progress, so every other action needs phase = "mutator".                *)
(***************************************************************************)
EXTENDS Integers, FiniteSets

CONSTANTS
  HeapSize,   \* heap().len(): the values of the heap the embedder supplies
  Tag,        \* cons tags in use (u16 in the code)
  Number,     \* payloads of numbers in use
  GcAlways    \* the cargo feature gc_always

(* Memory::new returned Ok, so two conses fitted in the first space.       *)
ASSUME MemoryAssumption ==
  /\ HeapSize \in Nat /\ HeapSize >= 6
  /\ Tag \subseteq Nat /\ 0 \in Tag
  /\ Number \subseteq Int /\ 0 \in Number
  /\ GcAlways \in BOOLEAN

VARIABLES
  code, stack, false, register,  \* the roots, each a cons
  allocationIndex,               \* values allocated in the current space
  space,                         \* FALSE: first space, TRUE: second space
  heap,                          \* index -> value
  result,                        \* result of the last allocation
  local,      \* the cons the last allocation returned, still with its caller
  user,       \* what the running operation does with that cons
  phase,      \* "mutator", or the next step of collect_garbages
  scan,       \* the loop index of collect_garbages
  fromIndex   \* auxiliary: allocation_index when the collection began

rootVars == <<code, stack, false, register>>
spaceVars == <<allocationIndex, space>>
collectorVars == <<user, phase, scan, fromIndex>>
vars == <<rootVars, spaceVars, collectorVars, heap, result, local>>

-----------------------------------------------------------------------------
(* Values.  Cons equality ignores the tag, as PartialEq for Cons does.     *)

Value == [cons : BOOLEAN, payload : Int, tag : Tag]

Cons(index, tag) == [cons |-> TRUE, payload |-> index, tag |-> tag]
FromNumber(n) == [cons |-> FALSE, payload |-> n, tag |-> 0]

(* Type::Pair, the default tag. *)
Pair == 0

(* "A cons can never point an odd index." *)
NEVER == Cons(1, Pair)
IsNever(v) == v.cons /\ v.payload = 1

(* Mutant: a tag is stored in a number. *)
SetTagOfAnything(v, tag) == [v EXCEPT !.tag = tag]

SetTag(v, tag) == IF v.cons THEN [v EXCEPT !.tag = tag] ELSE v

-----------------------------------------------------------------------------
(* The two spaces. *)

SpaceSize == HeapSize \div 2
SpaceStart(s) == IF s THEN SpaceSize ELSE 0

AllocationStart == SpaceStart(space)
AllocationEnd == AllocationStart + allocationIndex
IsOutOfMemory == allocationIndex >= SpaceSize

(* The conses among the first n values of a space. *)
CellsOf(s, n) ==
  {i \in SpaceStart(s) .. SpaceStart(s) + n - 1 : (i - SpaceStart(s)) % 2 = 0}

(* The allocated conses, and during a collection the ones it started from. *)
Cells == CellsOf(space, allocationIndex)
FromCells == CellsOf(~space, fromIndex)

WriteCons(h, index, car, cdr) == [h EXCEPT ![index] = car, ![index + 1] = cdr]

-----------------------------------------------------------------------------
(* What the code of the virtual machine can hold between two calls of this *)
(* component: numbers, and conses allocated since, or kept by, the last    *)
(* collection.  NEVER is what code, stack and register hold before a       *)
(* program is decoded, and from there it can reach a cdr; no caller puts   *)
(* it in a car.                                                            *)

Held == {Cons(i, t) : i \in Cells, t \in Tag}
Root == Held \cup {NEVER}
Car == Held \cup {FromNumber(n) : n \in Number}
Cdr == Car \cup {NEVER}

-----------------------------------------------------------------------------
Init ==
  /\ code = NEVER
  /\ stack = NEVER
  /\ register = NEVER
  /\ false = Cons(2, Pair)
  /\ local = NEVER
  /\ space = FALSE
  /\ allocationIndex = 4
  /\ heap = WriteCons([i \in 0 .. HeapSize - 1 |-> FromNumber(0)],
                      2, Cons(0, Pair), Cons(0, Pair))
  /\ result = "ok"
  /\ user = "none"
  /\ phase = "mutator"
  /\ scan = 0
  /\ fromIndex = 0

(* Mutant: the allocation that fills the space does not collect. *)
AllocateWithoutCollection(car, cdr, use) ==
  /\ phase = "mutator"
  /\ ~IsOutOfMemory
  /\ heap' = WriteCons(heap, AllocationEnd, car, cdr)
  /\ allocationIndex' = allocationIndex + 2
  /\ local' = Cons(AllocationEnd, Pair)
  /\ stack' = IF use = "push" THEN local' ELSE stack
  /\ result' = "ok"
  /\ UNCHANGED <<code, false, register, space, collectorVars>>

(* allocate, and push which stores the new cons in stack: with room left,  *)
(* the cons is returned at once.                                           *)
AllocateWithin(car, cdr, use) ==
  /\ phase = "mutator"
  /\ ~IsOutOfMemory
  /\ allocationIndex + 2 < SpaceSize
  /\ ~GcAlways
  /\ heap' = WriteCons(heap, AllocationEnd, car, cdr)
  /\ allocationIndex' = allocationIndex + 2
  /\ local' = Cons(AllocationEnd, Pair)
  /\ stack' = IF use = "push" THEN local' ELSE stack
  /\ result' = "ok"
  /\ UNCHANGED <<code, false, register, space, collectorVars>>

(* collect_garbages starts: the spaces are exchanged and the current one   *)
(* is empty.                                                               *)
Flip(end) ==
  /\ fromIndex' = end
  /\ allocationIndex' = 0
  /\ space' = ~space
  /\ phase' = "code"

(* The allocation that fills the space collects before it returns, with    *)
(* the new cons as one more root.                                          *)
AllocateAndCollect(car, cdr, use) ==
  /\ phase = "mutator"
  /\ ~IsOutOfMemory
  /\ allocationIndex + 2 >= SpaceSize \/ GcAlways
  /\ heap' = WriteCons(heap, AllocationEnd, car, cdr)
  /\ local' = Cons(AllocationEnd, Pair)
  /\ user' = use
  /\ result' = "ok"
  /\ Flip(allocationIndex + 2)
  /\ UNCHANGED <<rootVars, scan>>

(* allocate_unchecked refuses, and nothing has changed. *)
AllocateFails ==
  /\ phase = "mutator"
  /\ IsOutOfMemory
  /\ result' = "out of memory"
  /\ UNCHANGED <<rootVars, spaceVars, collectorVars, heap, local>>

Push(value) ==
  LET cdr == SetTag(stack, Pair)
  IN AllocateWithin(value, cdr, "push") \/ AllocateAndCollect(value, cdr, "push")

Allocate(car, cdr) ==
  AllocateWithin(car, cdr, "none") \/ AllocateAndCollect(car, cdr, "none")

(* A collection with no extra root: collect_garbages(None). *)
CollectGarbages ==
  /\ phase = "mutator"
  /\ local' = NEVER
  /\ user' = "none"
  /\ Flip(allocationIndex)
  /\ UNCHANGED <<rootVars, heap, result, scan>>

(* The accessors of the roots and of the fields; set_top is SetCar at the  *)
(* stack, pop reads the top and drops it.                                  *)
SetRoots ==
  /\ phase = "mutator"
  /\ UNCHANGED <<spaceVars, collectorVars, heap, result, local>>

SetCode(c) == SetRoots /\ code' = c /\ UNCHANGED <<stack, false, register>>
SetStack(c) == SetRoots /\ stack' = c /\ UNCHANGED <<code, false, register>>
SetRegister(c) == SetRoots /\ register' = c /\ UNCHANGED <<code, stack, false>>
SetFalse(c) == SetRoots /\ false' = c /\ UNCHANGED <<code, stack, register>>

Pop ==
  /\ ~IsNever(stack)
  /\ heap[stack.payload + 1].cons
  /\ SetStack(heap[stack.payload + 1])

SetField(index, value) ==
  /\ phase = "mutator"
  /\ heap' = [heap EXCEPT ![index] = value]
  /\ UNCHANGED <<rootVars, spaceVars, collectorVars, result, local>>

SetCar(index, value) == SetField(index, value)

(* set_cdr keeps the tag that is there, set_raw_cdr overwrites it. *)
SetCdr(index, value) ==
  SetField(index + 1,
           SetTag(value, IF heap[index + 1].cons THEN heap[index + 1].tag ELSE 0))
SetRawCdr(index, value) == SetField(index + 1, value)

-----------------------------------------------------------------------------
(* The collector. *)

(* Mutant: a copied cons is not marked, so it is copied again. *)
CopyConsUnmarked(c) ==
  IF IsNever(c) \/ IsOutOfMemory
  THEN [ok |-> IsNever(c), cons |-> c, heap |-> heap, index |-> allocationIndex]
  ELSE [ok |-> TRUE, cons |-> Cons(AllocationEnd, c.tag),
        heap |-> WriteCons(heap, AllocationEnd, heap[c.payload], heap[c.payload + 1]),
        index |-> allocationIndex + 2]

(* Mutant: the forward pointer is not stored. *)
CopyConsUnforwarded(c) ==
  IF IsNever(c) \/ IsNever(heap[c.payload])
  THEN [ok |-> TRUE, cons |-> IF IsNever(c) THEN c ELSE SetTag(heap[c.payload + 1], c.tag),
        heap |-> heap, index |-> allocationIndex]
  ELSE [ok |-> TRUE, cons |-> Cons(AllocationEnd, c.tag),
        heap |-> [WriteCons(heap, AllocationEnd, heap[c.payload], heap[c.payload + 1])
                    EXCEPT ![c.payload] = NEVER],
        index |-> allocationIndex + 2]

(* copy_cons: NEVER stays; a cons already moved has NEVER in its car and   *)
(* its forward pointer in its cdr; another one is copied to the current    *)
(* space and leaves a forward pointer.  The tag is the pointer's own.      *)
CopyCons(c) ==
  CASE IsNever(c) ->
         [ok |-> TRUE, cons |-> c, heap |-> heap, index |-> allocationIndex]
    [] ~IsNever(c) /\ IsNever(heap[c.payload]) ->
         [ok |-> TRUE, cons |-> SetTag(heap[c.payload + 1], c.tag),
          heap |-> heap, index |-> allocationIndex]
    [] ~IsNever(c) /\ ~IsNever(heap[c.payload]) /\ ~IsOutOfMemory ->
         [ok |-> TRUE, cons |-> Cons(AllocationEnd, c.tag),
          heap |-> WriteCons(
                     WriteCons(heap, AllocationEnd, heap[c.payload], heap[c.payload + 1]),
                     c.payload, NEVER, Cons(AllocationEnd, Pair)),
          index |-> allocationIndex + 2]
    [] OTHER ->
         [ok |-> FALSE, cons |-> c, heap |-> heap, index |-> allocationIndex]

(* One root of collect_garbages.  An error leaves it half way. *)
CopyRoot(here, next, copy) ==
  /\ phase = here
  /\ phase' = IF copy.ok THEN next ELSE "failed"
  /\ heap' = copy.heap
  /\ allocationIndex' = copy.index
  /\ UNCHANGED <<space, result, user, fromIndex>>

CopyCode ==
  /\ CopyRoot("code", "stack", CopyCons(code))
  /\ code' = CopyCons(code).cons
  /\ UNCHANGED <<stack, false, register, local, scan>>

CopyStack ==
  /\ CopyRoot("stack", "false", CopyCons(stack))
  /\ stack' = CopyCons(stack).cons
  /\ UNCHANGED <<code, false, register, local, scan>>

CopyFalse ==
  /\ CopyRoot("false", "register", CopyCons(false))
  /\ false' = CopyCons(false).cons
  /\ UNCHANGED <<code, stack, register, local, scan>>

(* Mutant: the register is not a root. *)
CopyRegisterSkipped ==
  /\ phase = "register"
  /\ phase' = "local"
  /\ UNCHANGED <<rootVars, spaceVars, heap, result, local, user, scan, fromIndex>>

CopyRegister ==
  /\ CopyRoot("register", "local", CopyCons(register))
  /\ register' = CopyCons(register).cons
  /\ UNCHANGED <<code, stack, false, local, scan>>

(* The cons passed by allocate; there is none when local is NEVER. *)
CopyLocal ==
  /\ CopyRoot("local", "scan", CopyCons(local))
  /\ local' = CopyCons(local).cons
  /\ scan' = AllocationStart
  /\ UNCHANGED rootVars

(* Mutant: the loop does not go past what is not a cons. *)
ScanStuck ==
  /\ phase = "scan"
  /\ scan < AllocationEnd
  /\ LET copy == CopyCons(heap[scan])
     IN IF heap[scan].cons
        THEN /\ heap' = [copy.heap EXCEPT ![scan] = copy.cons]
             /\ allocationIndex' = copy.index
             /\ scan' = scan + 1
        ELSE UNCHANGED <<scan, heap, allocationIndex>>
  /\ UNCHANGED <<rootVars, phase, space, result, local, user, fromIndex>>

(* One field of the current space: copy_value of it. *)
Scan ==
  /\ phase = "scan"
  /\ scan < AllocationEnd
  /\ LET value == heap[scan]
         copy == CopyCons(value)
     IN \/ /\ ~value.cons
           /\ scan' = scan + 1
           /\ UNCHANGED <<phase, heap, allocationIndex>>
        \/ /\ value.cons
           /\ phase' = IF copy.ok THEN phase ELSE "failed"
           /\ heap' = [copy.heap EXCEPT ![scan] = copy.cons]
           /\ allocationIndex' = copy.index
           /\ scan' = scan + 1
  /\ UNCHANGED <<rootVars, space, result, local, user, fromIndex>>

(* collect_garbages is done and allocate returns to its caller. *)
Finish ==
  /\ phase = "scan"
  /\ scan >= AllocationEnd
  /\ phase' = "mutator"
  /\ stack' = IF user = "push" THEN local ELSE stack
  /\ user' = "none"
  /\ UNCHANGED <<code, false, register, local, spaceVars, heap, result, scan, fromIndex>>

-----------------------------------------------------------------------------
Allocation ==
  \/ \E value \in Car : Push(value)
  \/ \E car \in Car, cdr \in Cdr : Allocate(car, cdr)
  \/ AllocateFails

Mutation ==
  \/ CollectGarbages
  \/ Pop
  \/ \E c \in Root : SetCode(c) \/ SetStack(c) \/ SetRegister(c)
  \/ \E c \in Held : SetFalse(c)
  \/ \E i \in Cells, value \in Car : SetCar(i, value)
  \/ \E i \in Cells, value \in Cdr : SetCdr(i, value) \/ SetRawCdr(i, value)

Collector ==
  \/ CopyCode \/ CopyStack \/ CopyFalse \/ CopyRegister \/ CopyLocal
  \/ Scan
  \/ Finish

Next == Allocation \/ Mutation \/ Collector

(* collect_garbages runs to its end within one call; nothing obliges a     *)
(* program to make any call.                                               *)
Spec == Init /\ [][Next]_vars /\ WF_vars(Collector)

-----------------------------------------------------------------------------
(* Properties. *)

CollectorPhase == {"code", "stack", "false", "register", "local", "scan"}

(* Every variable has its type; a number's tag is always 0.                *)
TypeOK ==
  /\ \A c \in {code, stack, false, register, local} : c \in Value /\ c.cons
  /\ allocationIndex \in Nat
  /\ space \in BOOLEAN
  /\ heap \in [0 .. HeapSize - 1 -> Value]
  /\ \A i \in 0 .. HeapSize - 1 : ~heap[i].cons => heap[i].tag = 0
  /\ result \in {"ok", "out of memory"}
  /\ user \in {"none", "push"}
  /\ phase \in CollectorPhase \cup {"mutator", "failed"}
  /\ scan \in Nat
  /\ fromIndex \in Nat

(* The assertion that ends allocate_unchecked: the current space never     *)
(* runs over its end, not even inside a collection; and a collection       *)
(* copies at most what it started from, so copy_cons never meets           *)
(* Error::OutOfMemory half way through a heap it has torn apart.           *)
SpaceSuffices == allocationIndex <= SpaceSize /\ phase # "failed"

(* What assert_heap_cons and assert_heap_value ask of every access: once a *)
(* call has returned, no root, no field and no cons the caller still holds *)
(* points into the space the collection left, and no cons a program can    *)
(* reach looks forwarded to the next collection.                           *)
PointsInto(v, cells) == v.cons /\ ~IsNever(v) => v.payload \in cells

PointersValid ==
  phase = "mutator" =>
    /\ \A c \in {code, stack, false, register, local} : PointsInto(c, Cells)
    /\ ~IsNever(false)
    /\ \A i \in Cells :
         /\ ~IsNever(heap[i])
         /\ PointsInto(heap[i], Cells)
         /\ PointsInto(heap[i + 1], Cells)

(* The state of a collection, for a heap h of which n values are in the    *)
(* space that fills and the values before limit have been scanned.         *)

(* A cons left behind is forwarded to a copy, or as it was.                *)
ForwardsInto(h, n) ==
  \A i \in FromCells :
    IF IsNever(h[i])
    THEN h[i + 1].cons /\ h[i + 1].payload \in CellsOf(space, n)
    ELSE PointsInto(h[i], FromCells) /\ PointsInto(h[i + 1], FromCells)

(* What has been scanned points to copies, the rest still to what was.     *)
CopiesPoint(h, n, limit) ==
  \A i \in AllocationStart .. AllocationStart + n - 1 :
    PointsInto(h[i], IF i < limit THEN CellsOf(space, n) ELSE FromCells)

(* No copy looks forwarded, and there are as many copies as forwarded conses. *)
Forwarded(h) == {i \in FromCells : IsNever(h[i])}

CopiesCounted(h, n) ==
  /\ \A i \in CellsOf(space, n) : ~IsNever(h[i])
  /\ n = 2 * Cardinality(Forwarded(h))

Scanned == IF phase = "scan" THEN scan ELSE AllocationStart

(* At every step of a collection the roots it has visited point into the   *)
(* space it fills, the others into the one it leaves, and the copies are   *)
(* as above.                                                               *)
CollectorConsistent ==
  phase \in CollectorPhase =>
    /\ PointsInto(code, IF phase = "code" THEN FromCells ELSE Cells)
    /\ PointsInto(stack, IF phase \in {"code", "stack"} THEN FromCells ELSE Cells)
    /\ PointsInto(false,
         IF phase \in {"code", "stack", "false"} THEN FromCells ELSE Cells)
    /\ PointsInto(register, IF phase \in {"local", "scan"} THEN Cells ELSE FromCells)
    /\ PointsInto(local, IF phase = "scan" THEN Cells ELSE FromCells)
    /\ ~IsNever(false)
    /\ ForwardsInto(heap, allocationIndex)
    /\ CopiesPoint(heap, allocationIndex, Scanned)
    /\ CopiesCounted(heap, allocationIndex)
    /\ Scanned \in AllocationStart .. AllocationEnd

=============================================================================
