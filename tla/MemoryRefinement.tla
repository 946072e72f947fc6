-------------------------- MODULE MemoryRefinement --------------------------
(***************************************************************************)
(* Memory implements ObjectGraph.  A cons has no identity in the code, its *)
(* address is all there is, and a collection changes it.  The history      *)
(* variable object remembers which object the cons at an address is; the   *)
(* steps of a collection leave the graph alone until Finish, which is the  *)
(* abstract Collect.                                                       *)
(***************************************************************************)
EXTENDS Memory

VARIABLE object  \* auxiliary: address of a cons -> its object, 0 if none

historyVars == <<vars, object>>

Capacity == SpaceSize \div 2
Object == 1 .. Capacity

Fresh == CHOOSE o \in Object : \A i \in Cells : object[i] # o

HInit ==
  /\ Init
  /\ object = [i \in 0 .. HeapSize - 1 |->
                 IF i = 0 THEN 1 ELSE IF i = 2 THEN 2 ELSE 0]

(* A new cons is a new object.                                             *)
NameNew ==
  object' = IF result' # "ok"
            THEN object
            ELSE [object EXCEPT ![AllocationEnd] = Fresh]

(* A copy is the object it is a copy of; nothing is left in the old space. *)
NameCopy ==
  object' =
    IF phase' = "mutator"
    THEN [i \in DOMAIN object |-> IF i \in Cells THEN object[i] ELSE 0]
    ELSE IF allocationIndex' = allocationIndex
    THEN object
    ELSE LET Copied == {i \in FromCells : ~IsNever(heap[i]) /\ IsNever(heap'[i])}
         IN [object EXCEPT ![AllocationEnd] =
               IF Copied = {} THEN 0 ELSE object[CHOOSE i \in Copied : TRUE]]

HNext ==
  \/ Allocation /\ NameNew
  \/ Mutation /\ UNCHANGED object
  \/ Collector /\ NameCopy

HSpec == HInit /\ [][HNext]_historyVars /\ WF_historyVars(Collector /\ NameCopy)

-----------------------------------------------------------------------------
(* The refinement mapping. *)

Graph(v) ==
  IF ~v.cons THEN [number |-> v.payload]
  ELSE IF IsNever(v) THEN [object |-> 0, tag |-> v.tag]
  ELSE [object |-> object[v.payload], tag |-> v.tag]

(* The conses of the graph: those in use, and during a collection all the  *)
(* ones it started from.                                                   *)
Collecting == phase # "mutator"
GraphCells == IF Collecting THEN FromCells ELSE Cells

(* Where the fields of a cons are: in its copy once it has moved.          *)
Home(i) == IF Collecting /\ IsNever(heap[i]) THEN heap[i + 1].payload ELSE i

CellOf(o) == CHOOSE i \in GraphCells : object[i] = o

Fields ==
  [o \in {object[i] : i \in GraphCells} |->
     LET home == Home(CellOf(o))
     IN [car |-> Graph(heap[home]), cdr |-> Graph(heap[home + 1])]]

ObjectMemory == INSTANCE ObjectGraph WITH
  Zero <- 1, False <- 2, None <- 0,
  code <- Graph(code),
  stack <- Graph(IF user = "push" THEN local ELSE stack),
  false <- Graph(false),
  register <- Graph(register),
  local <- Graph(local),
  fields <- Fields,
  collecting <- Collecting

(* The memory behaves as a graph of conses with an identity: whatever the  *)
(* collector moves, no field, tag or shared cons changes or is lost, only  *)
(* unreachable ones are dropped, an allocation is refused only when the    *)
(* memory is full, and every collection ends.                              *)
ImplementsObjectGraph == ObjectMemory!Spec

(* When an allocation is refused, every cons in the memory was live at the *)
(* end of the last collection: the one that ran when the memory had been   *)
(* filled found nothing to drop, however the conses lay that it moved.     *)
RefusedOnlyIfAllWereLive == ObjectMemory!FullSinceAllLive

=============================================================================
