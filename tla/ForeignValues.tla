--------------------------- MODULE ForeignValues ---------------------------
(***************************************************************************)
(* The table of native values of a dynamic primitive set                   *)
(* (dynamic/src/primitive_set.rs).  A native value that a function returns *)
(* to Scheme is kept in a slot of the table, and Scheme gets a foreign     *)
(* cons, which holds the index of the slot.  Two collectors work on it,    *)
(* neither knowing of the other: the memory's, which drops the foreign     *)
(* conses that a program no longer reaches, and the table's, which empties *)
(* the slots no allocated cons refers to.  The memory is what ObjectGraph  *)
(* promises, seen from here: a set of foreign conses.                      *)
(***************************************************************************)
EXTENDS Naturals, FiniteSets, TLC

CONSTANTS
  Object,    \* identities of foreign conses
  Native,    \* native values
  None,      \* Option::None, an empty slot
  Capacity   \* foreign conses the memory has room for

ASSUME ForeignAssumption ==
  /\ None \notin Native
  /\ Capacity \in Nat

VARIABLES
  size,       \* values.len()
  values,     \* slot -> native value, or None
  slot,       \* allocated foreign cons -> index of its slot
  reachable,  \* the foreign conses the program can still reach
  native,     \* auxiliary: allocated foreign cons -> the value it stands for
  result      \* of the last call of a function

tableVars == <<size, values>>
memoryVars == <<slot, reachable, native>>
vars == <<tableVars, memoryVars, result>>

Allocated == DOMAIN slot

Init ==
  /\ size = 0
  /\ values = [i \in {} |-> None]
  /\ slot = [o \in {} |-> 0]
  /\ native = [o \in {} |-> None]
  /\ reachable = {}
  /\ result = "none"

-----------------------------------------------------------------------------
(* The table. *)

Free(table) == {i \in DOMAIN table : table[i] = None}

(* find_free: the first empty slot. *)
IsFirstFree(i, table) == i \in Free(table) /\ \A j \in Free(table) : i <= j

(* Mutant: the scan ends one cons early. *)
CollectedShort ==
  LET Seen == {o \in Allocated : \E p \in Allocated \ {o} : slot[o] <= slot[p]}
  IN [i \in 0 .. size - 1 |-> IF \E o \in Seen : slot[o] = i THEN values[i] ELSE None]

(* Mutant: only the conses a program reaches are marked. *)
CollectedReachable ==
  [i \in 0 .. size - 1 |-> IF \E o \in reachable : slot[o] = i THEN values[i] ELSE None]

(* collect_garbages: the slots no allocated foreign cons refers to are     *)
(* emptied.                                                                *)
Collected ==
  [i \in 0 .. size - 1 |-> IF \E o \in Allocated : slot[o] = i THEN values[i] ELSE None]

(* Mutant: a full table grows, whatever a collection empties. *)
IsSlotGrow(i, table, n) ==
  IF Free(values) # {}
  THEN n = size /\ table = values /\ IsFirstFree(i, values)
  ELSE /\ n = size + 1
       /\ i = size
       /\ table = [j \in 0 .. size |-> IF j = size THEN None ELSE Collected[j]]

(* allocate finds slot i in a table that is then table, n slots long: an   *)
(* empty slot, or one that a collection empties, or a new one.             *)
IsSlot(i, table, n) ==
  CASE Free(values) # {} ->
         n = size /\ table = values /\ IsFirstFree(i, values)
    [] Free(values) = {} /\ Free(Collected) # {} ->
         n = size /\ table = Collected /\ IsFirstFree(i, Collected)
    [] OTHER ->
         /\ n = size + 1
         /\ i = size
         /\ table = [j \in 0 .. size |-> IF j = size THEN None ELSE Collected[j]]

(* A native value gets a slot before the memory is asked for a cons. *)
Store(i, value) ==
  \E n \in {size, size + 1} :
    \E table \in {values, Collected,
                  [j \in 0 .. size |-> IF j = size THEN None ELSE Collected[j]]} :
      /\ IsSlot(i, table, n)
      /\ values' = [table EXCEPT ![i] = value]
      /\ size' = n

-----------------------------------------------------------------------------
(* What becomes of the memory: allocate and push may each collect. *)

AllocateCons(o, i, value, kept) ==
  /\ o \in Object \ Allocated
  /\ Cardinality(Allocated) < Capacity
  /\ slot' = [p \in kept \cup {o} |-> IF p = o THEN i ELSE slot[p]]
  /\ native' = [p \in kept \cup {o} |-> IF p = o THEN value ELSE native[p]]

(* A function returns a native value: its foreign cons is pushed.          *)
ReturnValue(value) ==
  \E i \in 0 .. size, o \in Object, kept \in {Allocated, reachable} :
    /\ Store(i, value)
    /\ AllocateCons(o, i, value, kept)
    /\ reachable' = reachable \cup {o}
    /\ result' = "ok"

(* There is no room for the foreign cons: the slot stays taken.            *)
ReturnUnallocated(value) ==
  /\ \E i \in 0 .. size : Store(i, value)
  /\ result' = "out of memory"
  /\ UNCHANGED memoryVars

(* There is none for the push: the foreign cons is garbage at once.        *)
ReturnUnpushed(value) ==
  \E i \in 0 .. size, o \in Object, kept \in {Allocated, reachable} :
    /\ Store(i, value)
    /\ AllocateCons(o, i, value, kept)
    /\ result' = "out of memory"
    /\ UNCHANGED reachable

(* A function is called with a foreign cons: it is given what is in the    *)
(* slot, if anything is.                                                   *)
PassValue(o) ==
  /\ o \in reachable
  /\ result' = IF slot[o] >= size \/ values[slot[o]] = None THEN "value index"
               ELSE IF values[slot[o]] = native[o] THEN "ok" ELSE "another value"
  /\ UNCHANGED <<tableVars, memoryVars>>

(* The program lets go of a foreign cons. *)
Drop(o) ==
  /\ o \in reachable
  /\ reachable' = reachable \ {o}
  /\ UNCHANGED <<tableVars, slot, native, result>>

(* The memory collects its garbage, at an allocation anywhere else. *)
CollectMemory ==
  /\ slot' = [o \in reachable |-> slot[o]]
  /\ native' = [o \in reachable |-> native[o]]
  /\ UNCHANGED <<tableVars, reachable, result>>

Next ==
  \/ \E value \in Native :
       ReturnValue(value) \/ ReturnUnallocated(value) \/ ReturnUnpushed(value)
  \/ \E o \in Object : PassValue(o) \/ Drop(o)
  \/ CollectMemory

Spec == Init /\ [][Next]_vars

-----------------------------------------------------------------------------
(* Properties. *)

TypeOK ==
  /\ size \in Nat
  /\ values \in [0 .. size - 1 -> Native \cup {None}]
  /\ Allocated \subseteq Object
  /\ slot \in [Allocated -> Nat]
  /\ native \in [Allocated -> Native]
  /\ reachable \subseteq Allocated
  /\ result \in {"none", "ok", "out of memory", "value index", "another value"}

(* Whatever the two collectors did meanwhile, a foreign cons that a        *)
(* program still has stands for the native value it was made for.          *)
ForeignValuesKept ==
  \A o \in reachable : slot[o] < size /\ values[slot[o]] = native[o]

(* No two foreign conses share a slot, the unreachable ones included: one  *)
(* of them would keep the value of the other.                              *)
SlotsUnshared ==
  \A o, p \in Allocated : slot[o] = slot[p] => o = p

(* The table does not grow with the number of values that ever were, only  *)
(* with the conses there is room for, and the one the memory refused.      *)
TableBounded == size <= Capacity + 1

(* For TLC: conses and native values are interchangeable. *)
Symmetry == Permutations(Object) \cup Permutations(Native)

=============================================================================
