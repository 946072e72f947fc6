----------------------------- MODULE ObjectGraph -----------------------------
(***************************************************************************)
(* What Memory<H> of vm/src/memory.rs promises: a graph of conses that     *)
(* have an identity and no address.  A pointer is an object and a tag, the *)
(* fields of an object change only when the program sets them, and a       *)
(* collection removes exactly the objects no root reaches.  The memory     *)
(* refuses an allocation only when it holds Capacity conses, and it has    *)
(* collected when it came to hold that many.                               *)
(***************************************************************************)
EXTENDS Naturals, FiniteSets, Functions

CONSTANTS
  Object,     \* identities of conses
  Tag,        \* cons tags in use
  Number,     \* payloads of numbers in use
  Capacity,   \* conses the memory has room for
  GcAlways,   \* collect on every allocation
  Zero, False, \* the two objects Memory::new allocates
  None        \* what NEVER points to, not an object

VARIABLES
  code, stack, false, register,  \* the roots
  local,       \* the cons last allocated, held by the caller of allocate
  fields,      \* allocated object -> its car and cdr
  collecting,  \* a collection is due and nothing else happens before it
  result       \* result of the last allocation

roots == <<code, stack, false, register, local>>
vars == <<roots, fields, collecting, result>>

Pointer(o, t) == [object |-> o, tag |-> t]
FromNumber(n) == [number |-> n]
NEVER == Pointer(None, 0)

IsPointer(v) == "object" \in DOMAIN v
SetTag(v, t) == IF IsPointer(v) THEN [v EXCEPT !.tag = t] ELSE v
TagOf(v) == IF IsPointer(v) THEN v.tag ELSE 0

Pointers(S) == {v.object : v \in {w \in S : IsPointer(w)}} \ {None}

(* A set that holds the objects the roots point to and, with an object,    *)
(* those its fields point to; the smallest one is what the program can     *)
(* reach.                                                                  *)
Closed(S) ==
  /\ Pointers({code, stack, false, register, local}) \subseteq S
  /\ \A o \in S : Pointers({fields[o].car, fields[o].cdr}) \subseteq S

Reachable ==
  {o \in DOMAIN fields : \A S \in SUBSET DOMAIN fields : Closed(S) => o \in S}

-----------------------------------------------------------------------------
Held == {Pointer(o, t) : o \in DOMAIN fields, t \in Tag}
Root == Held \cup {NEVER}
Car == Held \cup {FromNumber(n) : n \in Number}
Cdr == Car \cup {NEVER}

Init ==
  /\ code = NEVER
  /\ stack = NEVER
  /\ register = NEVER
  /\ local = NEVER
  /\ false = Pointer(False, 0)
  /\ fields = [o \in {Zero, False} |->
                 IF o = Zero
                 THEN [car |-> FromNumber(0), cdr |-> FromNumber(0)]
                 ELSE [car |-> Pointer(Zero, 0), cdr |-> Pointer(Zero, 0)]]
  /\ collecting = FALSE
  /\ result = "ok"

Full == Cardinality(DOMAIN fields) >= Capacity

(* A new object; a collection follows at once when the memory is full. *)
New(o, car, cdr) ==
  /\ ~Full
  /\ o \in Object \ DOMAIN fields
  /\ fields' = [p \in DOMAIN fields \cup {o} |->
                  IF p = o THEN [car |-> car, cdr |-> cdr] ELSE fields[p]]
  /\ local' = Pointer(o, 0)
  /\ collecting' = (GcAlways \/ Full')
  /\ result' = "ok"
  /\ UNCHANGED <<code, false, register>>

Allocate(car, cdr) == \E o \in Object : New(o, car, cdr) /\ UNCHANGED stack

Push(value) ==
  \E o \in Object : New(o, value, SetTag(stack, 0)) /\ stack' = local'

AllocateFails ==
  /\ Full
  /\ result' = "out of memory"
  /\ UNCHANGED <<roots, fields, collecting>>

(* A collection the program asks for while it holds nothing but the roots. *)
CollectGarbages ==
  /\ collecting' = TRUE
  /\ local' = NEVER
  /\ UNCHANGED <<code, stack, false, register, fields, result>>

Collect ==
  /\ collecting
  /\ collecting' = FALSE
  /\ fields' = Restrict(fields, Reachable)
  /\ UNCHANGED <<roots, result>>

SetRoots == UNCHANGED <<local, fields, collecting, result>>
SetCode(c) == SetRoots /\ code' = c /\ UNCHANGED <<stack, false, register>>
SetStack(c) == SetRoots /\ stack' = c /\ UNCHANGED <<code, false, register>>
SetRegister(c) == SetRoots /\ register' = c /\ UNCHANGED <<code, stack, false>>
SetFalse(c) == SetRoots /\ false' = c /\ UNCHANGED <<code, stack, register>>

Pop ==
  /\ stack.object # None
  /\ IsPointer(fields[stack.object].cdr)
  /\ SetStack(fields[stack.object].cdr)

SetFields(o, pair) ==
  /\ fields' = [fields EXCEPT ![o] = pair]
  /\ UNCHANGED <<roots, collecting, result>>

SetCar(o, value) == SetFields(o, [fields[o] EXCEPT !.car = value])
SetCdr(o, value) ==
  SetFields(o, [fields[o] EXCEPT !.cdr = SetTag(value, TagOf(@))])
SetRawCdr(o, value) == SetFields(o, [fields[o] EXCEPT !.cdr = value])

(* The calls of a program, none of which finds a collection in progress.   *)
Program ==
  \/ \E value \in Car : Push(value)
  \/ \E car \in Car, cdr \in Cdr : Allocate(car, cdr)
  \/ AllocateFails
  \/ CollectGarbages
  \/ Pop
  \/ \E c \in Root : SetCode(c) \/ SetStack(c) \/ SetRegister(c)
  \/ \E c \in Held : SetFalse(c)
  \/ \E o \in DOMAIN fields, value \in Car : SetCar(o, value)
  \/ \E o \in DOMAIN fields, value \in Cdr : SetCdr(o, value) \/ SetRawCdr(o, value)

Next ==
  \/ ~collecting /\ Program
  \/ Collect

SafeSpec == Init /\ [][Next]_vars

(* Every collection that is due happens. *)
Spec == SafeSpec /\ WF_vars(Collect)

-----------------------------------------------------------------------------
(* What a refusal means.  The memory refuses as long as it is full, and it *)
(* is full only since a collection at whose end every cons was live; until *)
(* it is refused, a program still has the same conses.  So no garbage of   *)
(* the time when the memory filled up is in the way of an allocation.  A   *)
(* cons that the program drops after that collection is: allocate does not *)
(* collect once more before it refuses (memory.rs:207).                    *)
Exhausted == Full /\ ~collecting
AllLive == DOMAIN fields = Reachable

FullSinceAllLive ==
  /\ Exhausted => AllLive
  /\ [][Exhausted' => AllLive' \/ (Exhausted /\ DOMAIN fields' = DOMAIN fields)]_vars

=============================================================================
