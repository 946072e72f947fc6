------------------------------ MODULE VmProofs ------------------------------
(***************************************************************************)
(* Proofs about Vm: no instruction uses or leaves a pointer to a cons that *)
(* a collection took.                                                      *)
(*                                                                         *)
(* The inductive invariant is Sound(Memory): the registers and the fields  *)
(* of every cons hold numbers and pointers to symbols, to parts of the     *)
(* programs and to conses of the graph.  Within an instruction there are   *)
(* many memories, one after each allocation, and a collection may come     *)
(* with any of them.  Sound is kept by each (Inside), and what an          *)
(* instruction has in hand is Live when it was read in the epoch of the    *)
(* memory it is used in: since the last collection, or set aside as a      *)
(* root.  A handler that used a value read before an allocation would have *)
(* no proof of that, and does not in any place.                            *)
(*                                                                         *)
(* What an instruction reads is there because OperandsFound says so of the *)
(* state it starts in; that what was found stays until it is read is       *)
(* proved (Since, Stays...: an allocation takes no cons of the stack, the  *)
(* frame or a list that a root points to).  At(m, p, n) says so of the     *)
(* stack in the middle of an instruction, Done(m) of the end of one.       *)
(***************************************************************************)
EXTENDS Vm, FiniteSetTheorems, WellFoundedInduction, TLAPS

CONSTANT Parts  \* the code, procedures and primitives of the programs

-----------------------------------------------------------------------------
(* Values. *)

IsHeap(o) == "heap" \in DOMAIN o
IsSymbol(o) == \E x : o = Symbol(x)
Known(f, o) == o \in DOMAIN f \/ o \in Parts \/ IsSymbol(o)

IsNumber(v) == \E i \in Int : v = Number(i)
Held(o, t, e) == [object |-> o, tag |-> t, epoch |-> e]

(* What may be stored in a graph f, and what an instruction may hold. *)
Stored(f, v) == IsNumber(v) \/ \E o : \E t \in Nat : v = Pointer(o, t) /\ Known(f, o)
Live(m, v) == IsNumber(v) \/ \E o : \E t \in Nat : v = Held(o, t, m.epoch) /\ Known(m.fields, o)

(* Of Compiled(Parts), in these words. *)
Coded ==
  /\ \A o \in Parts :
       /\ IsStatic(o)
       /\ \A f : Stored(f, Static(o).car) /\ Stored(f, Static(o).cdr)
  /\ \A x \in Program :
       /\ \A f : Stored(f, CodePointer(Image[x].code, 0))
       /\ IsFiniteSet(DOMAIN Image[x].globals)
       /\ \A g \in DOMAIN Image[x].globals : \A f : Stored(f, OperandValue(Image[x].globals[g]))

IsFields(f) ==
  /\ IsFiniteSet(DOMAIN f)
  /\ f = [o \in DOMAIN f |-> f[o]]
  /\ \A o \in DOMAIN f :
       /\ IsHeap(o) \/ IsSymbol(o)
       /\ f[o] = [car |-> f[o].car, cdr |-> f[o].cdr]
       /\ Stored(f, f[o].car) /\ Stored(f, f[o].cdr)
  /\ Null.object \in DOMAIN f

MemoryOf(c, s, r, f, e, p, ep, k) ==
  [code |-> c, stack |-> s, register |-> r, fields |-> f,
   error |-> e, profile |-> p, epoch |-> ep, cons |-> k]

IsMemory(m) ==
  m = MemoryOf(m.code, m.stack, m.register, m.fields, m.error, m.profile, m.epoch, m.cons)

Sound(m) ==
  /\ IsMemory(m) /\ Coded
  /\ IsFields(m.fields)
  /\ Stored(m.fields, m.code) /\ Stored(m.fields, m.stack) /\ Stored(m.fields, m.register)
  /\ m.error # "fault"
  /\ m.epoch \in Nat

(* A number is not a pointer, and has no tag.                              *)
LEMMA NumberIs ==
  ASSUME NEW v, IsNumber(v)
  PROVE  /\ ~IsPointer(v) /\ v # Garbage /\ "number" \in DOMAIN v /\ v.number \in Int
         /\ v = Number(v.number) /\ NumberOf(v) = v.number /\ TagOf(v) = 0
BY DEF IsNumber, Number, IsPointer, Garbage, NumberOf, TagOf

(* What is read of a pointer in memory is what it was made of.             *)
LEMMA PointerIs ==
  ASSUME NEW o, NEW t
  PROVE  /\ IsPointer(Pointer(o, t)) /\ Pointer(o, t).object = o /\ Pointer(o, t).tag = t
         /\ Pointer(o, t) # Garbage /\ TagOf(Pointer(o, t)) = t /\ "number" \notin DOMAIN Pointer(o, t)
         /\ \A u : SetTag(Pointer(o, t), u) = Pointer(o, u)
BY DEF Pointer, IsPointer, Garbage, TagOf, SetTag

(* What is read of a pointer an instruction holds is what it was made of.  *)
LEMMA HeldIs ==
  ASSUME NEW o, NEW t, NEW e
  PROVE  /\ IsPointer(Held(o, t, e)) /\ Held(o, t, e).object = o /\ Held(o, t, e).tag = t
         /\ Held(o, t, e).epoch = e /\ TagOf(Held(o, t, e)) = t /\ "number" \notin DOMAIN Held(o, t, e)
         /\ \A u : SetTag(Held(o, t, e), u) = Held(o, u, e)
BY DEF Held, IsPointer, TagOf, SetTag

(* What stands in a part of a program may be stored in any graph.          *)
LEMMA LastingIs ==
  ASSUME NEW v, Lasting(Parts, v), NEW f
  PROVE  Stored(f, v)
<1>1. CASE NumberOf(v) \in Int /\ v = Number(NumberOf(v))
  BY <1>1 DEF Stored, IsNumber
<1>2. CASE /\ IsPointer(v) /\ v.tag \in Nat /\ v = Pointer(v.object, v.tag)
           /\ v.object \in Parts \/ IsSymbol(v.object)
  BY <1>2 DEF Stored, Known
<1> QED
  BY <1>1, <1>2 DEF Lasting, IsSymbol

(* The parts of compiled programs are as Coded says.                       *)
LEMMA CompiledIs ==
  ASSUME Compiled(Parts)
  PROVE  Coded
BY LastingIs DEF Compiled, Coded

(* Garbage is neither a number nor a pointer.                              *)
LEMMA GarbageIs == ~IsPointer(Garbage) /\ TagOf(Garbage) = 0 /\ "number" \notin DOMAIN Garbage
BY DEF Garbage, IsPointer, TagOf

(* A stored value, held by an instruction, may be stored again as what it  *)
(* was.                                                                    *)
LEMMA HoldIs ==
  ASSUME NEW m, NEW v, Stored(m.fields, v)
  PROVE  /\ Live(m, Hold(m, v))
         /\ Keep(m, Hold(m, v)) = v
         /\ \A o, t : v = Pointer(o, t) => Hold(m, v) = Held(o, t, m.epoch)
         /\ TagOf(Hold(m, v)) = TagOf(v) /\ TagOf(v) \in Nat /\ v # Garbage
         /\ IsPointer(Hold(m, v)) <=> IsPointer(v)
<1>1. CASE IsNumber(v)
  <2>1. Hold(m, v) = v /\ Keep(m, v) = v
    BY <1>1, NumberIs DEF Hold, Keep
  <2> QED
    BY <1>1, <2>1, NumberIs, PointerIs DEF Live
<1>2. ASSUME NEW o, NEW t \in Nat, v = Pointer(o, t), Known(m.fields, o)
      PROVE  /\ Hold(m, v) = Held(o, t, m.epoch)
             /\ Live(m, Hold(m, v)) /\ Keep(m, Hold(m, v)) = v
             /\ TagOf(Hold(m, v)) = TagOf(v) /\ TagOf(v) \in Nat /\ v # Garbage
             /\ IsPointer(Hold(m, v)) /\ IsPointer(v)
             /\ v.object = o /\ v.tag = t
  <2>1. Hold(m, v) = Held(o, t, m.epoch)
    BY <1>2, PointerIs DEF Hold, Held
  <2>2. Keep(m, Hold(m, v)) = v
    BY <1>2, <2>1, HeldIs DEF Keep
  <2> QED
    BY <1>2, <2>1, <2>2, PointerIs, HeldIs DEF Live
<1> QED
  BY <1>1, <1>2, PointerIs DEF Stored

(* What an instruction holds since the last collection may be stored.      *)
LEMMA KeepIs ==
  ASSUME NEW m, NEW v, Live(m, v)
  PROVE  /\ Stored(m.fields, Keep(m, v))
         /\ \A o, t : v = Held(o, t, m.epoch) => Keep(m, v) = Pointer(o, t)
         /\ IsNumber(v) => Keep(m, v) = v
         /\ TagOf(Keep(m, v)) = TagOf(v) /\ TagOf(v) \in Nat
         /\ IsPointer(Keep(m, v)) <=> IsPointer(v)
         /\ IsPointer(v) => /\ v = Held(v.object, v.tag, m.epoch) /\ v.tag \in Nat
                            /\ Known(m.fields, v.object)
                            /\ Keep(m, v) = Pointer(v.object, v.tag)
<1>1. CASE IsNumber(v)
  <2>1. Keep(m, v) = v
    BY <1>1, NumberIs DEF Keep
  <2> QED
    BY <1>1, <2>1, NumberIs, HeldIs DEF Stored
<1>2. ASSUME NEW o, NEW t \in Nat, v = Held(o, t, m.epoch), Known(m.fields, o)
      PROVE  /\ Keep(m, v) = Pointer(o, t)
             /\ Stored(m.fields, Keep(m, v))
             /\ TagOf(Keep(m, v)) = TagOf(v) /\ TagOf(v) \in Nat
             /\ IsPointer(Keep(m, v)) /\ IsPointer(v) /\ ~IsNumber(v)
             /\ v.object = o /\ v.tag = t
  <2>1. Keep(m, v) = Pointer(o, t)
    BY <1>2, HeldIs DEF Keep
  <2>2. ~IsNumber(v)
    BY <1>2, HeldIs, NumberIs
  <2> QED
    BY <1>2, <2>1, <2>2, PointerIs, HeldIs DEF Stored
<1> QED
  BY <1>1, <1>2, HeldIs, NumberIs DEF Live

(* Another tag for what an instruction holds leaves it held.               *)
LEMMA TagIs ==
  ASSUME NEW m, NEW v, Live(m, v), NEW u \in Nat, NEW w, w = SetTag(v, u)
  PROVE  /\ Live(m, w)
         /\ IsPointer(v) => /\ w = Held(v.object, u, m.epoch)
                            /\ Keep(m, w) = Pointer(v.object, u)
         /\ ~IsPointer(v) => w = v
<1>1. CASE IsNumber(v)
  BY <1>1, NumberIs, HeldIs DEF SetTag, Live
<1>2. ASSUME NEW o, NEW t \in Nat, v = Held(o, t, m.epoch), Known(m.fields, o)
      PROVE  /\ Live(m, w) /\ w = Held(o, u, m.epoch) /\ v.object = o /\ IsPointer(v)
             /\ Keep(m, w) = Pointer(o, u)
  <2>1. w = Held(o, u, m.epoch) /\ v.object = o /\ IsPointer(v)
    BY <1>2, HeldIs
  <2>2. Live(m, w)
    BY <1>2, <2>1 DEF Live
  <2> QED
    BY <2>1, <2>2, KeepIs
<1> QED
  BY <1>1, <1>2 DEF Live

(* What is read through a pointer that is held. *)
LEMMA ReadIs ==
  ASSUME NEW m, Sound(m), NEW o, NEW t
  PROVE  /\ o \in DOMAIN m.fields =>
              /\ Car(m, Held(o, t, m.epoch)) = Hold(m, m.fields[o].car)
              /\ Cdr(m, Held(o, t, m.epoch)) = Hold(m, m.fields[o].cdr)
         /\ o \in DOMAIN m.fields \cup Parts =>
              Live(m, Car(m, Held(o, t, m.epoch))) /\ Live(m, Cdr(m, Held(o, t, m.epoch)))
<1>1. Fresh(m, Held(o, t, m.epoch)) /\ Held(o, t, m.epoch).object = o
  BY HeldIs DEF Fresh
<1>2. o \in DOMAIN m.fields \cup Parts => Stored(m.fields, Rib(m, o).car) /\ Stored(m.fields, Rib(m, o).cdr)
  BY DEF Sound, IsFields, Coded, Rib
<1>3. o \in DOMAIN m.fields => Rib(m, o) = m.fields[o]
  BY DEF Rib
<1> QED
  BY <1>1, <1>2, <1>3, HoldIs DEF Car, Cdr

(* What is in a field may be stored.                                       *)
LEMMA FieldIs ==
  ASSUME NEW m, Sound(m), NEW o \in DOMAIN m.fields
  PROVE  /\ Stored(m.fields, m.fields[o].car) /\ Stored(m.fields, m.fields[o].cdr)
         /\ IsHeap(o) \/ IsSymbol(o)
BY DEF Sound, IsFields

(* Nothing but garbage is read where nothing may be read.                  *)
LEMMA ReadNothing ==
  ASSUME NEW m, NEW v, Live(m, v), ~Readable(m.fields, v), IsPointer(v) => v.object \notin Parts
  PROVE  Car(m, v) = Garbage /\ Cdr(m, v) = Garbage
<1>1. CASE ~IsPointer(v)
  BY <1>1 DEF Car, Cdr, Fresh
<1>2. CASE IsPointer(v)
  <2>1. PICK x : v.object = Symbol(x)
    BY <1>2, KeepIs DEF Known, Readable, IsSymbol
  <2>2. v.object \notin DOMAIN m.fields /\ Fresh(m, v)
    BY <1>2, KeepIs, HeldIs DEF Readable, Fresh
  <2>3. Static(v.object) = [car |-> Garbage, cdr |-> Garbage]
    BY <2>1 DEF Static, Symbol
  <2>4. Hold(m, Garbage) = Garbage
    BY GarbageIs DEF Hold
  <2> QED
    BY <2>2, <2>3, <2>4 DEF Car, Cdr, Rib
<1> QED
  BY <1>1, <1>2

-----------------------------------------------------------------------------
(* What a collection keeps. *)

(* Counting up from zero.                                                  *)
LEMMA Upwards ==
  ASSUME NEW n \in Nat, NEW S, 0 \in S, \A j \in 1 .. n : j - 1 \in S => j \in S
  PROVE  0 .. n \subseteq S
<1> DEFINE Less == {ss \in Nat \X Nat : ss[1] < ss[2]}
           T == {j \in 0 .. n : j \notin S}
<1>1. SUFFICES ASSUME T # {}
               PROVE  FALSE
  OBVIOUS
<1>2. IsWellFoundedOn(Less, Nat)
  BY NatLessThanWellFounded DEF OpToRel
<1>3. T \subseteq Nat
  OBVIOUS
<1>4. PICK least \in T : \A y \in T : <<y, least>> \notin Less
  <2> HIDE DEF Less, T
  <2> QED
    BY <1>1, <1>2, <1>3, WFMin
<1>5. least \in 1 .. n /\ least \notin S
  <2>1. least \in 0 .. n /\ least \notin S
    BY <1>4
  <2> QED
    BY <2>1
<1>6. least - 1 \in T
  BY <1>5
<1>7. <<least - 1, least>> \in Less
  BY <1>5
<1> QED
  BY <1>4, <1>6, <1>7

RibsOf(f, S) == HeapPointers({f[o].car : o \in S} \cup {f[o].cdr : o \in S}) \cap DOMAIN f

(* A round of Reachable: conses seen, and those to look at. *)
Round(f, r) == IF r[2] = {} THEN r ELSE <<r[1] \cup r[2], RibsOf(f, r[2]) \ (r[1] \cup r[2])>>

Rounds(g, f, R, n) ==
  g = [k \in 0 .. n |-> IF k = 0 THEN {<<{}, R>>} ELSE {Round(f, r) : r \in g[k - 1]}]

(* The rounds of Reachable are a function.                                 *)
LEMMA RoundsExist ==
  ASSUME NEW f, NEW R, NEW n \in Nat
  PROVE  \E g : Rounds(g, f, R, n)
<1> DEFINE S == {m \in Nat : \E g : Rounds(g, f, R, m)}
<1>1. 0 \in S
  <2>1. PICK g : g = [j \in 0 .. 0 |-> {<<{}, R>>}]
    OBVIOUS
  <2>2. Rounds(g, f, R, 0)
    BY <2>1 DEF Rounds
  <2> QED
    BY <2>2
<1>2. ASSUME NEW m \in 1 .. n, m - 1 \in S
      PROVE  m \in S
  <2>1. PICK g : Rounds(g, f, R, m - 1)
    BY <1>2
  <2>2. PICK last : last = {Round(f, r) : r \in g[m - 1]}
    OBVIOUS
  <2>3. PICK h : h = [j \in 0 .. m |-> IF j < m THEN g[j] ELSE last]
    OBVIOUS
  <2>4. ASSUME NEW j \in 0 .. m
        PROVE  h[j] = IF j = 0 THEN {<<{}, R>>} ELSE {Round(f, r) : r \in h[j - 1]}
    <3>1. CASE j = m
      <4>1. h[j] = last /\ h[j - 1] = g[m - 1] /\ j # 0
        BY <2>3, <3>1
      <4> QED
        BY <2>2, <4>1, Zenon
    <3>2. CASE j # m
      <4>1. j \in 0 .. m - 1 /\ h[j] = g[j] /\ (j # 0 => h[j - 1] = g[j - 1])
        BY <2>3, <3>2
      <4>2. g[j] = IF j = 0 THEN {<<{}, R>>} ELSE {Round(f, r) : r \in g[j - 1]}
        BY <2>1, <4>1, Zenon DEF Rounds
      <4> QED
        BY <4>1, <4>2, Zenon
    <3> QED
      BY <3>1, <3>2
  <2>5. Rounds(h, f, R, m)
    <3>1. h = [j \in 0 .. m |-> h[j]]
      BY <2>3
    <3> QED
      BY <2>4, <3>1, Zenon DEF Rounds
  <2> QED
    BY <2>5
<1>3. 0 .. n \subseteq S
  <2> HIDE DEF S
  <2> QED
    BY <1>1, <1>2, Upwards
<1> QED
  BY <1>3

(* After k rounds. *)
Seen(f, R, r, k) ==
  \E a, b \in SUBSET DOMAIN f :
    /\ r = <<a, b>>
    /\ a \cap b = {} /\ R \subseteq a \cup b /\ RibsOf(f, a) \subseteq a \cup b
    /\ b = {} \/ k <= Cardinality(a)

(* What two sets of conses point to together is what each points to.       *)
LEMMA RibsOfUnion ==
  ASSUME NEW f, NEW a, NEW b
  PROVE  RibsOf(f, a \cup b) = RibsOf(f, a) \cup RibsOf(f, b)
BY DEF RibsOf, HeapPointers

(* A round sees one cons more, or nothing is left to look at.              *)
LEMMA SeenMore ==
  ASSUME NEW f, IsFiniteSet(DOMAIN f), NEW R, NEW r, NEW k \in Nat, Seen(f, R, r, k)
  PROVE  Seen(f, R, Round(f, r), k + 1)
<1>1. PICK a \in SUBSET DOMAIN f, b \in SUBSET DOMAIN f :
        /\ r = <<a, b>>
        /\ a \cap b = {} /\ R \subseteq a \cup b /\ RibsOf(f, a) \subseteq a \cup b
        /\ b = {} \/ k <= Cardinality(a)
  BY DEF Seen
<1>2. CASE b = {}
  <2>1. Round(f, r) = r
    BY <1>1, <1>2 DEF Round
  <2> QED
    BY <1>1, <1>2, <2>1 DEF Seen
<1>3. CASE b # {}
  <2>1. PICK c : c = RibsOf(f, b) \ (a \cup b)
    OBVIOUS
  <2>2. Round(f, r) = <<a \cup b, c>>
    BY <1>1, <1>3, <2>1 DEF Round
  <2>3. c \in SUBSET DOMAIN f /\ (a \cup b) \cap c = {}
    BY <2>1 DEF RibsOf
  <2>4. RibsOf(f, a \cup b) \subseteq (a \cup b) \cup c
    BY <1>1, <2>1, RibsOfUnion
  <2>5. k + 1 <= Cardinality(a \cup b)
    <3>1. IsFiniteSet(a \cup b) /\ a \in SUBSET (a \cup b)
      BY <1>1, FS_Subset
    <3>2. IsFiniteSet(a) /\ Cardinality(a) <= Cardinality(a \cup b)
          /\ (Cardinality(a \cup b) = Cardinality(a) => a \cup b = a)
      BY <3>1, FS_Subset
    <3>3. a \cup b # a
      BY <1>1, <1>3
    <3>4. Cardinality(a) \in Nat /\ Cardinality(a \cup b) \in Nat
      BY <3>1, <3>2, FS_CardinalityType
    <3> QED
      BY <1>1, <1>3, <3>2, <3>3, <3>4
  <2>6. R \subseteq (a \cup b) \cup c /\ a \cup b \in SUBSET DOMAIN f
    BY <1>1
  <2>7. \E a1, b1 \in SUBSET DOMAIN f :
          /\ Round(f, r) = <<a1, b1>>
          /\ a1 \cap b1 = {} /\ R \subseteq a1 \cup b1 /\ RibsOf(f, a1) \subseteq a1 \cup b1
          /\ b1 = {} \/ k + 1 <= Cardinality(a1)
    BY <2>2, <2>3, <2>4, <2>5, <2>6
  <2> QED
    BY <2>7 DEF Seen
<1> QED
  BY <1>2, <1>3

(* After as many rounds as there are conses, all that is pointed to is     *)
(* seen.                                                                   *)
LEMMA SeenAll ==
  ASSUME NEW f, IsFiniteSet(DOMAIN f), NEW R, NEW r, Seen(f, R, r, Cardinality(DOMAIN f))
  PROVE  r[1] \cup r[2] \subseteq DOMAIN f /\ R \subseteq r[1] \cup r[2]
         /\ RibsOf(f, r[1] \cup r[2]) \subseteq r[1] \cup r[2]
<1>1. PICK a \in SUBSET DOMAIN f, b \in SUBSET DOMAIN f :
        /\ r = <<a, b>>
        /\ a \cap b = {} /\ R \subseteq a \cup b /\ RibsOf(f, a) \subseteq a \cup b
        /\ b = {} \/ Cardinality(DOMAIN f) <= Cardinality(a)
  BY DEF Seen
<1>2. b = {}
  <2>1. IsFiniteSet(a) /\ Cardinality(a) <= Cardinality(DOMAIN f)
        /\ (Cardinality(DOMAIN f) = Cardinality(a) => DOMAIN f = a)
    BY <1>1, FS_Subset
  <2>2. Cardinality(a) \in Nat /\ Cardinality(DOMAIN f) \in Nat
    BY <2>1, FS_CardinalityType
  <2>3. CASE Cardinality(DOMAIN f) <= Cardinality(a)
    BY <1>1, <2>1, <2>2, <2>3
  <2> QED
    BY <1>1, <2>3
<1> QED
  BY <1>1, <1>2

(* Each round of Reachable is as Seen says.                                *)
LEMMA RoundsSee ==
  ASSUME NEW f, IsFiniteSet(DOMAIN f), NEW R \in SUBSET DOMAIN f, NEW n \in Nat,
         NEW g, Rounds(g, f, R, n)
  PROVE  /\ \A r \in g[n] : Seen(f, R, r, n)
         /\ g[n] # {}
<1> DEFINE S == {k \in 0 .. n : g[k] # {} /\ \A r \in g[k] : Seen(f, R, r, k)}
<1>1. \A k \in 0 .. n : g[k] = IF k = 0 THEN {<<{}, R>>} ELSE {Round(f, r) : r \in g[k - 1]}
  BY Zenon DEF Rounds
<1>2. 0 \in S
  <2>1. 0 \in 0 .. n
    OBVIOUS
  <2>3. g[0] = {<<{}, R>>}
    BY <1>1, <2>1, Zenon
  <2>2. Seen(f, R, <<{}, R>>, 0)
    <3>1. RibsOf(f, {}) = {} /\ Cardinality({}) = 0
      BY FS_EmptySet DEF RibsOf, HeapPointers
    <3>2. \E a, b \in SUBSET DOMAIN f :
            /\ <<{}, R>> = <<a, b>>
            /\ a \cap b = {} /\ R \subseteq a \cup b /\ RibsOf(f, a) \subseteq a \cup b
            /\ b = {} \/ 0 <= Cardinality(a)
      BY <3>1
    <3> QED
      BY <3>2 DEF Seen
  <2>4. g[0] # {} /\ \A r \in g[0] : Seen(f, R, r, 0)
    BY <2>2, <2>3, Zenon
  <2> QED
    BY <2>1, <2>4, Zenon
<1>3. ASSUME NEW k \in 1 .. n, k - 1 \in S
      PROVE  k \in S
  <2>1. k \in 0 .. n /\ k # 0 /\ k - 1 \in Nat /\ (k - 1) + 1 = k
    OBVIOUS
  <2>2. g[k] = {Round(f, r) : r \in g[k - 1]}
    BY <1>1, <2>1, Zenon
  <2>3. g[k - 1] # {} /\ \A r \in g[k - 1] : Seen(f, R, r, k - 1)
    BY <1>3, Zenon
  <2>4. ASSUME NEW r \in g[k - 1]
        PROVE  Seen(f, R, Round(f, r), k)
    <3>1. Seen(f, R, Round(f, r), (k - 1) + 1)
      BY <2>1, <2>3, SeenMore
    <3> QED
      BY <2>1, <3>1
  <2>5. g[k] # {} /\ \A r \in g[k] : Seen(f, R, r, k)
    BY <2>2, <2>3, <2>4, Zenon
  <2> QED
    BY <2>1, <2>5, Zenon
<1>4. 0 .. n \subseteq S
  <2> HIDE DEF S
  <2> QED
    BY <1>2, <1>3, Upwards
<1> QED
  BY <1>4

(* What Reachable finds is in the graph, with all it points to.            *)
Closed(m, extra, R) ==
  /\ R \subseteq DOMAIN m.fields
  /\ \A o \in DOMAIN m.fields : "symbol" \in DOMAIN o => o \in R
  /\ HeapPointers({m.code, m.stack, m.register} \cup extra) \cap DOMAIN m.fields \subseteq R
  /\ RibsOf(m.fields, R) \subseteq R

(* Reachable(m, extra) is closed: symbols, roots, and what is pointed to.  *)
LEMMA ReachableIsClosed ==
  ASSUME NEW m, IsFiniteSet(DOMAIN m.fields), NEW extra
  PROVE  Closed(m, extra, Reachable(m, extra))
<1> DEFINE f == m.fields
           R0 == {o \in DOMAIN f : "symbol" \in DOMAIN o}
                   \cup (HeapPointers({m.code, m.stack, m.register} \cup extra) \cap DOMAIN f)
           N == Cardinality(DOMAIN f)
           Is(reach) == reach = [n \in 0 .. N |->
                          IF n = 0
                          THEN {<<{}, R0>>}
                          ELSE {IF r[2] = {} THEN r
                                ELSE <<r[1] \cup r[2],
                                       (HeapPointers({f[o].car : o \in r[2]} \cup {f[o].cdr : o \in r[2]})
                                          \cap DOMAIN f) \ (r[1] \cup r[2])>> :
                                  r \in reach[n - 1]}]
           F == CHOOSE reach : Is(reach)
<1>1. Reachable(m, extra) = UNION {r[1] \cup r[2] : r \in F[N]}
  BY Zenon DEF Reachable
<1>2. N \in Nat
  BY FS_CardinalityType
<1>3. \E g : Is(g)
  <2>1. PICK g : Rounds(g, f, R0, N)
    BY <1>2, RoundsExist
  <2>2. Is(g)
    BY <2>1, Zenon DEF Rounds, Round, RibsOf
  <2> QED
    BY <2>2
<1>4. Is(F)
  BY <1>3, Zenon
<1>5. Rounds(F, f, R0, N)
  <2> HIDE DEF F
  <2> QED
    BY <1>4, Zenon DEF Rounds, Round, RibsOf
<1>6. PICK g : g = F
  OBVIOUS
<1>7. (\A r \in g[N] : Seen(f, R0, r, N)) /\ g[N] # {}
  <2>1. R0 \in SUBSET DOMAIN f
    OBVIOUS
  <2> HIDE DEF R0, F
  <2> QED
    BY <1>2, <1>5, <1>6, <2>1, RoundsSee
<1>8. \A r \in g[N] : /\ r[1] \cup r[2] \subseteq DOMAIN f /\ R0 \subseteq r[1] \cup r[2]
                      /\ RibsOf(f, r[1] \cup r[2]) \subseteq r[1] \cup r[2]
  BY <1>7, SeenAll
<1>9. PICK R : R = UNION {r[1] \cup r[2] : r \in g[N]}
  OBVIOUS
<1>10. R \subseteq DOMAIN f /\ R0 \subseteq R
  <2> HIDE DEF R0
  <2> QED
    BY <1>7, <1>8, <1>9
<1>11. RibsOf(f, R) \subseteq R
  <2>1. ASSUME NEW o \in RibsOf(f, R)
        PROVE  o \in R
    <3>1. PICK p \in R : o \in RibsOf(f, {p})
      BY <2>1 DEF RibsOf, HeapPointers
    <3>2. PICK r \in g[N] : p \in r[1] \cup r[2]
      BY <1>9, <3>1
    <3>3. RibsOf(f, {p}) \subseteq RibsOf(f, r[1] \cup r[2])
      BY <3>2 DEF RibsOf, HeapPointers
    <3> QED
      BY <1>8, <1>9, <3>1, <3>2, <3>3
  <2> QED
    BY <2>1
<1>12. R = Reachable(m, extra)
  <2> HIDE DEF F
  <2> QED
    BY <1>1, <1>6, <1>9, Zenon
<1>13. Closed(m, extra, R)
  <2> HIDE DEF F, Is
  <2> QED
    BY <1>10, <1>11 DEF Closed
<1> QED
  BY <1>12, <1>13, Zenon

(* A collection (collect_garbages) drops conses, changes none that stay,   *)
(* and keeps what the registers and the extra roots point to.              *)
LEMMA WithoutGarbageIs ==
  ASSUME NEW m, IsFields(m.fields), NEW extra, NEW f \in WithoutGarbage(m, extra)
  PROVE  /\ IsFields(f)
         /\ DOMAIN f \subseteq DOMAIN m.fields
         /\ \A o \in DOMAIN f : f[o] = m.fields[o]
         /\ \A o \in DOMAIN m.fields : IsSymbol(o) => o \in DOMAIN f
         /\ \A v \in {m.code, m.stack, m.register} \cup extra : Stored(m.fields, v) => Stored(f, v)
<1>1. IsFiniteSet(DOMAIN m.fields)
  BY DEF IsFields
<1>2. PICK R : R = Reachable(m, extra)
  OBVIOUS
<1>3. Closed(m, extra, R)
  BY <1>1, <1>2, ReachableIsClosed
<1>4. f = [o \in R |-> m.fields[o]]
  BY <1>2, Zenon DEF WithoutGarbage
<1>5. DOMAIN f = R /\ R \subseteq DOMAIN m.fields /\ \A o \in R : f[o] = m.fields[o]
  BY <1>3, <1>4 DEF Closed
<1>6. \A o \in DOMAIN m.fields : IsSymbol(o) => o \in R
  BY <1>3 DEF Closed, IsSymbol, Symbol
<1>7. ASSUME NEW v, Stored(m.fields, v), IsPointer(v) /\ v.object \in DOMAIN m.fields => v.object \in R
      PROVE  Stored(f, v)
  <2>1. CASE IsNumber(v)
    BY <2>1 DEF Stored
  <2>2. ASSUME NEW o, NEW t \in Nat, v = Pointer(o, t), Known(m.fields, o)
        PROVE  Stored(f, v)
    <3>1. Known(f, o)
      BY <1>5, <1>7, <2>2, PointerIs DEF Known
    <3> QED
      BY <2>2, <3>1 DEF Stored
  <2> QED
    BY <1>7, <2>1, <2>2 DEF Stored
<1>8. \A v \in {m.code, m.stack, m.register} \cup extra : Stored(m.fields, v) => Stored(f, v)
  <2>1. ASSUME NEW v \in {m.code, m.stack, m.register} \cup extra, IsPointer(v),
               v.object \in DOMAIN m.fields
        PROVE  v.object \in R
    BY <1>3, <2>1 DEF Closed, HeapPointers
  <2> QED
    BY <1>7, <2>1
<1>9. ASSUME NEW o \in R
      PROVE  Stored(f, f[o].car) /\ Stored(f, f[o].cdr)
  <2>1. f[o] = m.fields[o] /\ Stored(m.fields, f[o].car) /\ Stored(m.fields, f[o].cdr)
    BY <1>5 DEF IsFields
  <2>2. ASSUME NEW v \in {f[o].car, f[o].cdr}, IsPointer(v), v.object \in DOMAIN m.fields
        PROVE  v.object \in R
    <3>1. v.object \in RibsOf(m.fields, R)
      BY <2>1, <2>2 DEF RibsOf, HeapPointers
    <3> QED
      BY <1>3, <3>1 DEF Closed
  <2> QED
    BY <1>7, <2>1, <2>2
<1>10. IsFields(f)
  <2>1. IsFiniteSet(DOMAIN f)
    BY <1>1, <1>5, FS_Subset
  <2>2. Null.object \in DOMAIN f
    <3>1. Null.object = Symbol("()")
      BY PointerIs DEF Null
    <3> QED
      BY <1>5, <1>6, <3>1 DEF IsFields, IsSymbol
  <2>3. f = [o \in DOMAIN f |-> f[o]]
    BY <1>4, <1>5
  <2>4. ASSUME NEW o \in DOMAIN f
        PROVE  (IsHeap(o) \/ IsSymbol(o)) /\ f[o] = [car |-> f[o].car, cdr |-> f[o].cdr]
    <3>1. o \in DOMAIN m.fields /\ f[o] = m.fields[o]
      BY <1>5
    <3> QED
      BY <3>1, Zenon DEF IsFields
  <2> QED
    BY <1>5, <1>9, <2>1, <2>2, <2>3, <2>4, Zenon DEF IsFields
<1> QED
  BY <1>5, <1>6, <1>8, <1>10

-----------------------------------------------------------------------------
(* Allocation. *)

Inside(m) == Sound(m) /\ IsFiniteSet(DOMAIN fields)

(* An allocated cons is new, to the memory and to the instruction.         *)
LEMMA NewObjectIs ==
  ASSUME NEW m, Inside(m), NEW o \in NewObject(m)
  PROVE  IsHeap(o) /\ o \notin DOMAIN m.fields /\ o \notin DOMAIN fields
<1> DEFINE S == {p \in DOMAIN m.fields \cup DOMAIN fields : "heap" \in DOMAIN p}
           used == {p.heap : p \in S}
           g == [p \in S |-> p.heap]
<1>1. IsFiniteSet(S)
  <2>1. IsFiniteSet(DOMAIN m.fields) /\ IsFiniteSet(DOMAIN fields)
    BY DEF Inside, Sound, IsFields
  <2>2. IsFiniteSet(DOMAIN m.fields \cup DOMAIN fields)
    BY <2>1, FS_Union
  <2> QED
    BY <2>2, FS_Subset
<1>2. IsFiniteSet(used)
  <2>1. g \in Surjection(S, used)
    BY DEF Surjection
  <2> HIDE DEF g, S, used
  <2> QED
    BY <1>1, <2>1, FS_Surjection
<1>3. \E i \in 1 .. Cardinality(used) + 1 : i \notin used
  <2> HIDE DEF used
  <2>1. PICK c \in Nat : c = Cardinality(used)
    BY <1>2, FS_CardinalityType
  <2>2. SUFFICES ASSUME 1 .. c + 1 \subseteq used
                 PROVE  FALSE
    BY <2>1
  <2>3. Cardinality(1 .. c + 1) <= c
    BY <1>2, <2>1, <2>2, FS_Subset
  <2>4. Cardinality(1 .. c + 1) = c + 1
    <3>1. 1 \in Int /\ c + 1 \in Int /\ ~(1 > c + 1) /\ c + 1 - 1 + 1 = c + 1
      BY <2>1
    <3> QED
      BY <3>1, FS_Interval
  <2> QED
    BY <2>3, <2>4
<1>4. PICK i : o = [heap |-> i] /\ i \notin used
  <2>1. o = [heap |-> CHOOSE i \in 1 .. Cardinality(used) + 1 : i \notin used]
    BY Zenon DEF NewObject
  <2>2. (CHOOSE i \in 1 .. Cardinality(used) + 1 : i \notin used) \notin used
    <3> HIDE DEF used
    <3> QED
      BY <1>3
  <2> QED
    BY <2>1, <2>2
<1>5. o.heap = i /\ IsHeap(o)
  BY <1>4 DEF IsHeap
<1>6. o \notin S
  BY <1>4, <1>5
<1> QED
  BY <1>5, <1>6 DEF IsHeap

(* From m to n a cons o was allocated, and conses may have been collected. *)
Grown(m, n, o, a, d) ==
  /\ n.code = m.code /\ n.stack = m.stack /\ n.register = m.register /\ n.error = m.error
  /\ o \notin DOMAIN m.fields /\ o \notin DOMAIN fields /\ IsHeap(o)
  /\ o \in DOMAIN n.fields /\ DOMAIN n.fields \subseteq DOMAIN m.fields \cup {o}
  /\ n.fields[o] = [car |-> Keep(m, a), cdr |-> Keep(m, d)]
  /\ \A p \in DOMAIN n.fields : p # o => n.fields[p] = m.fields[p]
  /\ \A p \in DOMAIN m.fields : IsSymbol(p) => p \in DOMAIN n.fields
  /\ n.cons = Held(o, PairType, n.epoch)

(* What setting one part of a memory leaves. *)
LEMMA SetCodeIs ==
  ASSUME NEW m, IsMemory(m), NEW x, NEW n, n = [m EXCEPT !.code = x]
  PROVE  /\ IsMemory(n) /\ n.code = x
         /\ n.stack = m.stack /\ n.register = m.register /\ n.fields = m.fields /\ n.error = m.error
         /\ n.profile = m.profile /\ n.epoch = m.epoch /\ n.cons = m.cons
BY DEF IsMemory, MemoryOf

LEMMA SetStackIs ==
  ASSUME NEW m, IsMemory(m), NEW x, NEW n, n = [m EXCEPT !.stack = x]
  PROVE  /\ IsMemory(n) /\ n.stack = x
         /\ n.code = m.code /\ n.register = m.register /\ n.fields = m.fields /\ n.error = m.error
         /\ n.profile = m.profile /\ n.epoch = m.epoch /\ n.cons = m.cons
BY DEF IsMemory, MemoryOf

LEMMA SetRegisterIs ==
  ASSUME NEW m, IsMemory(m), NEW x, NEW n, n = [m EXCEPT !.register = x]
  PROVE  /\ IsMemory(n) /\ n.register = x
         /\ n.code = m.code /\ n.stack = m.stack /\ n.fields = m.fields /\ n.error = m.error
         /\ n.profile = m.profile /\ n.epoch = m.epoch /\ n.cons = m.cons
BY DEF IsMemory, MemoryOf

LEMMA SetFieldsIs ==
  ASSUME NEW m, IsMemory(m), NEW x, NEW n, n = [m EXCEPT !.fields = x]
  PROVE  /\ IsMemory(n) /\ n.fields = x
         /\ n.code = m.code /\ n.stack = m.stack /\ n.register = m.register /\ n.error = m.error
         /\ n.profile = m.profile /\ n.epoch = m.epoch /\ n.cons = m.cons
BY DEF IsMemory, MemoryOf

LEMMA SetErrorIs ==
  ASSUME NEW m, IsMemory(m), NEW x, NEW n, n = [m EXCEPT !.error = x]
  PROVE  /\ IsMemory(n) /\ n.error = x
         /\ n.code = m.code /\ n.stack = m.stack /\ n.register = m.register /\ n.fields = m.fields
         /\ n.profile = m.profile /\ n.epoch = m.epoch /\ n.cons = m.cons
BY DEF IsMemory, MemoryOf

LEMMA SetProfileIs ==
  ASSUME NEW m, IsMemory(m), NEW x, NEW n, n = [m EXCEPT !.profile = x]
  PROVE  /\ IsMemory(n) /\ n.profile = x
         /\ n.code = m.code /\ n.stack = m.stack /\ n.register = m.register /\ n.fields = m.fields
         /\ n.error = m.error /\ n.epoch = m.epoch /\ n.cons = m.cons
BY DEF IsMemory, MemoryOf

LEMMA SetEpochIs ==
  ASSUME NEW m, IsMemory(m), NEW x, NEW n, n = [m EXCEPT !.epoch = x]
  PROVE  /\ IsMemory(n) /\ n.epoch = x
         /\ n.code = m.code /\ n.stack = m.stack /\ n.register = m.register /\ n.fields = m.fields
         /\ n.error = m.error /\ n.profile = m.profile /\ n.cons = m.cons
BY DEF IsMemory, MemoryOf

LEMMA SetConsIs ==
  ASSUME NEW m, IsMemory(m), NEW x, NEW n, n = [m EXCEPT !.cons = x]
  PROVE  /\ IsMemory(n) /\ n.cons = x
         /\ n.code = m.code /\ n.stack = m.stack /\ n.register = m.register /\ n.fields = m.fields
         /\ n.error = m.error /\ n.profile = m.profile /\ n.epoch = m.epoch
BY DEF IsMemory, MemoryOf

(* What may be stored in a graph may be stored in a larger one.            *)
LEMMA StoredMore ==
  ASSUME NEW f, NEW g, NEW v, Stored(f, v), DOMAIN f \subseteq DOMAIN g
  PROVE  Stored(g, v)
BY DEF Stored, Known

(* A cons written to a new place leaves a graph.                           *)
LEMMA WrittenIs ==
  ASSUME NEW m, Sound(m), NEW a, Stored(m.fields, a), NEW d, Stored(m.fields, d), NEW o, IsHeap(o),
         o \notin DOMAIN m.fields,
         NEW f, f = [p \in DOMAIN m.fields \cup {o} |->
                       IF p = o THEN [car |-> a, cdr |-> d] ELSE m.fields[p]]
  PROVE  IsFields(f)
<1>1. DOMAIN f = DOMAIN m.fields \cup {o} /\ f[o] = [car |-> a, cdr |-> d]
      /\ \A p \in DOMAIN m.fields : f[p] = m.fields[p]
  OBVIOUS
<1>2. IsFiniteSet(DOMAIN f)
  BY <1>1, FS_AddElement DEF Sound, IsFields
<1>3. f = [p \in DOMAIN f |-> f[p]]
  BY <1>1
<1>4. ASSUME NEW p \in DOMAIN f
      PROVE  /\ IsHeap(p) \/ IsSymbol(p)
             /\ f[p] = [car |-> f[p].car, cdr |-> f[p].cdr]
             /\ Stored(f, f[p].car) /\ Stored(f, f[p].cdr)
  <2>1. CASE p = o
    <3>1. f[p].car = a /\ f[p].cdr = d
      BY <1>1, <2>1
    <3>2. Stored(f, a) /\ Stored(f, d)
      BY <1>1, StoredMore
    <3> QED
      BY <1>1, <2>1, <3>1, <3>2
  <2>2. CASE p \in DOMAIN m.fields
    <3>1. /\ IsHeap(p) \/ IsSymbol(p)
          /\ m.fields[p] = [car |-> m.fields[p].car, cdr |-> m.fields[p].cdr]
          /\ Stored(m.fields, m.fields[p].car) /\ Stored(m.fields, m.fields[p].cdr)
      BY <2>2, Zenon DEF Sound, IsFields
    <3>2. f[p] = m.fields[p]
      BY <1>1, <2>2
    <3>3. Stored(f, m.fields[p].car) /\ Stored(f, m.fields[p].cdr)
      BY <1>1, <3>1, StoredMore
    <3> QED
      BY <3>1, <3>2, <3>3
  <2> QED
    BY <1>1, <2>1, <2>2
<1>5. Null.object \in DOMAIN f
  BY <1>1 DEF Sound, IsFields
<1> QED
  BY <1>2, <1>3, <1>4, <1>5, Zenon DEF IsFields

(* A collection, if any, leaves a sound memory and the extra root.         *)
LEMMA CollectedIs ==
  ASSUME NEW m, Inside(m), NEW x, Stored(m.fields, x), NEW n \in {m} \cup Collected(m, {x})
  PROVE  /\ Inside(n)
         /\ n.code = m.code /\ n.stack = m.stack /\ n.register = m.register /\ n.error = m.error
         /\ DOMAIN n.fields \subseteq DOMAIN m.fields
         /\ \A p \in DOMAIN n.fields : n.fields[p] = m.fields[p]
         /\ \A p \in DOMAIN m.fields : IsSymbol(p) => p \in DOMAIN n.fields
         /\ Stored(n.fields, x)
<1>1. CASE n = m
  BY <1>1
<1>2. CASE n \in Collected(m, {x})
  <2>1. PICK f \in WithoutGarbage(m, {x}) : n = [m EXCEPT !.fields = f, !.epoch = @ + 1]
    BY <1>2, Zenon DEF Collected
  <2>2. PICK ep : ep = m.epoch + 1
    OBVIOUS
  <2>3. PICK l : l = [m EXCEPT !.fields = f]
    OBVIOUS
  <2>4. /\ n.code = m.code /\ n.stack = m.stack /\ n.register = m.register /\ n.error = m.error
        /\ n.fields = f /\ n.epoch = ep /\ IsMemory(n)
    <3>1. IsMemory(l) /\ l.fields = f /\ l.code = m.code /\ l.stack = m.stack
          /\ l.register = m.register /\ l.error = m.error /\ l.epoch = m.epoch
      <4>1. IsMemory(m)
        BY DEF Inside, Sound
      <4> QED
        BY <2>3, <4>1, SetFieldsIs
    <3>2. n = [l EXCEPT !.epoch = ep]
      BY <2>1, <2>2, <2>3
    <3> QED
      BY <3>1, <3>2, SetEpochIs
  <2>5. IsFields(m.fields) /\ ep \in Nat
    BY <2>2 DEF Inside, Sound
  <2>6. /\ IsFields(f)
        /\ DOMAIN f \subseteq DOMAIN m.fields
        /\ \A o \in DOMAIN f : f[o] = m.fields[o]
        /\ \A o \in DOMAIN m.fields : IsSymbol(o) => o \in DOMAIN f
        /\ \A v \in {m.code, m.stack, m.register} \cup {x} : Stored(m.fields, v) => Stored(f, v)
    BY <2>1, <2>5, WithoutGarbageIs
  <2>7. Inside(n)
    BY <2>4, <2>5, <2>6 DEF Inside, Sound
  <2> QED
    BY <2>4, <2>6, <2>7
<1> QED
  BY <1>1, <1>2

(* An allocation (allocate) of what is held leaves a sound memory with the *)
(* new cons, and nothing else new, even when it collects.                  *)
LEMMA AllocateIs ==
  ASSUME NEW m, Inside(m), NEW a, Live(m, a), NEW d, Live(m, d), NEW n \in Allocate(m, a, d)
  PROVE  Inside(n) /\ \E o : Grown(m, n, o, a, d)
<1>1. PICK a1, d1 : a1 = Keep(m, a) /\ d1 = Keep(m, d)
  OBVIOUS
<1>2. PICK o \in NewObject(m) :
        n \in {[k EXCEPT !.cons = Hold(k, Pointer(o, PairType))] :
               k \in UNION {{w} \cup Collected(w, {Pointer(o, PairType)}) :
                            w \in {[m EXCEPT !.fields = [p \in DOMAIN m.fields \cup {o} |->
                                     IF p = o THEN [car |-> a1, cdr |-> d1] ELSE m.fields[p]]]}}}
  BY <1>1, Zenon DEF Allocate
<1>3. PICK f1 : f1 = [p \in DOMAIN m.fields \cup {o} |->
                       IF p = o THEN [car |-> a1, cdr |-> d1] ELSE m.fields[p]]
  OBVIOUS
<1>4. PICK w : w = [m EXCEPT !.fields = f1]
  OBVIOUS
<1>5. PICK k \in {w} \cup Collected(w, {Pointer(o, PairType)}) :
        n = [k EXCEPT !.cons = Hold(k, Pointer(o, PairType))]
  BY <1>2, <1>3, <1>4, Zenon
<1>6. IsHeap(o) /\ o \notin DOMAIN m.fields /\ o \notin DOMAIN fields
  BY NewObjectIs
<1>7. Stored(m.fields, a1) /\ Stored(m.fields, d1)
  BY <1>1, KeepIs
<1>8. IsFields(f1)
  BY <1>3, <1>6, <1>7, WrittenIs DEF Inside
<1>9. DOMAIN f1 = DOMAIN m.fields \cup {o} /\ f1[o] = [car |-> a1, cdr |-> d1]
      /\ \A p \in DOMAIN m.fields : p # o => f1[p] = m.fields[p]
  BY <1>3
<1>10. IsMemory(m)
  BY DEF Inside, Sound
<1>11. /\ w.code = m.code /\ w.stack = m.stack /\ w.register = m.register /\ w.fields = f1
       /\ w.error = m.error /\ w.epoch = m.epoch /\ IsMemory(w)
  BY <1>4, <1>10, SetFieldsIs
<1>12. Stored(f1, m.code) /\ Stored(f1, m.stack) /\ Stored(f1, m.register)
  BY <1>9, StoredMore DEF Inside, Sound
<1>13. Stored(f1, Pointer(o, PairType))
  BY <1>9 DEF Stored, Known, PairType
<1>14. Inside(w)
  BY <1>8, <1>11, <1>12 DEF Inside, Sound
<1>15. /\ Inside(k)
       /\ k.code = w.code /\ k.stack = w.stack /\ k.register = w.register /\ k.error = w.error
       /\ DOMAIN k.fields \subseteq DOMAIN f1
       /\ \A p \in DOMAIN k.fields : k.fields[p] = f1[p]
       /\ \A p \in DOMAIN f1 : IsSymbol(p) => p \in DOMAIN k.fields
       /\ Stored(k.fields, Pointer(o, PairType))
  <2>1. PICK x : x = Pointer(o, PairType)
    OBVIOUS
  <2>2. k \in {w} \cup Collected(w, {x}) /\ Stored(w.fields, x)
    BY <1>5, <1>11, <1>13, <2>1
  <2>3. /\ Inside(k)
        /\ k.code = w.code /\ k.stack = w.stack /\ k.register = w.register /\ k.error = w.error
        /\ DOMAIN k.fields \subseteq DOMAIN w.fields
        /\ \A p \in DOMAIN k.fields : k.fields[p] = w.fields[p]
        /\ \A p \in DOMAIN w.fields : IsSymbol(p) => p \in DOMAIN k.fields
        /\ Stored(k.fields, x)
    BY <1>14, <2>2, CollectedIs
  <2> QED
    BY <1>11, <2>1, <2>3
<1>16. o \in DOMAIN k.fields
  <2>1. PICK o1, t : Pointer(o, PairType) = Pointer(o1, t) /\ Known(k.fields, o1)
    BY <1>15, PointerIs, NumberIs DEF Stored
  <2>2. Known(k.fields, o)
    BY <2>1, PointerIs
  <2>3. o \notin Parts /\ ~IsSymbol(o)
    BY <1>6 DEF Inside, Sound, Coded, IsStatic, IsHeap, IsSymbol, Symbol
  <2> QED
    BY <2>2, <2>3 DEF Known
<1>17. PICK c : c = Hold(k, Pointer(o, PairType))
  OBVIOUS
<1>18. c = Held(o, PairType, k.epoch)
  BY <1>15, <1>17, HoldIs
<1>19. n = [k EXCEPT !.cons = c] /\ IsMemory(k)
  BY <1>5, <1>15, <1>17 DEF Inside, Sound
<1>20. /\ n.code = k.code /\ n.stack = k.stack /\ n.register = k.register /\ n.fields = k.fields
       /\ n.error = k.error /\ n.epoch = k.epoch /\ n.cons = c /\ IsMemory(n)
  BY <1>19, SetConsIs
<1>21. Inside(n)
  BY <1>15, <1>20 DEF Inside, Sound
<1>22. Grown(m, n, o, a, d)
  <2>1. /\ n.code = m.code /\ n.stack = m.stack /\ n.register = m.register /\ n.error = m.error
        /\ n.cons = Held(o, PairType, n.epoch)
    BY <1>11, <1>15, <1>18, <1>20
  <2>2. n.fields[o] = [car |-> Keep(m, a), cdr |-> Keep(m, d)]
    BY <1>1, <1>9, <1>15, <1>16, <1>20
  <2>3. DOMAIN n.fields \subseteq DOMAIN m.fields \cup {o} /\ o \in DOMAIN n.fields
    BY <1>9, <1>15, <1>16, <1>20
  <2>4. \A p \in DOMAIN n.fields : p # o => n.fields[p] = m.fields[p]
    BY <1>9, <1>15, <1>20
  <2>5. \A p \in DOMAIN m.fields : IsSymbol(p) => p \in DOMAIN n.fields
    BY <1>9, <1>15, <1>20
  <2> QED
    BY <1>6, <2>1, <2>2, <2>3, <2>4, <2>5 DEF Grown
<1> QED
  BY <1>21, <1>22

-----------------------------------------------------------------------------
(* The roots. *)

(* Setting the code to what is held leaves the memory sound.               *)
LEMMA SetCodeKeeps ==
  ASSUME NEW m, Inside(m), NEW c, Live(m, c), NEW n, n = SetCode(m, c)
  PROVE  /\ Inside(n) /\ n.code = Keep(m, c)
         /\ n.stack = m.stack /\ n.register = m.register /\ n.fields = m.fields
         /\ n.error = m.error /\ n.epoch = m.epoch /\ n.cons = m.cons
<1>1. PICK x : x = Keep(m, c)
  OBVIOUS
<1>2. IsMemory(m) /\ n = [m EXCEPT !.code = x]
  BY <1>1 DEF Inside, Sound, SetCode
<1>3. /\ IsMemory(n) /\ n.code = x /\ n.stack = m.stack /\ n.register = m.register
      /\ n.fields = m.fields /\ n.error = m.error /\ n.epoch = m.epoch /\ n.cons = m.cons
  BY <1>2, SetCodeIs
<1>4. Stored(m.fields, x)
  BY <1>1, KeepIs
<1> QED
  BY <1>1, <1>3, <1>4 DEF Inside, Sound

(* Setting the stack to what is held leaves the memory sound.              *)
LEMMA SetStackKeeps ==
  ASSUME NEW m, Inside(m), NEW c, Live(m, c), NEW n, n = SetStack(m, c)
  PROVE  /\ Inside(n) /\ n.stack = Keep(m, c)
         /\ n.code = m.code /\ n.register = m.register /\ n.fields = m.fields
         /\ n.error = m.error /\ n.epoch = m.epoch /\ n.cons = m.cons
<1>1. PICK x : x = Keep(m, c)
  OBVIOUS
<1>2. IsMemory(m) /\ n = [m EXCEPT !.stack = x]
  BY <1>1 DEF Inside, Sound, SetStack
<1>3. /\ IsMemory(n) /\ n.code = m.code /\ n.stack = x /\ n.register = m.register
      /\ n.fields = m.fields /\ n.error = m.error /\ n.epoch = m.epoch /\ n.cons = m.cons
  BY <1>2, SetStackIs
<1>4. Stored(m.fields, x)
  BY <1>1, KeepIs
<1> QED
  BY <1>1, <1>3, <1>4 DEF Inside, Sound

(* Setting the register to what is held leaves the memory sound.           *)
LEMMA SetRegisterKeeps ==
  ASSUME NEW m, Inside(m), NEW c, Live(m, c), NEW n, n = SetRegister(m, c)
  PROVE  /\ Inside(n) /\ n.register = Keep(m, c)
         /\ n.code = m.code /\ n.stack = m.stack /\ n.fields = m.fields
         /\ n.error = m.error /\ n.epoch = m.epoch /\ n.cons = m.cons
<1>1. PICK x : x = Keep(m, c)
  OBVIOUS
<1>2. IsMemory(m) /\ n = [m EXCEPT !.register = x]
  BY <1>1 DEF Inside, Sound, SetRegister
<1>3. /\ IsMemory(n) /\ n.code = m.code /\ n.stack = m.stack /\ n.register = x
      /\ n.fields = m.fields /\ n.error = m.error /\ n.epoch = m.epoch /\ n.cons = m.cons
  BY <1>2, SetRegisterIs
<1>4. Stored(m.fields, x)
  BY <1>1, KeepIs
<1> QED
  BY <1>1, <1>3, <1>4 DEF Inside, Sound

(* What is held and read depends on the graph and the epoch alone.         *)
LEMMA AlikeIs ==
  ASSUME NEW m, NEW n, n.fields = m.fields, n.epoch = m.epoch, NEW v
  PROVE  /\ Live(n, v) <=> Live(m, v)
         /\ Hold(n, v) = Hold(m, v) /\ Keep(n, v) = Keep(m, v)
         /\ Car(n, v) = Car(m, v) /\ Cdr(n, v) = Cdr(m, v)
BY DEF Live, Hold, Keep, Car, Cdr, Fresh, Rib

-----------------------------------------------------------------------------
(* What stays while a cons is allocated. *)

Since(f, g) ==
  /\ \A p \in DOMAIN f \cap DOMAIN g : g[p] = f[p]
  /\ \A p \in DOMAIN f : IsSymbol(p) => p \in DOMAIN g

SinceCars(f, g) ==
  /\ \A p \in DOMAIN f \cap DOMAIN g : g[p].car = f[p].car
  /\ \A p \in DOMAIN f : IsSymbol(p) => p \in DOMAIN g

Plain(f) == \A p \in DOMAIN f : IsHeap(p) \/ IsSymbol(p)

(* An allocation changes no cons that stays, and loses no symbol.          *)
LEMMA SinceGrown ==
  ASSUME NEW m, NEW n, NEW o, NEW a, NEW d, Grown(m, n, o, a, d)
  PROVE  /\ Since(m.fields, n.fields)
         /\ Since(fields, m.fields) => Since(fields, n.fields)
BY DEF Since, Grown

(* What was found in the heap is found in a later graph that points to it. *)
LEMMA StaysInHeap ==
  ASSUME Coded, NEW f, Plain(f), NEW g, SinceCars(f, g), NEW v, Stored(g, v)
  PROVE  /\ InHeap(f, v) => InHeap(g, v)
         /\ Readable(f, v) => Readable(g, v)
<1>1. ASSUME InHeap(f, v)
      PROVE  InHeap(g, v)
  <2>1. PICK o, t : v = Pointer(o, t) /\ Known(g, o)
    BY <1>1, NumberIs DEF Stored, InHeap
  <2>2. v.object = o /\ o \in DOMAIN f
    BY <1>1, <2>1, PointerIs DEF InHeap
  <2>3. CASE IsSymbol(o)
    BY <1>1, <2>2, <2>3 DEF SinceCars, InHeap
  <2>4. CASE IsHeap(o)
    <3>1. o \notin Parts /\ ~IsSymbol(o)
      BY <2>4 DEF Coded, IsStatic, IsHeap, IsSymbol, Symbol
    <3> QED
      BY <1>1, <2>1, <2>2, <3>1 DEF Known, InHeap
  <2> QED
    BY <2>2, <2>3, <2>4 DEF Plain
<1> QED
  BY <1>1 DEF Readable, InHeap

(* A frame whose cons stays is a frame in a later graph.                   *)
LEMMA StaysFrame ==
  ASSUME Coded, NEW f, Plain(f), NEW g, IsFields(g), SinceCars(f, g),
         NEW o \in DOMAIN f \cap DOMAIN g, IsFrame(f, o)
  PROVE  IsFrame(g, o)
<1>1. InHeap(f, f[o].car) /\ Readable(f, f[f[o].car.object].car)
  BY DEF IsFrame
<1>2. g[o].car = f[o].car /\ Stored(g, g[o].car)
  BY DEF SinceCars, IsFields
<1>3. InHeap(g, g[o].car)
  BY <1>1, <1>2, StaysInHeap
<1>4. PICK c : c = f[o].car.object
  OBVIOUS
<1>5. c \in DOMAIN f \cap DOMAIN g /\ Readable(f, f[c].car)
  BY <1>1, <1>2, <1>3, <1>4 DEF InHeap
<1>6. g[c].car = f[c].car /\ Stored(g, g[c].car)
  BY <1>5 DEF SinceCars, IsFields
<1>7. Readable(g, g[c].car)
  BY <1>5, <1>6, StaysInHeap
<1> QED
  BY <1>2, <1>3, <1>4, <1>7 DEF IsFrame

(* A chain of conses stays in a later graph that points to its first one.  *)
LEMMA StaysChain ==
  ASSUME Coded, NEW f, Plain(f), NEW g, IsFields(g), Since(f, g), NEW v, NEW p, NEW n \in Nat,
         IsChain(f, v, p, n), Stored(g, v)
  PROVE  /\ IsChain(g, v, p, n)
         /\ \A i \in 1 .. n : p[i] \in DOMAIN g /\ g[p[i]] = f[p[i]]
<1> DEFINE S == {j \in 0 .. n : j # 0 => p[n + 1 - j] \in DOMAIN g}
<1>1. 0 \in S
  OBVIOUS
<1>2. SinceCars(f, g)
  BY DEF Since, SinceCars
<1>3. ASSUME NEW j \in 1 .. n, j - 1 \in S
      PROVE  j \in S
  <2>1. PICK w : Stored(g, w) /\ PointsTo(w, p[n + 1 - j])
    <3>1. CASE j = 1
      BY <3>1 DEF IsChain
    <3>2. CASE j # 1
      <4>1. PICK i : i = n + 2 - j
        OBVIOUS
      <4>2. i \in 2 .. n /\ i \in 1 .. n /\ n + 1 - (j - 1) = i /\ n + 1 - j = i - 1
        BY <3>2, <4>1
      <4>3. p[i] \in DOMAIN g
        BY <1>3, <3>2, <4>2
      <4>4. p[i] \in DOMAIN f /\ PointsTo(f[p[i]].cdr, p[i - 1])
        BY <4>2 DEF IsChain
      <4>5. g[p[i]] = f[p[i]] /\ Stored(g, g[p[i]].cdr)
        BY <4>3, <4>4 DEF Since, IsFields
      <4> QED
        BY <4>2, <4>4, <4>5
    <3> QED
      BY <3>1, <3>2
  <2>2. p[n + 1 - j] \in DOMAIN f
    <3>1. n + 1 - j \in 1 .. n
      OBVIOUS
    <3> QED
      BY <3>1 DEF IsChain
  <2>3. InHeap(f, w)
    BY <2>1, <2>2 DEF PointsTo, InHeap
  <2>4. InHeap(g, w)
    BY <1>2, <2>1, <2>3, StaysInHeap
  <2> QED
    BY <2>1, <2>4 DEF PointsTo, InHeap
<1>4. 0 .. n \subseteq S
  <2> HIDE DEF S
  <2> QED
    BY <1>1, <1>3, Upwards
<1>5. ASSUME NEW i \in 1 .. n
      PROVE  p[i] \in DOMAIN g /\ g[p[i]] = f[p[i]]
  <2>1. n + 1 - i \in S /\ n + 1 - i # 0 /\ n + 1 - (n + 1 - i) = i
    <3>1. n + 1 - i \in 0 .. n
      OBVIOUS
    <3> HIDE DEF S
    <3> QED
      BY <1>4, <3>1
  <2>2. p[i] \in DOMAIN g
    BY <2>1
  <2> QED
    BY <2>2 DEF IsChain, Since
<1>6. IsChain(g, v, p, n)
  BY <1>5 DEF IsChain
<1> QED
  BY <1>5, <1>6

(* A stack stays in a later graph that points to its top.                  *)
LEMMA StaysStack ==
  ASSUME Coded, NEW f, Plain(f), NEW g, IsFields(g), Since(f, g), NEW v, NEW p, NEW n \in Nat,
         IsStack(f, v, p, n), Stored(g, v)
  PROVE  /\ IsStack(g, v, p, n)
         /\ \A i \in 1 .. n : p[i] \in DOMAIN g /\ g[p[i]] = f[p[i]]
<1>1. IsChain(g, v, p, n) /\ \A i \in 1 .. n : p[i] \in DOMAIN g /\ g[p[i]] = f[p[i]]
  BY StaysChain DEF IsStack
<1> QED
  BY <1>1 DEF IsStack

(* A list stays in a later graph that points to its head.                  *)
LEMMA StaysList ==
  ASSUME Coded, NEW f, Plain(f), NEW g, IsFields(g), Since(f, g), NEW v, NEW p, NEW n \in Nat,
         IsListOf(f, v, p, n), Stored(g, v)
  PROVE  /\ IsListOf(g, v, p, n)
         /\ \A i \in 1 .. n : p[i] \in DOMAIN g /\ g[p[i]] = f[p[i]]
<1>1. IsChain(g, v, p, n) /\ \A i \in 1 .. n : p[i] \in DOMAIN g /\ g[p[i]] = f[p[i]]
  BY StaysChain DEF IsListOf
<1>2. n # 0 => 1 \in 1 .. n
  OBVIOUS
<1> QED
  BY <1>1, <1>2 DEF IsListOf

-----------------------------------------------------------------------------
(* The stack. *)

(* An instruction runs at m: n conses p on the stack, down to a frame.     *)
At(m, p, n) ==
  /\ Inside(m) /\ m.error = "none"
  /\ Readable(m.fields, m.code)
  /\ n \in Nat /\ IsStack(m.fields, m.stack, p, n) /\ IsFrame(m.fields, p[1])

(* The top of the stack and the rest of it are held.                       *)
LEMMA TopIs ==
  ASSUME NEW m, NEW p, NEW n, At(m, p, n)
  PROVE  /\ n \in Nat /\ n > 0 /\ p[n] \in DOMAIN m.fields
         /\ \E t \in Nat : m.stack = Pointer(p[n], t) /\ Stack(m) = Held(p[n], t, m.epoch)
         /\ Live(m, Stack(m))
         /\ Top(m) = Hold(m, m.fields[p[n]].car) /\ Live(m, Top(m))
         /\ Keep(m, Top(m)) = m.fields[p[n]].car
         /\ Cdr(m, Stack(m)) = Hold(m, m.fields[p[n]].cdr) /\ Live(m, Cdr(m, Stack(m)))
         /\ Keep(m, Cdr(m, Stack(m))) = m.fields[p[n]].cdr
<1>1. /\ n \in Nat /\ n > 0 /\ PointsTo(m.stack, p[n]) /\ p[n] \in DOMAIN m.fields
  BY DEF At, IsStack, IsChain
<1>2. Sound(m) /\ IsFields(m.fields) /\ Stored(m.fields, m.stack)
  BY DEF At, Inside, Sound
<1>3. PICK t \in Nat : m.stack = Pointer(p[n], t)
  BY <1>1, <1>2, NumberIs, PointerIs DEF Stored, PointsTo
<1>4. Stack(m) = Held(p[n], t, m.epoch) /\ Live(m, Stack(m))
  BY <1>2, <1>3, HoldIs DEF Stack
<1>5. Stored(m.fields, m.fields[p[n]].car) /\ Stored(m.fields, m.fields[p[n]].cdr)
  BY <1>1, <1>2 DEF IsFields
<1>6. Top(m) = Hold(m, m.fields[p[n]].car) /\ Cdr(m, Stack(m)) = Hold(m, m.fields[p[n]].cdr)
  BY <1>1, <1>2, <1>4, ReadIs DEF Top
<1> QED
  BY <1>1, <1>3, <1>4, <1>5, <1>6, HoldIs

(* One cons popped: the stack is the rest, down to the same frame.         *)
LEMMA PopIs ==
  ASSUME NEW m, NEW p, NEW n, At(m, p, n), n > 1, NEW k, k = Pop(m)
  PROVE  /\ At(k, p, n - 1)
         /\ k.stack = m.fields[p[n]].cdr
         /\ k.code = m.code /\ k.register = m.register /\ k.fields = m.fields
         /\ k.error = m.error /\ k.epoch = m.epoch /\ k.cons = m.cons
<1>1. PICK c : c = Cdr(m, Stack(m)) /\ Live(m, c) /\ Keep(m, c) = m.fields[p[n]].cdr
  BY TopIs
<1>2. Inside(m) /\ k = SetStack(m, c)
  BY <1>1 DEF At, Pop
<1>3. /\ Inside(k) /\ k.stack = m.fields[p[n]].cdr
      /\ k.code = m.code /\ k.register = m.register /\ k.fields = m.fields
      /\ k.error = m.error /\ k.epoch = m.epoch /\ k.cons = m.cons
  BY <1>1, <1>2, SetStackKeeps
<1>4. n \in Nat /\ IsStack(m.fields, m.stack, p, n)
  BY DEF At
<1>5. IsStack(m.fields, m.fields[p[n]].cdr, p, n - 1)
  BY <1>4 DEF IsStack, IsChain
<1> QED
  BY <1>3, <1>4, <1>5 DEF At

Extended(p, n, o) == [i \in 1 .. n + 1 |-> IF i = n + 1 THEN o ELSE p[i]]

(* A chain with a new cons on top is a chain.                              *)
LEMMA ExtendChain ==
  ASSUME NEW f, NEW v, NEW p, NEW n \in Nat, IsChain(f, v, p, n),
         NEW o \in DOMAIN f, \A i \in 1 .. n : p[i] # o,
         n > 0 => PointsTo(f[o].cdr, p[n]), NEW w, PointsTo(w, o),
         NEW q, q = Extended(p, n, o)
  PROVE  /\ IsChain(f, w, q, n + 1)
         /\ q[n + 1] = o /\ \A i \in 1 .. n : q[i] = p[i]
<1>1. q[n + 1] = o /\ \A i \in 1 .. n : q[i] = p[i]
  BY DEF Extended
<1>2. \A i \in 1 .. n + 1 : i = n + 1 \/ i \in 1 .. n
  OBVIOUS
<1>3. \A i \in 2 .. n + 1 : PointsTo(f[q[i]].cdr, q[i - 1])
  <2>1. ASSUME NEW i \in 2 .. n + 1
        PROVE  PointsTo(f[q[i]].cdr, q[i - 1])
    <3>1. CASE i = n + 1
      BY <1>1, <3>1
    <3>2. CASE i # n + 1
      <4>1. i \in 2 .. n /\ i \in 1 .. n /\ i - 1 \in 1 .. n
        BY <3>2
      <4> QED
        BY <1>1, <4>1 DEF IsChain
    <3> QED
      BY <3>1, <3>2
  <2> QED
    BY <2>1
<1>4. \A i, j \in 1 .. n + 1 : q[i] = q[j] => i = j
  BY <1>1, <1>2 DEF IsChain
<1>5. \A i \in 1 .. n + 1 : q[i] \in DOMAIN f
  BY <1>1, <1>2 DEF IsChain
<1> QED
  BY <1>1, <1>3, <1>4, <1>5 DEF IsChain

(* A stack with a new cons on top is a stack.                              *)
LEMMA ExtendStack ==
  ASSUME NEW f, NEW v, NEW p, NEW n \in Nat, IsStack(f, v, p, n),
         NEW o \in DOMAIN f, \A i \in 1 .. n : p[i] # o,
         PointsTo(f[o].cdr, p[n]), TagOf(f[o].cdr) # FrameSlot, NEW w, PointsTo(w, o),
         NEW q, q = Extended(p, n, o)
  PROVE  IsStack(f, w, q, n + 1)
<1>1. /\ IsChain(f, w, q, n + 1)
      /\ q[n + 1] = o /\ \A i \in 1 .. n : q[i] = p[i]
  BY ExtendChain DEF IsStack
<1>2. \A i \in 1 .. n + 1 : i = n + 1 \/ i \in 1 .. n
  OBVIOUS
<1>3. \A i \in 1 .. n + 1 : TagOf(f[q[i]].cdr) = FrameSlot <=> i = 1
  BY <1>1, <1>2 DEF IsStack
<1> QED
  BY <1>1, <1>3 DEF IsStack

(* The stack and the frame stay while a cons is allocated. *)
Allocated(m, l, p, n, o, a, d) ==
  /\ At(l, p, n)
  /\ o \notin DOMAIN m.fields /\ o \notin DOMAIN fields /\ o \in DOMAIN l.fields /\ IsHeap(o)
  /\ l.fields[o] = [car |-> Keep(m, a), cdr |-> Keep(m, d)]
  /\ l.cons = Held(o, PairType, l.epoch) /\ Live(l, l.cons)
  /\ Since(m.fields, l.fields) /\ (Since(fields, m.fields) => Since(fields, l.fields))
  /\ \A i \in 1 .. n : p[i] \in DOMAIN l.fields /\ l.fields[p[i]] = m.fields[p[i]]
  /\ l.code = m.code /\ l.stack = m.stack /\ l.register = m.register

(* Allocated(m, l, ...) holds of every allocation of an instruction.       *)
LEMMA AllocateKeeps ==
  ASSUME NEW m, NEW p, NEW n, At(m, p, n), NEW a, Live(m, a), NEW d, Live(m, d),
         NEW l \in Allocate(m, a, d)
  PROVE  \E o : Allocated(m, l, p, n, o, a, d)
<1>1. Inside(m) /\ m.error = "none" /\ n \in Nat
  BY DEF At
<1>2. PICK o : Inside(l) /\ Grown(m, l, o, a, d)
  BY <1>1, AllocateIs
<1>3. /\ l.code = m.code /\ l.stack = m.stack /\ l.register = m.register /\ l.error = "none"
      /\ o \notin DOMAIN m.fields /\ o \notin DOMAIN fields /\ o \in DOMAIN l.fields /\ IsHeap(o)
      /\ l.fields[o] = [car |-> Keep(m, a), cdr |-> Keep(m, d)]
      /\ l.cons = Held(o, PairType, l.epoch)
  BY <1>1, <1>2 DEF Grown
<1>4. Live(l, l.cons)
  BY <1>3 DEF Live, Known, PairType
<1>5. Since(m.fields, l.fields) /\ (Since(fields, m.fields) => Since(fields, l.fields))
  BY <1>2, SinceGrown
<1>6. Coded /\ Plain(m.fields) /\ IsFields(l.fields) /\ Stored(l.fields, m.stack)
       /\ Stored(l.fields, m.code)
  <2>1. IsFields(m.fields) /\ Coded /\ IsFields(l.fields) /\ Stored(l.fields, l.stack)
        /\ Stored(l.fields, l.code)
    BY <1>1, <1>2 DEF Inside, Sound
  <2> QED
    BY <1>3, <2>1 DEF IsFields, Plain
<1>7. /\ IsStack(l.fields, m.stack, p, n)
      /\ \A i \in 1 .. n : p[i] \in DOMAIN l.fields /\ l.fields[p[i]] = m.fields[p[i]]
  <2>1. IsStack(m.fields, m.stack, p, n)
    BY DEF At
  <2> QED
    BY <1>1, <1>5, <1>6, <2>1, StaysStack
<1>8. SinceCars(m.fields, l.fields)
  BY <1>5 DEF Since, SinceCars
<1>9. IsFrame(l.fields, p[1])
  <2>1. p[1] \in DOMAIN m.fields \cap DOMAIN l.fields
    BY <1>1, <1>7 DEF At, IsStack, IsChain
  <2> QED
    BY <1>6, <1>8, <2>1, StaysFrame DEF At
<1>10. Readable(l.fields, m.code)
  BY <1>6, <1>8, StaysInHeap DEF At
<1>11. At(l, p, n)
  BY <1>1, <1>2, <1>3, <1>7, <1>9, <1>10 DEF At
<1> QED
  BY <1>3, <1>4, <1>5, <1>7, <1>11 DEF Allocated

(* One cons pushed. *)
Pushed(m, k, p, n, o, v) ==
  /\ At(k, Extended(p, n, o), n + 1)
  /\ o \notin DOMAIN fields /\ o \in DOMAIN k.fields /\ k.fields[o].car = v
  /\ Since(m.fields, k.fields) /\ (Since(fields, m.fields) => Since(fields, k.fields))
  /\ \A i \in 1 .. n : p[i] \in DOMAIN k.fields /\ k.fields[p[i]] = m.fields[p[i]]
  /\ k.code = m.code /\ k.register = m.register

(* A push of what is held leaves the stack longer by one cons.             *)
LEMMA PushIs ==
  ASSUME NEW m, NEW p, NEW n, At(m, p, n), NEW v, Live(m, v), NEW k \in Push(m, v)
  PROVE  \E o : Pushed(m, k, p, n, o, Keep(m, v))
<1>1. PICK d : d = SetTag(Stack(m), PairType)
  OBVIOUS
<1>2. Live(m, d) /\ Keep(m, d) = Pointer(p[n], PairType)
  <2>1. Live(m, Stack(m)) /\ PairType \in Nat
    BY TopIs DEF PairType
  <2>2. IsPointer(Stack(m)) /\ Stack(m).object = p[n]
    BY TopIs, HeldIs
  <2> QED
    BY <1>1, <2>1, <2>2, TagIs
<1>3. PICK l \in Allocate(m, v, d) :
        k \in IF l.error = "none" THEN {SetStack(l, l.cons)} ELSE {l}
  BY <1>1, Zenon DEF Push, Then
<1>4. PICK o : Allocated(m, l, p, n, o, v, d)
  BY <1>2, <1>3, AllocateKeeps
<1>5. /\ At(l, p, n)
      /\ o \notin DOMAIN m.fields /\ o \notin DOMAIN fields /\ o \in DOMAIN l.fields
      /\ l.fields[o] = [car |-> Keep(m, v), cdr |-> Keep(m, d)]
      /\ l.cons = Held(o, PairType, l.epoch) /\ Live(l, l.cons)
  BY <1>4 DEF Allocated
<1>6. k = SetStack(l, l.cons) /\ Inside(l)
  BY <1>3, <1>5 DEF At
<1>7. Keep(l, l.cons) = Pointer(o, PairType)
  BY <1>5, KeepIs
<1>8. /\ Inside(k) /\ k.stack = Pointer(o, PairType)
      /\ k.code = l.code /\ k.register = l.register /\ k.fields = l.fields /\ k.error = l.error
  BY <1>5, <1>6, <1>7, SetStackKeeps
<1>9. PICK q : q = Extended(p, n, o)
  OBVIOUS
<1>10. n \in Nat /\ n > 0 /\ IsStack(l.fields, l.stack, p, n)
  BY <1>5 DEF At, IsStack
<1>11. IsStack(k.fields, k.stack, q, n + 1)
  <2>1. \A i \in 1 .. n : p[i] # o
    BY <1>5 DEF At, IsStack, IsChain
  <2>2. PointsTo(k.fields[o].cdr, p[n]) /\ TagOf(k.fields[o].cdr) # FrameSlot /\ PointsTo(k.stack, o)
    BY <1>2, <1>5, <1>8, PointerIs DEF PointsTo, PairType, FrameSlot
  <2> QED
    BY <1>5, <1>8, <1>9, <1>10, <2>1, <2>2, ExtendStack
<1>12. At(k, q, n + 1)
  <2>1. q[1] = p[1]
    BY <1>9, <1>10 DEF Extended
  <2> QED
    BY <1>5, <1>8, <1>10, <1>11, <2>1 DEF At
<1>13. k.fields[o].car = Keep(m, v)
  BY <1>5, <1>8
<1> QED
  BY <1>4, <1>8, <1>9, <1>12, <1>13 DEF Pushed, Allocated

(* A chain of different conses is no longer than the memory has conses.    *)
LEMMA StackFits ==
  ASSUME NEW f, IsFiniteSet(DOMAIN f), NEW v, NEW p, NEW n \in Nat, IsChain(f, v, p, n)
  PROVE  n <= Cardinality(DOMAIN f)
<1> DEFINE h == [i \in 1 .. n |-> p[i]]
<1>1. h \in Injection(1 .. n, DOMAIN f)
  BY DEF Injection, IsInjective, IsChain
<1>2. Cardinality(1 .. n) <= Cardinality(DOMAIN f)
  <2> HIDE DEF h
  <2> QED
    BY <1>1, FS_Injection
<1>3. Cardinality(1 .. n) = n
  <2>1. 1 \in Int /\ n \in Int /\ (1 > n <=> n = 0) /\ n - 1 + 1 = n
    OBVIOUS
  <2> QED
    BY <2>1, FS_Interval
<1> QED
  BY <1>2, <1>3

(* A step of Continuation down the stack. *)
Down(m, c) == IF TagOf(Cdr(m, c)) = FrameSlot THEN c ELSE Cdr(m, c)

Walks(g, m, n) ==
  g = [k \in 0 .. n |-> IF k = 0 THEN {Stack(m)} ELSE {Down(m, c) : c \in g[k - 1]}]

(* The steps of Continuation are a function.                               *)
LEMMA WalksExist ==
  ASSUME NEW m, NEW n \in Nat
  PROVE  \E g : Walks(g, m, n)
<1> DEFINE S == {i \in Nat : \E g : Walks(g, m, i)}
<1>1. 0 \in S
  <2>1. PICK g : g = [j \in 0 .. 0 |-> {Stack(m)}]
    OBVIOUS
  <2>2. Walks(g, m, 0)
    BY <2>1 DEF Walks
  <2> QED
    BY <2>2
<1>2. ASSUME NEW i \in 1 .. n, i - 1 \in S
      PROVE  i \in S
  <2>1. PICK g : Walks(g, m, i - 1)
    BY <1>2
  <2>2. PICK last : last = {Down(m, c) : c \in g[i - 1]}
    OBVIOUS
  <2>3. PICK h : h = [j \in 0 .. i |-> IF j < i THEN g[j] ELSE last]
    OBVIOUS
  <2>4. ASSUME NEW j \in 0 .. i
        PROVE  h[j] = IF j = 0 THEN {Stack(m)} ELSE {Down(m, c) : c \in h[j - 1]}
    <3>1. CASE j = i
      <4>1. h[j] = last /\ h[j - 1] = g[i - 1] /\ j # 0
        BY <2>3, <3>1
      <4> QED
        BY <2>2, <4>1, Zenon
    <3>2. CASE j # i
      <4>1. j \in 0 .. i - 1 /\ h[j] = g[j] /\ (j # 0 => h[j - 1] = g[j - 1])
        BY <2>3, <3>2
      <4>2. g[j] = IF j = 0 THEN {Stack(m)} ELSE {Down(m, c) : c \in g[j - 1]}
        BY <2>1, <4>1, Zenon DEF Walks
      <4> QED
        BY <4>1, <4>2, Zenon
    <3> QED
      BY <3>1, <3>2
  <2>5. Walks(h, m, i)
    <3>1. h = [j \in 0 .. i |-> h[j]]
      BY <2>3
    <3> QED
      BY <2>4, <3>1, Zenon DEF Walks
  <2> QED
    BY <2>5
<1>3. 0 .. n \subseteq S
  <2> HIDE DEF S
  <2> QED
    BY <1>1, <1>2, Upwards
<1> QED
  BY <1>3

(* A step from a cons of the stack goes to the next one, and stays at the  *)
(* frame.                                                                  *)
LEMMA DownIs ==
  ASSUME NEW m, NEW p, NEW n, At(m, p, n), NEW i \in 1 .. n, NEW c, NEW t, c = Held(p[i], t, m.epoch)
  PROVE  \E u : Down(m, c) = Held(p[IF i > 1 THEN i - 1 ELSE 1], u, m.epoch)
<1>1. n \in Nat /\ p[i] \in DOMAIN m.fields /\ Sound(m)
  BY DEF At, Inside, IsStack, IsChain
<1>2. Cdr(m, c) = Hold(m, m.fields[p[i]].cdr) /\ Stored(m.fields, m.fields[p[i]].cdr)
  BY <1>1, ReadIs, FieldIs
<1>3. TagOf(Cdr(m, c)) = TagOf(m.fields[p[i]].cdr)
  BY <1>2, HoldIs
<1>4. CASE i = 1
  <2>1. TagOf(m.fields[p[i]].cdr) = FrameSlot
    BY <1>4 DEF At, IsStack
  <2> QED
    BY <1>3, <1>4, <2>1 DEF Down
<1>5. CASE i # 1
  <2>1. TagOf(m.fields[p[i]].cdr) # FrameSlot /\ PointsTo(m.fields[p[i]].cdr, p[i - 1])
    <3>1. i \in 2 .. n
      BY <1>1, <1>5
    <3> QED
      BY <1>5, <3>1 DEF At, IsStack, IsChain
  <2>2. PICK u : m.fields[p[i]].cdr = Pointer(p[i - 1], u)
    BY <1>2, <2>1, NumberIs, PointerIs DEF Stored, PointsTo
  <2>3. Cdr(m, c) = Held(p[i - 1], u, m.epoch)
    BY <1>2, <2>2, HoldIs
  <2> QED
    BY <1>1, <1>3, <1>5, <2>1, <2>3 DEF Down
<1> QED
  BY <1>4, <1>5

(* The frame of the running procedure is found. *)
LEMMA ContinuationIs ==
  ASSUME NEW m, NEW p, NEW n, At(m, p, n)
  PROVE  /\ Continuation(m) = Hold(m, m.fields[p[1]].car)
         /\ p[1] \in DOMAIN m.fields
<1> DEFINE N == Cardinality(DOMAIN m.fields)
           Is(walk) == walk = [k \in 0 .. N |->
                         IF k = 0
                         THEN {Stack(m)}
                         ELSE {IF TagOf(Cdr(m, c)) = FrameSlot THEN c ELSE Cdr(m, c) : c \in walk[k - 1]}]
           F == CHOOSE walk : Is(walk)
<1>1. Continuation(m) = Car(m, CHOOSE c \in F[N] : TRUE)
  BY Zenon DEF Continuation
<1>2. N \in Nat /\ n \in Nat /\ 0 < n /\ n <= N /\ p[1] \in DOMAIN m.fields /\ Sound(m)
  <2>1. IsFiniteSet(DOMAIN m.fields) /\ n \in Nat /\ IsChain(m.fields, m.stack, p, n) /\ Sound(m) /\ n > 0
    BY DEF At, Inside, Sound, IsFields, IsStack
  <2>2. 1 \in 1 .. n
    BY <2>1
  <2> QED
    BY <2>1, <2>2, FS_CardinalityType, StackFits DEF IsChain
<1>3. \E g : Is(g)
  <2>1. PICK g : Walks(g, m, N)
    BY <1>2, WalksExist
  <2>2. Is(g)
    BY <2>1, Zenon DEF Walks, Down
  <2> QED
    BY <2>2
<1>4. Is(F)
  BY <1>3, Zenon
<1>5. Walks(F, m, N)
  <2> HIDE DEF F
  <2> QED
    BY <1>4, Zenon DEF Walks, Down
<1>6. PICK g, M : g = F /\ M = N
  OBVIOUS
<1>7. Walks(g, m, M) /\ M \in Nat /\ n <= M
  <2> HIDE DEF F, N
  <2> QED
    BY <1>2, <1>5, <1>6
<1>8. \A k \in 0 .. M : g[k] = IF k = 0 THEN {Stack(m)} ELSE {Down(m, c) : c \in g[k - 1]}
  BY <1>7, Zenon DEF Walks
<1> DEFINE T(k) == IF n - k >= 1 THEN n - k ELSE 1
           S == {k \in 0 .. M : \E t : g[k] = {Held(p[T(k)], t, m.epoch)}}
<1>9. 0 \in S
  <2>1. PICK t : Stack(m) = Held(p[n], t, m.epoch)
    BY TopIs
  <2>2. g[0] = {Held(p[n], t, m.epoch)}
    <3>1. 0 \in 0 .. M
      BY <1>7
    <3> QED
      BY <1>8, <2>1, <3>1, Zenon
  <2>3. T(0) = n /\ 0 \in 0 .. M
    BY <1>2, <1>7
  <2> QED
    BY <2>2, <2>3
<1>10. ASSUME NEW k \in 1 .. M, k - 1 \in S
       PROVE  k \in S
  <2>1. k \in 0 .. M /\ k # 0
    OBVIOUS
  <2>2. PICK t : g[k - 1] = {Held(p[T(k - 1)], t, m.epoch)}
    BY <1>10
  <2>3. PICK i \in 1 .. n : i = T(k - 1)
    <3>1. T(k - 1) \in 1 .. n
      BY <1>2, <1>7, <2>1
    <3> QED
      BY <3>1
  <2>4. T(k) = IF i > 1 THEN i - 1 ELSE 1
    BY <1>2, <1>7, <2>1, <2>3
  <2>5. PICK c : c = Held(p[i], t, m.epoch)
    OBVIOUS
  <2>6. PICK u : Down(m, c) = Held(p[IF i > 1 THEN i - 1 ELSE 1], u, m.epoch)
    BY <2>5, DownIs
  <2>7. g[k] = {Down(m, c)}
    <3>1. g[k - 1] = {c}
      BY <2>2, <2>3, <2>5
    <3>2. g[k] = {Down(m, d) : d \in g[k - 1]}
      BY <1>8, <2>1, Zenon
    <3> QED
      BY <3>1, <3>2
  <2>8. g[k] = {Held(p[T(k)], u, m.epoch)}
    BY <2>4, <2>6, <2>7, Zenon
  <2> QED
    BY <2>1, <2>8
<1>11. M \in S
  <2>1. 0 .. M \subseteq S
    <3> HIDE DEF S
    <3> QED
      BY <1>7, <1>9, <1>10, Upwards
  <2> QED
    BY <1>7, <2>1
<1>12. PICK t : g[M] = {Held(p[1], t, m.epoch)}
  <2>1. T(M) = 1
    BY <1>2, <1>7
  <2> QED
    BY <1>11, <2>1
<1>13. (CHOOSE c \in g[M] : TRUE) = Held(p[1], t, m.epoch)
  BY <1>12
<1>14. Continuation(m) = Car(m, CHOOSE c \in g[M] : TRUE)
  <2> HIDE DEF F, N
  <2> QED
    BY <1>1, <1>6, Zenon
<1> QED
  BY <1>2, <1>13, <1>14, ReadIs

-----------------------------------------------------------------------------
(* Reading and writing. *)

(* A symbol is no part of the code and no cons of the heap.                *)
LEMMA SymbolIs ==
  ASSUME NEW o, IsSymbol(o)
  PROVE  ~IsStatic(o) /\ ~IsHeap(o)
<1>1. PICK x : o = [symbol |-> x]
  BY DEF IsSymbol, Symbol
<1> QED
  BY <1>1 DEF IsStatic, IsHeap

(* Fields read where something may be read are held.                       *)
LEMMA ReadableIs ==
  ASSUME NEW m, Sound(m), NEW c, Live(m, c), Readable(m.fields, c)
  PROVE  Live(m, Car(m, c)) /\ Live(m, Cdr(m, c))
<1>1. IsPointer(c) /\ (c.object \in DOMAIN m.fields \/ IsStatic(c.object))
  BY DEF Readable
<1>2. c = Held(c.object, c.tag, m.epoch) /\ Known(m.fields, c.object)
  BY <1>1, KeepIs
<1>3. c.object \in DOMAIN m.fields \cup Parts
  <2>1. IsStatic(c.object) => ~IsSymbol(c.object)
    BY SymbolIs
  <2> QED
    BY <1>1, <1>2, <2>1 DEF Known
<1> QED
  BY <1>2, <1>3, ReadIs

(* A value is readable in memory if and only if it is when held.           *)
LEMMA HoldReadable ==
  ASSUME NEW m, Sound(m), NEW v, Stored(m.fields, v), NEW c, c = Hold(m, v)
  PROVE  /\ Live(m, c)
         /\ \A f : Readable(f, c) <=> Readable(f, v)
         /\ \A f : InHeap(f, c) <=> InHeap(f, v)
         /\ IsPointer(v) => c.object = v.object /\ c = Held(v.object, v.tag, m.epoch)
<1>1. CASE ~IsPointer(v)
  <2>1. c = v /\ Live(m, c)
    BY <1>1, HoldIs DEF Hold
  <2> QED
    BY <1>1, <2>1 DEF Readable, InHeap
<1>2. CASE IsPointer(v)
  <2>1. PICK o, t : v = Pointer(o, t) /\ v.object = o /\ v.tag = t
    BY <1>2, NumberIs, PointerIs DEF Stored
  <2>2. c = Held(o, t, m.epoch)
    BY <2>1, HoldIs
  <2>3. Live(m, c) /\ IsPointer(c) /\ c.object = o
    <3>1. Live(m, c)
      BY HoldIs
    <3> QED
      BY <2>2, <3>1, HeldIs
  <2> QED
    BY <1>2, <2>1, <2>2, <2>3 DEF Readable, InHeap
<1> QED
  BY <1>1, <1>2

(* A line of the profile leaves the memory sound.                          *)
LEMMA WriteLineKeeps ==
  ASSUME NEW m, Inside(m), NEW a, NEW b, NEW n, n = WriteLine(m, a, b)
  PROVE  /\ Inside(n)
         /\ n.code = m.code /\ n.stack = m.stack /\ n.register = m.register /\ n.fields = m.fields
         /\ n.error = m.error /\ n.epoch = m.epoch /\ n.cons = m.cons
<1>1. PICK x : x = Append(m.profile, <<a, Profile!StackDisplay(b, <<>>), Len(m.profile) + 1>>)
  OBVIOUS
<1>2. n = m \/ n = [m EXCEPT !.profile = x]
  BY <1>1, Zenon DEF WriteLine
<1>3. IsMemory(m)
  BY DEF Inside, Sound
<1>4. /\ IsMemory(n) /\ n.code = m.code /\ n.stack = m.stack /\ n.register = m.register
      /\ n.fields = m.fields /\ n.error = m.error /\ n.epoch = m.epoch /\ n.cons = m.cons
  BY <1>2, <1>3, SetProfileIs
<1> QED
  BY <1>4 DEF Inside, Sound

(* A cons overwritten by what may be stored leaves the memory sound.       *)
LEMMA ChangedIs ==
  ASSUME NEW m, Inside(m), NEW o \in DOMAIN m.fields,
         NEW a, Stored(m.fields, a), NEW d, Stored(m.fields, d),
         NEW f, f = [m.fields EXCEPT ![o] = [car |-> a, cdr |-> d]],
         NEW n, n = [m EXCEPT !.fields = f]
  PROVE  /\ Inside(n) /\ n.fields = f
         /\ n.code = m.code /\ n.stack = m.stack /\ n.register = m.register
         /\ n.error = m.error /\ n.epoch = m.epoch /\ n.cons = m.cons
<1>1. IsMemory(m) /\ IsFields(m.fields)
  BY DEF Inside, Sound
<1>2. /\ IsMemory(n) /\ n.fields = f /\ n.code = m.code /\ n.stack = m.stack
      /\ n.register = m.register /\ n.error = m.error /\ n.epoch = m.epoch /\ n.cons = m.cons
  BY <1>1, SetFieldsIs
<1>3. DOMAIN f = DOMAIN m.fields /\ f[o] = [car |-> a, cdr |-> d]
      /\ \A p \in DOMAIN m.fields : p # o => f[p] = m.fields[p]
  OBVIOUS
<1>4. ASSUME NEW p \in DOMAIN f
      PROVE  /\ IsHeap(p) \/ IsSymbol(p)
             /\ f[p] = [car |-> f[p].car, cdr |-> f[p].cdr]
             /\ Stored(m.fields, f[p].car) /\ Stored(m.fields, f[p].cdr)
  <2>1. CASE p = o
    BY <1>3, <2>1, FieldIs DEF Inside
  <2>2. CASE p # o
    BY <1>1, <1>3, <2>2 DEF IsFields
  <2> QED
    BY <2>1, <2>2
<1>5. \A v : Stored(m.fields, v) => Stored(f, v)
  BY <1>3, StoredMore
<1>6. IsFields(f)
  <2>1. f = [p \in DOMAIN f |-> f[p]]
    OBVIOUS
  <2> QED
    BY <1>1, <1>3, <1>4, <1>5, <2>1 DEF IsFields
<1> QED
  BY <1>2, <1>5, <1>6 DEF Inside, Sound

(* set_cdr of a cons of the heap leaves the memory sound.                  *)
LEMMA SetCdrKeeps ==
  ASSUME NEW m, Inside(m), NEW o \in DOMAIN m.fields, NEW c, Fresh(m, c), c.object = o,
         NEW v, Live(m, v), NEW n, n = SetCdr(m, c, v)
  PROVE  /\ Inside(n)
         /\ DOMAIN n.fields = DOMAIN m.fields
         /\ \A p \in DOMAIN m.fields : p # o => n.fields[p] = m.fields[p]
         /\ n.fields[o].car = m.fields[o].car
         /\ n.code = m.code /\ n.stack = m.stack /\ n.register = m.register
         /\ n.error = m.error /\ n.epoch = m.epoch /\ n.cons = m.cons
<1>1. PICK a, d : a = m.fields[o].car /\ d = SetTag(Keep(m, v), TagOf(m.fields[o].cdr))
  OBVIOUS
<1>2. Writable(m, c)
  BY DEF Writable
<1>3. PICK f : f = [m.fields EXCEPT ![o] = [car |-> a, cdr |-> d]]
  OBVIOUS
<1>4. m.fields[o] = [car |-> a, cdr |-> m.fields[o].cdr]
  BY <1>1 DEF Inside, Sound, IsFields
<1>5. n = [m EXCEPT !.fields = f]
  <2>1. n = [m EXCEPT !.fields[o].cdr = d]
    BY <1>1, <1>2 DEF SetCdr
  <2>2. [m.fields EXCEPT ![o].cdr = d] = f
    <3>1. [m.fields[o] EXCEPT !.cdr = d] = [car |-> a, cdr |-> d]
      BY <1>4
    <3> QED
      BY <1>3, <3>1
  <2> QED
    BY <2>1, <2>2
<1>6. Stored(m.fields, a) /\ Stored(m.fields, d)
  <2>1. Stored(m.fields, a) /\ Stored(m.fields, m.fields[o].cdr)
    BY <1>1, FieldIs DEF Inside
  <2>2. PICK u \in Nat : u = TagOf(m.fields[o].cdr)
    BY <2>1, HoldIs
  <2>3. PICK w : w = Keep(m, v) /\ Stored(m.fields, w)
    BY KeepIs
  <2>4. Stored(m.fields, SetTag(w, u))
    <3>1. CASE IsNumber(w)
      BY <2>3, <3>1, NumberIs DEF SetTag
    <3>2. CASE \E p, s : w = Pointer(p, s) /\ Known(m.fields, p)
      BY <3>2, PointerIs DEF Stored
    <3> QED
      BY <2>3, <3>1, <3>2 DEF Stored
  <2> QED
    BY <1>1, <2>1, <2>2, <2>3, <2>4
<1>7. /\ Inside(n) /\ n.fields = f
      /\ n.code = m.code /\ n.stack = m.stack /\ n.register = m.register
      /\ n.error = m.error /\ n.epoch = m.epoch /\ n.cons = m.cons
  BY <1>3, <1>5, <1>6, ChangedIs
<1> QED
  BY <1>1, <1>3, <1>7

(* set_car of a cons of the heap leaves the memory sound.                  *)
LEMMA SetCarKeeps ==
  ASSUME NEW m, Inside(m), NEW o \in DOMAIN m.fields, NEW c, Fresh(m, c), c.object = o,
         NEW v, Live(m, v), NEW n, n = SetCar(m, c, v)
  PROVE  /\ Inside(n)
         /\ DOMAIN n.fields = DOMAIN m.fields
         /\ \A p \in DOMAIN m.fields : p # o => n.fields[p] = m.fields[p]
         /\ n.fields[o].car = Keep(m, v) /\ n.fields[o].cdr = m.fields[o].cdr
         /\ n.code = m.code /\ n.stack = m.stack /\ n.register = m.register
         /\ n.error = m.error /\ n.epoch = m.epoch /\ n.cons = m.cons
<1>1. PICK a, d : a = Keep(m, v) /\ d = m.fields[o].cdr
  OBVIOUS
<1>2. Writable(m, c)
  BY DEF Writable
<1>3. PICK f : f = [m.fields EXCEPT ![o] = [car |-> a, cdr |-> d]]
  OBVIOUS
<1>4. m.fields[o] = [car |-> m.fields[o].car, cdr |-> d]
  BY <1>1 DEF Inside, Sound, IsFields
<1>5. n = [m EXCEPT !.fields = f]
  <2>1. n = [m EXCEPT !.fields[o].car = a]
    BY <1>1, <1>2 DEF SetCar
  <2>2. [m.fields EXCEPT ![o].car = a] = f
    <3>1. [m.fields[o] EXCEPT !.car = a] = [car |-> a, cdr |-> d]
      BY <1>4
    <3> QED
      BY <1>3, <3>1
  <2> QED
    BY <2>1, <2>2
<1>6. Stored(m.fields, a) /\ Stored(m.fields, d)
  BY <1>1, FieldIs, KeepIs DEF Inside
<1>7. /\ Inside(n) /\ n.fields = f
      /\ n.code = m.code /\ n.stack = m.stack /\ n.register = m.register
      /\ n.error = m.error /\ n.epoch = m.epoch /\ n.cons = m.cons
  BY <1>3, <1>5, <1>6, ChangedIs
<1> QED
  BY <1>1, <1>3, <1>7

-----------------------------------------------------------------------------
(* The end of an instruction. *)

(* The end of an instruction, with the return to the caller in it.         *)
LEMMA AdvanceCodeIs ==
  ASSUME NEW m, NEW p, NEW n, At(m, p, n), NEW k \in AdvanceCode(m)
  PROVE  Inside(k)
<1>1. Inside(m) /\ Sound(m) /\ Readable(m.fields, m.code) /\ Stored(m.fields, m.code) /\ n \in Nat
  BY DEF At, Inside, Sound
<1>2. PICK next : next = Cdr(m, Code(m)) /\ Live(m, next)
  <2>1. Live(m, Code(m)) /\ Readable(m.fields, Code(m))
    BY <1>1, HoldReadable DEF Code
  <2> QED
    BY <1>1, <2>1, ReadableIs
<1>3. CASE ~Same(next, Null)
  <2>1. k = SetCode(m, next)
    BY <1>2, <1>3 DEF AdvanceCode
  <2> QED
    BY <1>1, <1>2, <2>1, SetCodeKeeps
<1>4. CASE Same(next, Null)
  <2>1. PICK r : r = ProfileReturn(m)
    OBVIOUS
  <2>2. /\ Inside(r) /\ r.code = m.code /\ r.stack = m.stack /\ r.register = m.register
        /\ r.fields = m.fields /\ r.error = m.error /\ r.epoch = m.epoch
    BY <1>1, <2>1, WriteLineKeeps DEF ProfileReturn
  <2>3. At(r, p, n)
    BY <2>2 DEF At
  <2>4. PICK c : c = Continuation(r)
    OBVIOUS
  <2>5. PICK kept : kept = SetCdr(r, Stack(r), Cdr(r, c))
    OBVIOUS
  <2>6. k = SetCode(kept, Cdr(kept, Car(kept, c)))
    BY <1>2, <1>4, <2>1, <2>4, <2>5 DEF AdvanceCode
  <2>7. PICK v : v = r.fields[p[1]].car
    OBVIOUS
  <2>8. /\ Sound(r) /\ Stored(r.fields, v) /\ c = Hold(r, v)
        /\ InHeap(r.fields, v) /\ Readable(r.fields, r.fields[v.object].car)
    <3>1. Sound(r) /\ IsFrame(r.fields, p[1])
      BY <2>3 DEF At, Inside
    <3>2. c = Hold(r, v) /\ p[1] \in DOMAIN r.fields
      BY <2>3, <2>4, <2>7, ContinuationIs
    <3> QED
      BY <2>7, <3>1, <3>2, FieldIs DEF IsFrame
  <2>9. PICK o, t : c = Held(o, t, r.epoch) /\ o = v.object /\ o \in DOMAIN r.fields
    BY <2>8, HoldReadable DEF InHeap
  <2>10. Live(r, Cdr(r, c))
    BY <2>8, <2>9, ReadIs
  <2>11. PICK s, u : s \in DOMAIN r.fields /\ Stack(r) = Held(s, u, r.epoch)
    BY <2>3, TopIs
  <2>12. /\ Inside(kept) /\ DOMAIN kept.fields = DOMAIN r.fields
         /\ \A x \in DOMAIN r.fields : kept.fields[x].car = r.fields[x].car
         /\ kept.epoch = r.epoch
    <3>1. PICK x, y : x = Cdr(r, c) /\ y = Stack(r)
      OBVIOUS
    <3>2. /\ Inside(kept) /\ DOMAIN kept.fields = DOMAIN r.fields
          /\ \A z \in DOMAIN r.fields : z # s => kept.fields[z] = r.fields[z]
          /\ kept.fields[s].car = r.fields[s].car /\ kept.epoch = r.epoch
      <4>1. Inside(r) /\ kept = SetCdr(r, y, x) /\ Live(r, x) /\ s \in DOMAIN r.fields
        BY <2>2, <2>5, <2>10, <2>11, <3>1
      <4>2. Fresh(r, y) /\ y.object = s
        BY <2>11, <3>1, HeldIs DEF Fresh
      <4> QED
        BY <4>1, <4>2, SetCdrKeeps
    <3> QED
      BY <3>2
  <2>13. PICK w : w = kept.fields[o].car
    OBVIOUS
  <2>14. Sound(kept) /\ Stored(kept.fields, w) /\ Readable(kept.fields, w)
    <3>1. w = r.fields[o].car
      BY <2>9, <2>12, <2>13
    <3>2. Readable(kept.fields, w)
      BY <2>8, <2>9, <2>12, <3>1 DEF Readable
    <3> QED
      BY <2>9, <2>12, <2>13, <3>2, FieldIs DEF Inside
  <2>15. Car(kept, c) = Hold(kept, w)
    BY <2>9, <2>12, <2>13, <2>14, ReadIs
  <2>16. Live(kept, Cdr(kept, Car(kept, c)))
    <3>1. PICK d : d = Car(kept, c) /\ Live(kept, d) /\ Readable(kept.fields, d)
      BY <2>14, <2>15, HoldReadable
    <3> QED
      BY <2>14, <3>1, ReadableIs
  <2> QED
    BY <2>6, <2>12, <2>16, SetCodeKeeps
<1> QED
  BY <1>3, <1>4

(* An instruction is done: it may go on to the next one, or has failed. *)
Done(m) == IF m.error = "none" THEN \E n, p : At(m, p, n) ELSE Inside(m)

(* If every way an instruction may end is Done, the next state is sound.   *)
LEMMA AdvanceIs ==
  ASSUME NEW S, \A m \in S : Done(m), Advance(S)
  PROVE  \E k : Inside(k) /\ Become(k)
<1>1. PICK k : k \in Then(S, AdvanceCode) /\ Become(k)
  BY DEF Advance
<1>2. PICK m \in S : k \in IF m.error = "none" THEN AdvanceCode(m) ELSE {m}
  BY <1>1 DEF Then
<1>3. Inside(k)
  <2>1. CASE m.error = "none"
    <3>1. PICK n, p : At(m, p, n)
      BY <2>1 DEF Done
    <3> QED
      BY <1>2, <2>1, <3>1, AdvanceCodeIs
  <2>2. CASE m.error # "none"
    BY <1>2, <2>2 DEF Done
  <2> QED
    BY <2>1, <2>2
<1> QED
  BY <1>1, <1>3

-----------------------------------------------------------------------------
(* Between instructions. *)

(* The parts of Memory are the variables.                                  *)
LEMMA MemoryIs ==
  /\ Memory.code = code /\ Memory.stack = stack /\ Memory.register = register
  /\ Memory.fields = fields /\ Memory.error = error /\ Memory.epoch = 0 /\ Memory.cons = Garbage
  /\ IsMemory(Memory)
BY DEF Memory, IsMemory, MemoryOf

(* Between instructions nothing is held, and what is sound says so.        *)
LEMMA SoundIs ==
  ASSUME Coded, NEW c, NEW s, NEW r, NEW f, NEW e, NEW p, IsFields(f), Stored(f, c), Stored(f, s),
         Stored(f, r), e # "fault", NEW m, m = MemoryOf(c, s, r, f, e, p, 0, Garbage)
  PROVE  Sound(m)
<1>1. /\ m.code = c /\ m.stack = s /\ m.register = r
      /\ m.fields = f /\ m.error = e /\ m.epoch = 0
      /\ IsMemory(m)
  BY DEF MemoryOf, IsMemory
<1> QED
  BY <1>1 DEF Sound

(* The state that an instruction leaves is sound if its memory is.         *)
LEMMA BecomeIs ==
  ASSUME NEW k, Inside(k), Become(k)
  PROVE  Sound(Memory)'
<1>1. /\ IsFields(k.fields) /\ Coded /\ k.error # "fault"
      /\ Stored(k.fields, k.code) /\ Stored(k.fields, k.stack) /\ Stored(k.fields, k.register)
  BY DEF Inside, Sound
<1>2. /\ code' = k.code /\ stack' = k.stack /\ register' = k.register /\ error' = k.error
      /\ fields' \in WithoutGarbage(k, {})
  BY DEF Become
<1>3. /\ IsFields(fields')
      /\ \A v \in {k.code, k.stack, k.register} : Stored(k.fields, v) => Stored(fields', v)
  BY <1>1, <1>2, WithoutGarbageIs
<1>4. PICK m : m = MemoryOf(code', stack', register', fields', error', profile', 0, Garbage)
  OBVIOUS
<1>5. Sound(m)
  BY <1>1, <1>2, <1>3, <1>4, SoundIs
<1>6. Memory' = m
  BY <1>4 DEF Memory, MemoryOf
<1> QED
  BY <1>5, <1>6

(* The inductive invariant is stronger than NothingStale.                  *)
LEMMA SoundNothingStale ==
  ASSUME Sound(Memory)
  PROVE  NothingStale
<1>1. PICK f, c, s, r : f = fields /\ c = code /\ s = stack /\ r = register
  OBVIOUS
<1>2. IsFields(f) /\ Stored(f, c) /\ Stored(f, s) /\ Stored(f, r) /\ Coded /\ error # "fault"
  BY <1>1, MemoryIs DEF Sound
<1>3. ASSUME NEW v, Stored(f, v)
      PROVE  /\ v # Garbage
             /\ IsPointer(v) /\ "heap" \in DOMAIN v.object => v.object \in DOMAIN f
  <2>1. CASE IsNumber(v)
    BY <2>1, NumberIs
  <2>2. ASSUME NEW o, NEW t \in Nat, v = Pointer(o, t), Known(f, o)
        PROVE  v # Garbage /\ v.object = o /\ ("heap" \in DOMAIN o => o \in DOMAIN f)
    <3>1. IsHeap(o) => o \notin Parts /\ ~IsSymbol(o)
      BY <1>2, SymbolIs DEF Coded, IsStatic, IsHeap
    <3> QED
      BY <2>2, <3>1, PointerIs DEF Known, IsHeap
  <2> QED
    BY <1>3, <2>1, <2>2 DEF Stored
<1>4. \A o \in DOMAIN f : Stored(f, f[o].car) /\ Stored(f, f[o].cdr)
  BY <1>2 DEF IsFields
<1>5. ASSUME NEW v \in {c, s, r} \cup UNION {{f[o].car, f[o].cdr} : o \in DOMAIN f}
      PROVE  /\ v # Garbage
             /\ IsPointer(v) /\ "heap" \in DOMAIN v.object => v.object \in DOMAIN f
  BY <1>2, <1>3, <1>4
<1> QED
  BY <1>1, <1>2, <1>5 DEF NothingStale

(* A sound state is where an instruction starts.                           *)
LEMMA SoundInside ==
  ASSUME Sound(Memory)
  PROVE  Inside(Memory) /\ Plain(fields) /\ Since(fields, fields)
BY MemoryIs DEF Sound, Inside, IsFields, Plain, Since

(* What OperandsFound says of a running program, of the memory of an       *)
(* instruction.                                                            *)
LEMMA RunningIs ==
  ASSUME Sound(Memory), OperandsFound, Running
  PROVE  \E n, p : At(Memory, p, n) /\ InstructionFits(p, n) /\ n <= Cardinality(DOMAIN fields)
<1>1. PICK n, p :
        n \in 1 .. Cardinality(DOMAIN fields) /\ IsStack(fields, stack, p, n) /\ IsFrame(fields, p[1]) /\ InstructionFits(p, n)
  BY DEF OperandsFound
<1>2. Readable(fields, code) /\ error = "none"
  BY DEF OperandsFound, Running
<1>3. n \in Nat /\ n <= Cardinality(DOMAIN fields)
  BY <1>1
<1>4. PICK m : m = Memory
  OBVIOUS
<1>5. Inside(m) /\ Plain(fields) /\ Since(fields, fields)
      /\ m.code = code /\ m.stack = stack /\ m.fields = fields /\ m.error = error
  BY <1>4, SoundInside, MemoryIs
<1>6. At(m, p, n)
  BY <1>1, <1>2, <1>3, <1>5 DEF At
<1> QED
  BY <1>1, <1>3, <1>4, <1>6

-----------------------------------------------------------------------------
(* Instructions that call nothing. *)

(* An instruction that ends with a push is done.                           *)
LEMMA PushDone ==
  ASSUME NEW m, NEW p, NEW n, At(m, p, n), NEW v, Live(m, v), NEW k \in Push(m, v)
  PROVE  Done(k)
<1>1. PICK o : Pushed(m, k, p, n, o, Keep(m, v))
  BY PushIs
<1>2. At(k, Extended(p, n, o), n + 1) /\ k.error = "none"
  BY <1>1 DEF Pushed, At
<1> QED
  BY <1>2 DEF Done

(* The operand and the next instruction are held.                          *)
LEMMA OperandIs ==
  ASSUME NEW m, NEW p, NEW n, At(m, p, n)
  PROVE  Live(m, Operand(m)) /\ Live(m, Code(m)) /\ Live(m, Cdr(m, Code(m)))
<1>1. Sound(m) /\ Stored(m.fields, m.code) /\ Readable(m.fields, m.code)
  BY DEF At, Inside, Sound
<1>2. Live(m, Code(m)) /\ Readable(m.fields, Code(m))
  BY <1>1, HoldReadable DEF Code
<1> QED
  BY <1>1, <1>2, ReadableIs DEF Operand

(* What stands in the car of a cons of the heap is held.                   *)
LEMMA CarOfFound ==
  ASSUME NEW m, Sound(m), NEW c, Fresh(m, c), InHeap(m.fields, c)
  PROVE  /\ Car(m, c) = Hold(m, m.fields[c.object].car) /\ Live(m, Car(m, c))
         /\ Stored(m.fields, m.fields[c.object].car)
<1>1. c.object \in DOMAIN m.fields /\ Car(m, c) = Hold(m, m.fields[c.object].car)
  BY DEF InHeap, Car, Rib
<1>2. Stored(m.fields, m.fields[c.object].car)
  BY <1>1, FieldIs
<1> QED
  BY <1>1, <1>2, HoldIs

(* The instruction constant pushes its operand.                            *)
LEMMA ConstantIs ==
  ASSUME Sound(Memory), OperandsFound, Constant
  PROVE  Sound(Memory)'
<1>1. PICK n, p : At(Memory, p, n)
  BY RunningIs DEF Constant
<1>2. PICK v : v = Operand(Memory) /\ Live(Memory, v)
  BY <1>1, OperandIs
<1>3. \A k \in Push(Memory, v) : Done(k)
  BY <1>1, <1>2, PushDone
<1>4. Advance(Push(Memory, v))
  BY <1>2 DEF Constant
<1>5. \E k : Inside(k) /\ Become(k)
  BY <1>3, <1>4, AdvanceIs
<1> QED
  BY <1>5, BecomeIs

(* The instruction get pushes the variable, found from the operand.        *)
LEMMA GetIs ==
  ASSUME Sound(Memory), OperandsFound, Get
  PROVE  Sound(Memory)'
<1>1. PICK n, p : At(Memory, p, n) /\ InstructionFits(p, n)
  BY RunningIs DEF Get
<1>2. Fresh(Memory, OperandCons(Memory)) /\ InHeap(fields, OperandCons(Memory))
  BY <1>1 DEF Get, InstructionFits, GET_, CONSTANT_, SET_, IF_, CALL_
<1>3. PICK v : v = Car(Memory, OperandCons(Memory)) /\ Live(Memory, v)
  BY <1>2, MemoryIs, CarOfFound
<1>4. \A k \in Push(Memory, v) : Done(k)
  BY <1>1, <1>3, PushDone
<1>5. Advance(Push(Memory, v))
  BY <1>3 DEF Get
<1>6. \E k : Inside(k) /\ Become(k)
  BY <1>4, <1>5, AdvanceIs
<1> QED
  BY <1>6, BecomeIs

(* A stack does not depend on the cars of its conses.                      *)
LEMMA StackUntouched ==
  ASSUME NEW f, NEW v, NEW p, NEW n \in Nat, IsStack(f, v, p, n),
         NEW g, DOMAIN g = DOMAIN f, \A i \in 1 .. n : g[p[i]].cdr = f[p[i]].cdr
  PROVE  IsStack(g, v, p, n)
<1>1. \A i \in 2 .. n : i \in 1 .. n
  OBVIOUS
<1> QED
  BY <1>1 DEF IsStack, IsChain

(* A frame does not depend on the cdrs of the conses.                      *)
LEMMA FrameUntouched ==
  ASSUME NEW f, NEW o, IsFrame(f, o), o \in DOMAIN f,
         NEW g, DOMAIN g = DOMAIN f, \A p \in DOMAIN f : g[p].car = f[p].car
  PROVE  IsFrame(g, o)
BY DEF IsFrame, InHeap, Readable

(* The instruction set pops the value and writes it to the variable.       *)
LEMMA SetIs ==
  ASSUME Sound(Memory), OperandsFound, Set
  PROVE  Sound(Memory)'
<1>1. PICK n, p : At(Memory, p, n) /\ InstructionFits(p, n)
  BY RunningIs DEF Set
<1>2. PICK c : c = OperandCons(Memory)
  OBVIOUS
<1>3. /\ n > 1 /\ Fresh(Memory, c) /\ InHeap(fields, c)
      /\ IsFrame(Assign(fields, c, fields[p[n]].car), p[1])
  BY <1>1, <1>2 DEF Set, InstructionFits, GET_, CONSTANT_, SET_, IF_, CALL_
<1>4. PICK m : m = Memory
  OBVIOUS
<1>5. m.fields = fields /\ At(m, p, n)
  BY <1>1, <1>4, MemoryIs
<1>6. PICK k : k = Pop(m)
  OBVIOUS
<1>7. At(k, p, n - 1) /\ k.fields = fields /\ k.epoch = m.epoch /\ Inside(k) /\ k.error = "none"
  <2>1. At(k, p, n - 1) /\ k.fields = fields /\ k.epoch = m.epoch
    BY <1>3, <1>5, <1>6, PopIs
  <2> QED
    BY <2>1 DEF At
<1>8. PICK v : v = Top(m) /\ Live(k, v) /\ Keep(k, v) = fields[p[n]].car
  <2>1. Live(m, Top(m)) /\ Keep(m, Top(m)) = fields[p[n]].car
    BY <1>5, TopIs
  <2> QED
    BY <1>5, <1>7, <2>1, AlikeIs
<1>9. PICK l : l = SetCar(k, c, v)
  OBVIOUS
<1>10. /\ Inside(l) /\ DOMAIN l.fields = DOMAIN fields
       /\ \A x \in DOMAIN fields : x # c.object => l.fields[x] = fields[x]
       /\ l.fields[c.object].car = fields[p[n]].car /\ l.fields[c.object].cdr = fields[c.object].cdr
       /\ l.code = k.code /\ l.stack = k.stack /\ l.error = "none"
  <2>1. Fresh(k, c) /\ c.object \in DOMAIN k.fields
    BY <1>3, <1>4, <1>7 DEF Fresh, InHeap
  <2> QED
    BY <1>7, <1>8, <1>9, <2>1, SetCarKeeps
<1>11. IsFrame(l.fields, p[1])
  <2>1. PICK a : a = Assign(fields, c, fields[p[n]].car)
    OBVIOUS
  <2>2. DOMAIN a = DOMAIN fields /\ \A x \in DOMAIN a : a[x].car = l.fields[x].car
    <3>1. DOMAIN a = DOMAIN fields /\ \A x \in DOMAIN fields : x # c.object => a[x] = fields[x]
      BY <2>1 DEF Assign
    <3>2. c.object \in DOMAIN fields /\ a[c.object] = [fields[c.object] EXCEPT !.car = fields[p[n]].car]
      BY <1>3, <2>1 DEF Assign, InHeap
    <3>3. fields[c.object] = [car |-> fields[c.object].car, cdr |-> fields[c.object].cdr]
      BY <1>5, <3>2 DEF At, Inside, Sound, IsFields
    <3>4. a[c.object].car = fields[p[n]].car
      BY <3>2, <3>3
    <3> QED
      BY <1>10, <3>1, <3>4
  <2>3. p[1] \in DOMAIN fields
    BY <1>5, ContinuationIs
  <2> QED
    BY <1>3, <1>10, <2>1, <2>2, <2>3, FrameUntouched
<1>12. At(l, p, n - 1)
  <2>1. /\ n - 1 \in Nat /\ IsStack(fields, k.stack, p, n - 1) /\ Readable(fields, k.code)
    BY <1>7 DEF At
  <2>2. \A i \in 1 .. n - 1 : l.fields[p[i]].cdr = fields[p[i]].cdr
    BY <1>10, <2>1 DEF IsStack, IsChain
  <2>3. IsStack(l.fields, l.stack, p, n - 1)
    BY <1>10, <2>1, <2>2, StackUntouched
  <2>4. Readable(l.fields, l.code)
    BY <1>10, <2>1 DEF Readable
  <2> QED
    BY <1>10, <1>11, <2>1, <2>3, <2>4 DEF At
<1>13. \A x \in {l} : Done(x)
  BY <1>10, <1>12 DEF Done
<1>14. Advance({l})
  BY <1>2, <1>4, <1>6, <1>8, <1>9 DEF Set
<1>15. \E x : Inside(x) /\ Become(x)
  BY <1>13, <1>14, AdvanceIs
<1> QED
  BY <1>15, BecomeIs

(* The instruction if pops the condition and goes on with one of two       *)
(* codes.                                                                  *)
LEMMA IfIs ==
  ASSUME Sound(Memory), OperandsFound, If
  PROVE  Sound(Memory)'
<1>1. PICK n, p : At(Memory, p, n) /\ InstructionFits(p, n)
  BY RunningIs DEF If
<1>2. n > 1
  BY <1>1 DEF If, InstructionFits, GET_, CONSTANT_, SET_, IF_, CALL_
<1>3. PICK m : m = Memory
  OBVIOUS
<1>4. m.fields = fields /\ At(m, p, n)
  BY <1>1, <1>3, MemoryIs
<1>5. PICK c, v : c = Stack(m) /\ v = Operand(m)
  OBVIOUS
<1>6. PICK k : k = Pop(m)
  OBVIOUS
<1>7. /\ At(k, p, n - 1) /\ k.fields = fields /\ k.epoch = m.epoch /\ Inside(k) /\ k.error = "none"
  <2>1. At(k, p, n - 1) /\ k.fields = fields /\ k.epoch = m.epoch
    BY <1>2, <1>4, <1>6, PopIs
  <2> QED
    BY <2>1 DEF At
<1>8. PICK l : l = SetCdr(k, c, v)
  OBVIOUS
<1>9. PICK b : b = SetCode(l, c)
  OBVIOUS
<1>10. PICK t \in Nat : c = Held(p[n], t, m.epoch) /\ p[n] \in DOMAIN fields
  BY <1>4, <1>5, TopIs
<1>11. /\ Inside(l) /\ DOMAIN l.fields = DOMAIN fields
       /\ \A x \in DOMAIN fields : x # p[n] => l.fields[x] = fields[x]
       /\ l.fields[p[n]].car = fields[p[n]].car
       /\ l.stack = k.stack /\ l.error = "none" /\ l.epoch = m.epoch
  <2>1. Live(m, v)
    BY <1>4, <1>5, OperandIs
  <2>2. Live(k, v) /\ Fresh(k, c) /\ c.object = p[n]
    BY <1>4, <1>7, <1>10, <2>1, AlikeIs, HeldIs DEF Fresh
  <2> QED
    BY <1>7, <1>8, <1>10, <2>2, SetCdrKeeps
<1>12. Live(l, c) /\ Keep(l, c) = Pointer(p[n], t)
  <2>1. Live(l, c)
    BY <1>10, <1>11 DEF Live, Known
  <2> QED
    BY <1>10, <1>11, <2>1, KeepIs
<1>13. /\ Inside(b) /\ b.code = Pointer(p[n], t) /\ b.stack = k.stack /\ b.fields = l.fields
       /\ b.error = "none"
  BY <1>9, <1>11, <1>12, SetCodeKeeps
<1>14. At(b, p, n - 1)
  <2>1. n - 1 \in Nat /\ IsStack(fields, k.stack, p, n - 1) /\ IsFrame(fields, p[1])
    BY <1>7 DEF At
  <2>2. \A i \in 1 .. n - 1 : l.fields[p[i]].cdr = fields[p[i]].cdr
    <3>1. ASSUME NEW i \in 1 .. n - 1
          PROVE  p[i] # p[n] /\ p[i] \in DOMAIN fields
      <4>1. IsChain(fields, m.stack, p, n) /\ n \in Nat
        BY <1>4 DEF At, IsStack
      <4>2. i \in 1 .. n /\ n \in 1 .. n /\ i # n
        BY <1>2, <4>1
      <4> QED
        BY <4>1, <4>2 DEF IsChain
    <3> QED
      BY <1>11, <3>1
  <2>3. IsStack(b.fields, b.stack, p, n - 1)
    BY <1>11, <1>13, <2>1, <2>2, StackUntouched
  <2>4. IsFrame(b.fields, p[1])
    <3>1. p[1] \in DOMAIN fields
      BY <1>4, ContinuationIs
    <3>2. \A x \in DOMAIN fields : b.fields[x].car = fields[x].car
      BY <1>11, <1>13
    <3> QED
      BY <1>11, <1>13, <2>1, <3>1, <3>2, FrameUntouched
  <2>5. Readable(b.fields, b.code)
    BY <1>10, <1>11, <1>13, PointerIs DEF Readable
  <2> QED
    BY <1>13, <2>1, <2>3, <2>4, <2>5 DEF At
<1>15. \A x \in {IF Same(Top(m), False) THEN k ELSE b} : Done(x)
  BY <1>7, <1>13, <1>14 DEF Done
<1>16. Advance({IF Same(Top(m), False) THEN k ELSE b})
  BY <1>3, <1>5, <1>6, <1>8, <1>9 DEF If
<1>17. \E x : Inside(x) /\ Become(x)
  BY <1>15, <1>16, AdvanceIs
<1> QED
  BY <1>17, BecomeIs

(* An error leaves the memory sound.                                       *)
LEMMA FailIs ==
  ASSUME NEW m, Inside(m), NEW e, e # "fault", NEW n, n = Fail(m, e)
  PROVE  Inside(n) /\ n.error = e
<1>1. IsMemory(m) /\ n = [m EXCEPT !.error = e]
  BY DEF Inside, Sound, Fail
<1>2. /\ IsMemory(n) /\ n.code = m.code /\ n.stack = m.stack /\ n.register = m.register
      /\ n.fields = m.fields /\ n.error = e /\ n.epoch = m.epoch
  BY <1>1, SetErrorIs
<1> QED
  BY <1>2 DEF Inside, Sound

(* A call of what is no procedure is an error, and changes nothing.        *)
LEMMA CallOtherIs ==
  ASSUME Sound(Memory), CallOther
  PROVE  Sound(Memory)'
<1>1. PICK e : e = "procedure expected"
  BY Zenon
<1>2. e # "fault"
  BY <1>1, Zenon
<1>3. PICK k : k = Fail(Memory, e)
  OBVIOUS
<1>4. Become(k)
  BY <1>1, <1>3, Zenon DEF CallOther
<1>5. Inside(k)
  <2>1. Inside(Memory)
    BY SoundInside
  <2> HIDE <1>1
  <2> QED
    BY <1>2, <1>3, <2>1, FailIs
<1> QED
  BY <1>4, <1>5, BecomeIs

-----------------------------------------------------------------------------
(* Primitives. *)

(* What is held stays held in a larger graph of the same epoch.            *)
LEMMA LiveMore ==
  ASSUME NEW m, NEW n, n.epoch = m.epoch, DOMAIN m.fields \subseteq DOMAIN n.fields, NEW v, Live(m, v)
  PROVE  Live(n, v)
BY DEF Live, Known

(* A primitive runs at m: conses q on the stack, operands x above the       *)
(* frame, the last first.                                                  *)
Operands(m, q, n, x, stacked) ==
  /\ At(m, q, n) /\ Since(fields, m.fields) /\ IsFields(fields)
  /\ \A i \in 1 .. n - 1 : m.fields[q[(n + 1) - i]].car = x[i]
  /\ Len(x) = n - 1
  /\ \A i \in 1 .. n : q[i] \in stacked \/ q[i] \notin DOMAIN fields
  /\ q[1] \in DOMAIN fields

(* What Top finds, now and after a Pop. *)
LEMMA OperandsAre ==
  ASSUME NEW m, NEW q, NEW n, NEW x, NEW stacked, Operands(m, q, n, x, stacked), n > 1
  PROVE  /\ At(Pop(m), q, n - 1) /\ Pop(m).fields = m.fields /\ Pop(m).epoch = m.epoch
         /\ Live(m, Top(m)) /\ Live(Pop(m), Top(m)) /\ Keep(m, Top(m)) = x[1]
         /\ Stored(m.fields, x[1]) /\ Top(m) = Hold(m, x[1])
         /\ Readable(fields, x[1]) => Readable(m.fields, x[1])
<1>1. At(m, q, n) /\ Since(fields, m.fields) /\ IsFields(fields) /\ n \in Nat
  BY DEF Operands, At
<1>2. x[1] = m.fields[q[n]].car
  <2>1. 1 \in 1 .. n - 1 /\ (n + 1) - 1 = n
    BY <1>1
  <2> QED
    BY <2>1 DEF Operands
<1>3. PICK k : k = Pop(m)
  OBVIOUS
<1>4. At(k, q, n - 1) /\ k.fields = m.fields /\ k.epoch = m.epoch
  BY <1>1, <1>3, PopIs
<1>5. Live(m, Top(m)) /\ Keep(m, Top(m)) = x[1] /\ Top(m) = Hold(m, x[1]) /\ q[n] \in DOMAIN m.fields
  BY <1>1, <1>2, TopIs
<1>6. Live(k, Top(m))
  BY <1>4, <1>5, AlikeIs
<1>7. Stored(m.fields, x[1]) /\ Coded
  <2>1. Sound(m)
    BY <1>1 DEF At, Inside
  <2> QED
    BY <1>2, <1>5, <2>1, FieldIs DEF Sound
<1>8. Readable(fields, x[1]) => Readable(m.fields, x[1])
  <2>1. Plain(fields) /\ SinceCars(fields, m.fields)
    BY <1>1 DEF IsFields, Plain, Since, SinceCars
  <2> QED
    BY <1>7, <2>1, StaysInHeap
<1> QED
  BY <1>3, <1>4, <1>5, <1>6, <1>7, <1>8

(* What the second of two operands is, now and after both are popped.      *)
LEMMA SecondAre ==
  ASSUME NEW m, NEW q, NEW n, NEW x, NEW stacked, Operands(m, q, n, x, stacked), n > 2,
         NEW k, k = Pop(Pop(m))
  PROVE  /\ At(k, q, n - 2) /\ k.fields = m.fields /\ k.epoch = m.epoch
         /\ Live(k, Top(m)) /\ Keep(k, Top(m)) = x[1]
         /\ Live(k, Top(Pop(m))) /\ Top(Pop(m)) = Hold(k, x[2]) /\ Stored(m.fields, x[2])
         /\ InHeap(fields, x[2]) => InHeap(m.fields, x[2])
<1>1. /\ At(m, q, n) /\ Since(fields, m.fields) /\ IsFields(fields) /\ n \in Nat
      /\ Live(m, Top(m)) /\ Keep(m, Top(m)) = x[1]
  <2>1. n > 1
    BY DEF Operands, At
  <2>2. Live(m, Top(m)) /\ Keep(m, Top(m)) = x[1]
    BY <2>1, OperandsAre
  <2> QED
    BY <2>2 DEF Operands, At
<1>2. x[2] = m.fields[q[n - 1]].car
  <2>1. 2 \in 1 .. n - 1 /\ (n + 1) - 2 = n - 1
    BY <1>1
  <2> QED
    BY <2>1 DEF Operands
<1>3. PICK l : l = Pop(m)
  OBVIOUS
<1>4. At(l, q, n - 1) /\ l.fields = m.fields /\ l.epoch = m.epoch
  <2>1. n > 1
    BY <1>1
  <2> QED
    BY <1>1, <1>3, <2>1, PopIs
<1>5. At(k, q, n - 2) /\ k.fields = m.fields /\ k.epoch = m.epoch
  <2>1. PICK b : b = n - 1
    OBVIOUS
  <2>2. b > 1 /\ b - 1 = n - 2 /\ At(l, q, b) /\ k = Pop(l)
    BY <1>1, <1>3, <1>4, <2>1
  <2>3. At(k, q, b - 1) /\ k.fields = l.fields /\ k.epoch = l.epoch
    BY <2>2, PopIs
  <2> QED
    BY <1>4, <2>2, <2>3
<1>6. PICK v : v = Top(l)
  OBVIOUS
<1>7. Live(l, v) /\ v = Hold(l, x[2]) /\ q[n - 1] \in DOMAIN m.fields
  BY <1>2, <1>4, <1>6, TopIs
<1>8. Live(k, Top(m)) /\ Keep(k, Top(m)) = x[1]
  BY <1>1, <1>5, AlikeIs
<1>9. Live(k, v) /\ v = Hold(k, x[2])
  <2>1. k.fields = l.fields /\ k.epoch = l.epoch
    BY <1>4, <1>5
  <2> QED
    BY <1>7, <2>1, AlikeIs
<1>10. Stored(m.fields, x[2]) /\ Coded
  <2>1. Sound(m)
    BY <1>1 DEF At, Inside
  <2> QED
    BY <1>2, <1>7, <2>1, FieldIs DEF Sound
<1>11. InHeap(fields, x[2]) => InHeap(m.fields, x[2])
  <2>1. Plain(fields) /\ SinceCars(fields, m.fields)
    BY <1>1 DEF IsFields, Plain, Since, SinceCars
  <2> QED
    BY <1>10, <2>1, StaysInHeap
<1> QED
  BY <1>3, <1>5, <1>6, <1>8, <1>9, <1>10, <1>11

(* The primitive close allocates a closure of the procedure on the stack.  *)
LEMMA CloseIs ==
  ASSUME NEW m, NEW q, NEW n, NEW x, NEW stacked, Operands(m, q, n, x, stacked), n > 1,
         Readable(fields, x[1]), NEW k \in Close(m)
  PROVE  Done(k)
<1>1. PICK r, c : r = Pop(m) /\ c = Top(m)
  OBVIOUS
<1>2. /\ At(r, q, n - 1) /\ r.fields = m.fields /\ Live(r, c)
      /\ Readable(r.fields, x[1]) /\ Stored(r.fields, x[1]) /\ c = Hold(r, x[1])
  <2>1. /\ At(r, q, n - 1) /\ r.fields = m.fields /\ r.epoch = m.epoch /\ Live(r, c)
        /\ Readable(m.fields, x[1]) /\ Stored(m.fields, x[1]) /\ c = Hold(m, x[1])
    BY <1>1, OperandsAre
  <2> QED
    BY <2>1, AlikeIs
<1>3. PICK a, d : a = Car(r, c) /\ d = SetTag(Stack(r), ProcedureType)
  OBVIOUS
<1>4. Live(r, a)
  <2>1. Sound(r)
    BY <1>2 DEF At, Inside
  <2>2. Readable(r.fields, c)
    BY <1>2, <2>1, HoldReadable
  <2> QED
    BY <1>2, <1>3, <2>1, <2>2, ReadableIs
<1>5. Live(r, d)
  <2>1. Live(r, Stack(r)) /\ ProcedureType \in Nat
    BY <1>2, TopIs DEF ProcedureType
  <2> QED
    BY <1>3, <2>1, TagIs
<1>6. PICK l \in Allocate(r, a, d) : k \in IF l.error = "none" THEN Push(l, l.cons) ELSE {l}
  BY <1>1, <1>3, Zenon DEF Close, Then
<1>7. PICK o : Allocated(r, l, q, n - 1, o, a, d)
  BY <1>2, <1>4, <1>5, AllocateKeeps
<1>8. At(l, q, n - 1) /\ l.error = "none" /\ Live(l, l.cons)
  BY <1>7 DEF Allocated, At
<1> QED
  BY <1>6, <1>8, PushDone

(* set-car! of a cons that is found, the frame being one afterwards.       *)
LEMMA SetCarFieldIs ==
  ASSUME NEW m, NEW q, NEW n, NEW x, NEW stacked, Operands(m, q, n, x, stacked), n > 2,
         InHeap(fields, x[2]), IsFrame(Assign(fields, x[2], x[1]), q[1]),
         NEW k \in SetField(m, SetCar)
  PROVE  Done(k)
<1>1. PICK r, c, v : r = Pop(Pop(m)) /\ c = Top(Pop(m)) /\ v = Top(m)
  OBVIOUS
<1>2. /\ At(r, q, n - 2) /\ r.fields = m.fields /\ r.epoch = m.epoch
      /\ Live(r, v) /\ Keep(r, v) = x[1]
      /\ c = Hold(r, x[2]) /\ Stored(r.fields, x[2]) /\ InHeap(r.fields, x[2])
  BY <1>1, SecondAre
<1>3. PICK l : l = SetCar(r, c, v)
  OBVIOUS
<1>4. k \in IF l.error = "none" THEN Push(l, v) ELSE {l}
  BY <1>1, <1>3 DEF SetField, Then
<1>5. PICK o : o = x[2].object
  OBVIOUS
<1>6. Inside(r) /\ Sound(r) /\ r.error = "none" /\ n \in Nat
  BY <1>2 DEF At, Inside, Operands
<1>7. o \in DOMAIN r.fields /\ Fresh(r, c) /\ c.object = o
  <2>1. c = Held(o, x[2].tag, r.epoch) /\ o \in DOMAIN r.fields
    BY <1>2, <1>5, <1>6, HoldReadable DEF InHeap
  <2> QED
    BY <2>1, HeldIs DEF Fresh
<1>8. /\ Inside(l) /\ DOMAIN l.fields = DOMAIN m.fields
      /\ \A y \in DOMAIN m.fields : y # o => l.fields[y] = m.fields[y]
      /\ l.fields[o].car = x[1] /\ l.fields[o].cdr = m.fields[o].cdr
      /\ l.code = r.code /\ l.stack = r.stack /\ l.error = "none" /\ l.epoch = r.epoch
  BY <1>2, <1>3, <1>6, <1>7, SetCarKeeps
<1>9. IsFrame(l.fields, q[1])
  <2>1. PICK a : a = Assign(fields, x[2], x[1])
    OBVIOUS
  <2>2. /\ DOMAIN a = DOMAIN fields /\ \A y \in DOMAIN a : y # o => a[y] = fields[y]
        /\ a[o].car = x[1]
    <3>1. a = [fields EXCEPT ![o].car = x[1]] /\ o \in DOMAIN fields
      BY <1>5, <2>1 DEF Assign, InHeap
    <3>2. fields[o] = [car |-> fields[o].car, cdr |-> fields[o].cdr]
      BY <3>1 DEF Operands, IsFields
    <3>3. a[o] = [fields[o] EXCEPT !.car = x[1]]
      BY <3>1
    <3>4. a[o].car = x[1]
      BY <3>2, <3>3
    <3> QED
      BY <3>1, <3>4
  <2>3. Coded /\ IsFields(l.fields)
    BY <1>8 DEF Inside, Sound
  <2>4. Plain(a) /\ SinceCars(a, l.fields)
    <3>1. Since(fields, m.fields) /\ IsFields(fields)
      BY DEF Operands
    <3>2. \A y \in DOMAIN a \cap DOMAIN l.fields : l.fields[y].car = a[y].car
      BY <1>8, <2>2, <3>1 DEF Since
    <3> QED
      BY <1>8, <2>2, <3>1, <3>2 DEF Since, SinceCars, Plain, IsFields
  <2>5. q[1] \in DOMAIN a \cap DOMAIN l.fields
    <3>1. q[1] \in DOMAIN fields
      BY DEF Operands
    <3>2. q[1] \in DOMAIN m.fields
      BY <1>2, ContinuationIs
    <3> QED
      BY <1>8, <2>2, <3>1, <3>2
  <2> QED
    BY <2>1, <2>3, <2>4, <2>5, StaysFrame
<1>10. At(l, q, n - 2)
  <2>1. /\ n - 2 \in Nat /\ IsStack(r.fields, r.stack, q, n - 2) /\ Readable(r.fields, r.code)
    BY <1>2 DEF At
  <2>2. \A i \in 1 .. n - 2 : l.fields[q[i]].cdr = r.fields[q[i]].cdr
    BY <1>2, <1>8, <2>1 DEF IsStack, IsChain
  <2>3. IsStack(l.fields, l.stack, q, n - 2)
    BY <1>2, <1>8, <2>1, <2>2, StackUntouched
  <2>4. Readable(l.fields, l.code)
    BY <1>2, <1>8, <2>1 DEF Readable
  <2> QED
    BY <1>8, <1>9, <2>1, <2>3, <2>4 DEF At
<1>11. Live(l, v)
  BY <1>2, <1>8, LiveMore
<1> QED
  BY <1>4, <1>8, <1>10, <1>11, PushDone

(* set-cdr! of a cons that is found and is none of the stack.              *)
LEMMA SetCdrFieldIs ==
  ASSUME NEW m, NEW q, NEW n, NEW x, NEW stacked, Operands(m, q, n, x, stacked), n > 2,
         InHeap(fields, x[2]), x[2].object \notin stacked,
         NEW k \in SetField(m, SetCdr)
  PROVE  Done(k)
<1>1. PICK r, c, v : r = Pop(Pop(m)) /\ c = Top(Pop(m)) /\ v = Top(m)
  OBVIOUS
<1>2. /\ At(r, q, n - 2) /\ r.fields = m.fields /\ r.epoch = m.epoch
      /\ Live(r, v) /\ Keep(r, v) = x[1]
      /\ c = Hold(r, x[2]) /\ Stored(r.fields, x[2]) /\ InHeap(r.fields, x[2])
  BY <1>1, SecondAre
<1>3. PICK l : l = SetCdr(r, c, v)
  OBVIOUS
<1>4. k \in IF l.error = "none" THEN Push(l, v) ELSE {l}
  BY <1>1, <1>3 DEF SetField, Then
<1>5. PICK o : o = x[2].object
  OBVIOUS
<1>6. Inside(r) /\ Sound(r) /\ r.error = "none" /\ n \in Nat
  BY <1>2 DEF At, Inside, Operands
<1>7. o \in DOMAIN r.fields /\ Fresh(r, c) /\ c.object = o
  <2>1. c = Held(o, x[2].tag, r.epoch) /\ o \in DOMAIN r.fields
    BY <1>2, <1>5, <1>6, HoldReadable DEF InHeap
  <2> QED
    BY <2>1, HeldIs DEF Fresh
<1>8. /\ Inside(l) /\ DOMAIN l.fields = DOMAIN m.fields
      /\ \A y \in DOMAIN m.fields : y # o => l.fields[y] = m.fields[y]
      /\ l.fields[o].car = m.fields[o].car
      /\ l.code = r.code /\ l.stack = r.stack /\ l.error = "none" /\ l.epoch = r.epoch
  BY <1>2, <1>3, <1>6, <1>7, SetCdrKeeps
<1>9. At(l, q, n - 2)
  <2>1. /\ n - 2 \in Nat /\ IsStack(r.fields, r.stack, q, n - 2) /\ Readable(r.fields, r.code)
        /\ IsFrame(r.fields, q[1])
    BY <1>2 DEF At
  <2>2. \A i \in 1 .. n - 2 : l.fields[q[i]].cdr = r.fields[q[i]].cdr
    <3>1. ASSUME NEW i \in 1 .. n - 2
          PROVE  q[i] # o /\ q[i] \in DOMAIN m.fields
      <4>1. i \in 1 .. n
        BY <1>6
      <4>2. o \in DOMAIN fields /\ o \notin stacked
        BY <1>5 DEF InHeap
      <4> QED
        BY <1>2, <2>1, <4>1, <4>2 DEF Operands, IsStack, IsChain
    <3> QED
      BY <1>2, <1>8, <3>1
  <2>3. IsStack(l.fields, l.stack, q, n - 2)
    BY <1>2, <1>8, <2>1, <2>2, StackUntouched
  <2>4. Readable(l.fields, l.code)
    BY <1>2, <1>8, <2>1 DEF Readable
  <2>5. IsFrame(l.fields, q[1])
    <3>1. q[1] \in DOMAIN m.fields
      BY <1>2, ContinuationIs
    <3>2. \A y \in DOMAIN m.fields : l.fields[y].car = m.fields[y].car
      BY <1>8
    <3> QED
      BY <1>2, <1>8, <2>1, <3>1, <3>2, FrameUntouched
  <2> QED
    BY <1>8, <2>1, <2>3, <2>4, <2>5 DEF At
<1>10. Live(l, v)
  BY <1>2, <1>8, LiveMore
<1> QED
  BY <1>4, <1>8, <1>9, <1>10, PushDone

(* The fields of an operand that may be read are held.                     *)
LEMMA ReadTop ==
  ASSUME NEW m, NEW q, NEW n, NEW x, NEW stacked, Operands(m, q, n, x, stacked), n > 1,
         Readable(fields, x[1]), NEW l, l = Pop(m), NEW c, c = Top(m)
  PROVE  At(l, q, n - 1) /\ Live(l, c) /\ Live(l, Car(l, c)) /\ Live(l, Cdr(l, c))
<1>1. /\ At(l, q, n - 1) /\ l.fields = m.fields /\ l.epoch = m.epoch /\ Live(l, c)
      /\ Readable(m.fields, x[1]) /\ Stored(m.fields, x[1]) /\ c = Hold(m, x[1])
  BY OperandsAre
<1>2. c = Hold(l, x[1]) /\ Sound(l)
  BY <1>1, AlikeIs DEF At, Inside
<1>3. Readable(l.fields, c)
  BY <1>1, <1>2, HoldReadable
<1> QED
  BY <1>1, <1>2, <1>3, ReadableIs

(* Every primitive that finds the operands it is for is done.              *)
LEMMA OperateIs ==
  ASSUME NEW m, NEW q, NEW n, NEW x, NEW stacked, Operands(m, q, n, x, stacked),
         NEW primitive, Fits(primitive, x, stacked, q[1]), NEW k \in Operate(m, primitive)
  PROVE  Done(k)
<1> USE DEF CLOSE, UNBIND, CAR, CDR, SET_CAR, SET_CDR, EQUAL, ADD
<1>1. n \in Nat /\ Len(x) = n - 1 /\ At(m, q, n)
  BY DEF Operands, At
<1>2. CASE primitive = CLOSE
  <2>1. n > 1 /\ Readable(fields, x[1])
    BY <1>1, <1>2 DEF Fits
  <2>2. k \in Close(m)
    BY <1>2 DEF Operate, Unbind, OperateTop, OperateBinary, SetField, Then
  <2> QED
    BY <2>1, <2>2, CloseIs
<1>3. CASE primitive = UNBIND
  <2>1. n > 2
    BY <1>1, <1>3 DEF Fits
  <2>2. k \in Push(Pop(Pop(m)), Top(m))
    BY <1>3 DEF Operate, Unbind, OperateTop, OperateBinary, SetField, Then
  <2>3. PICK l, v : l = Pop(Pop(m)) /\ v = Top(m)
    OBVIOUS
  <2>4. At(l, q, n - 2) /\ Live(l, v)
    BY <2>1, <2>3, SecondAre
  <2> QED
    BY <2>2, <2>3, <2>4, PushDone
<1>4. CASE primitive = CAR
  <2>1. n > 1 /\ Readable(fields, x[1])
    BY <1>1, <1>4 DEF Fits
  <2>2. PICK l, c : l = Pop(m) /\ c = Top(m)
    OBVIOUS
  <2>3. k \in Push(l, Car(l, c))
    BY <1>4, <2>2 DEF Operate, Unbind, OperateTop, OperateBinary, SetField, Then
  <2>4. At(l, q, n - 1) /\ Live(l, c) /\ Live(l, Car(l, c))
    BY <2>1, <2>2, ReadTop
  <2> QED
    BY <2>3, <2>4, PushDone
<1>5. CASE primitive = CDR
  <2>1. n > 1 /\ Readable(fields, x[1])
    BY <1>1, <1>5 DEF Fits
  <2>2. PICK l, c : l = Pop(m) /\ c = Top(m)
    OBVIOUS
  <2>3. k \in Push(l, Cdr(l, c))
    BY <1>5, <2>2 DEF Operate, Unbind, OperateTop, OperateBinary, SetField, Then
  <2>4. At(l, q, n - 1) /\ Live(l, c) /\ Live(l, Cdr(l, c))
    BY <2>1, <2>2, ReadTop
  <2> QED
    BY <2>3, <2>4, PushDone
<1>6. CASE primitive = SET_CAR
  <2>1. n > 2 /\ InHeap(fields, x[2]) /\ IsFrame(Assign(fields, x[2], x[1]), q[1])
    BY <1>1, <1>6 DEF Fits
  <2>2. k \in SetField(m, SetCar)
    BY <1>6 DEF Operate, Unbind, OperateTop, OperateBinary, SetField, Then
  <2> QED
    BY <2>1, <2>2, SetCarFieldIs
<1>7. CASE primitive = SET_CDR
  <2>1. n > 2 /\ InHeap(fields, x[2]) /\ x[2].object \notin stacked
    BY <1>1, <1>7 DEF Fits
  <2>2. k \in SetField(m, SetCdr)
    BY <1>7 DEF Operate, Unbind, OperateTop, OperateBinary, SetField, Then
  <2> QED
    BY <2>1, <2>2, SetCdrFieldIs
<1>8. CASE primitive = EQUAL
  <2>1. n > 2
    BY <1>1, <1>8 DEF Fits
  <2>2. PICK l, b : l = Pop(Pop(m)) /\ b = Same(Top(Pop(m)), Top(m))
    OBVIOUS
  <2>3. PICK v : v = Boolean(m, b)
    OBVIOUS
  <2>4. k \in Push(l, v)
    BY <1>8, <2>2, <2>3 DEF Operate, Unbind, OperateTop, OperateBinary, SetField, Then
  <2>5. At(l, q, n - 2) /\ l.fields = m.fields /\ l.epoch = m.epoch
    BY <2>1, <2>2, SecondAre
  <2>6. Live(m, v)
    <3>1. PICK w \in {True, False} : v = Hold(m, w)
      BY <2>3 DEF Boolean
    <3>2. Stored(m.fields, w)
      BY <3>1 DEF True, False, Stored, Known, IsSymbol
    <3> QED
      BY <3>1, <3>2, HoldIs
  <2>7. Live(l, v)
    BY <2>5, <2>6, AlikeIs
  <2> QED
    BY <2>4, <2>5, <2>7, PushDone
<1>9. CASE primitive = ADD
  <2>1. n > 2 /\ ~IsPointer(x[1]) /\ ~IsPointer(x[2])
    BY <1>1, <1>9 DEF Fits
  <2>2. PICK l, a, b : l = Pop(Pop(m)) /\ a = Top(Pop(m)) /\ b = Top(m)
    OBVIOUS
  <2>3. k \in Push(l, Sum(a, b))
    BY <1>9, <2>2 DEF Operate, Unbind, OperateTop, OperateBinary, SetField, Then
  <2>4. /\ At(l, q, n - 2) /\ l.fields = m.fields
        /\ Live(l, a) /\ Live(l, b) /\ Keep(l, b) = x[1] /\ a = Hold(l, x[2]) /\ Stored(l.fields, x[2])
    BY <2>1, <2>2, SecondAre
  <2>5. IsNumber(a) /\ IsNumber(b)
    <3>1. ~IsPointer(a) /\ ~IsPointer(b)
      BY <2>1, <2>4, HoldIs, KeepIs
    <3> QED
      BY <2>4, <3>1, HeldIs DEF Live
  <2>6. Live(l, Sum(a, b))
    <3>1. IsNumber(Sum(a, b))
      <4>1. a.number \in Int /\ b.number \in Int /\ "number" \in DOMAIN a /\ "number" \in DOMAIN b
        BY <2>5, NumberIs
      <4> QED
        BY <4>1 DEF Sum, IsNumber
    <3> QED
      BY <3>1 DEF Live
  <2> QED
    BY <2>3, <2>4, <2>6, PushDone
<1>10. primitive \in {CLOSE, UNBIND, CAR, CDR, SET_CAR, SET_CDR, EQUAL, ADD}
  BY DEF Fits
<1> QED
  BY <1>2, <1>3, <1>4, <1>5, <1>6, <1>7, <1>8, <1>9, <1>10

-----------------------------------------------------------------------------
(* Lists of arguments. *)

(* A list ends where it ends when it is held.                              *)
LEMMA SameHeld ==
  ASSUME NEW m, Sound(m), NEW v, Stored(m.fields, v)
  PROVE  Same(Hold(m, v), Null) <=> Same(v, Null)
<1>1. CASE ~IsPointer(v)
  BY <1>1 DEF Hold
<1>2. CASE IsPointer(v)
  <2>1. PICK c : c = Hold(m, v) /\ IsPointer(c) /\ c.object = v.object
    BY <1>2, HoldReadable, HoldIs
  <2>2. IsPointer(Null)
    BY PointerIs DEF Null
  <2> QED
    BY <1>2, <2>1, <2>2 DEF Same
<1> QED
  BY <1>1, <1>2

(* The cons on top of a list. *)
LEMMA ListTop ==
  ASSUME NEW m, Sound(m), NEW v, Stored(m.fields, v), NEW l, NEW c \in Nat, IsListOf(m.fields, v, l, c),
         NEW h, h = Hold(m, v)
  PROVE  /\ Live(m, h) /\ (Same(h, Null) <=> c = 0)
         /\ c > 0 => /\ l[c] \in DOMAIN m.fields
                     /\ Car(m, h) = Hold(m, m.fields[l[c]].car) /\ Live(m, Car(m, h))
                     /\ Keep(m, Car(m, h)) = m.fields[l[c]].car
                     /\ Cdr(m, h) = Hold(m, m.fields[l[c]].cdr) /\ Live(m, Cdr(m, h))
                     /\ Keep(m, Cdr(m, h)) = m.fields[l[c]].cdr
                     /\ IsListOf(m.fields, m.fields[l[c]].cdr, l, c - 1)
<1>1. Live(m, h) /\ (Same(h, Null) <=> Same(v, Null))
  BY HoldIs, SameHeld
<1>2. CASE c = 0
  BY <1>1, <1>2 DEF IsListOf
<1>3. CASE c > 0
  <2>1. c \in 1 .. c /\ (c # 1 => c \in 2 .. c)
    BY <1>3
  <2>2. l[c] \in DOMAIN m.fields /\ PointsTo(v, l[c]) /\ l[c] # Null.object
    BY <1>3, <2>1 DEF IsListOf, IsChain
  <2>3. ~Same(v, Null)
    <3>1. IsPointer(Null)
      BY PointerIs DEF Null
    <3> QED
      BY <2>2, <3>1 DEF Same, PointsTo
  <2>4. h = Held(l[c], v.tag, m.epoch)
    BY <2>2, HoldReadable DEF PointsTo
  <2>5. Car(m, h) = Hold(m, m.fields[l[c]].car) /\ Cdr(m, h) = Hold(m, m.fields[l[c]].cdr)
    BY <2>2, <2>4, ReadIs
  <2>6. Stored(m.fields, m.fields[l[c]].car) /\ Stored(m.fields, m.fields[l[c]].cdr)
    BY <2>2, FieldIs
  <2>7. IsListOf(m.fields, m.fields[l[c]].cdr, l, c - 1)
    BY <1>3, <2>1 DEF IsListOf, IsChain
  <2> QED
    BY <1>1, <1>3, <2>2, <2>3, <2>5, <2>6, <2>7, HoldIs
<1> QED
  BY <1>2, <1>3

(* The first of a list in the register goes to the stack. *)
Shift(m) ==
  Then(Push(m, Car(m, Register(m))), LAMBDA k : {SetRegister(k, Cdr(k, Register(k)))})

Shifted(m, z, q, n, l, c, o) ==
  /\ At(z, Extended(q, n, o), n + 1) /\ IsListOf(z.fields, z.register, l, c - 1)
  /\ o \notin DOMAIN fields /\ z.fields[o].car = m.fields[l[c]].car
  /\ \A i \in 1 .. n : z.fields[q[i]] = m.fields[q[i]]
  /\ Since(m.fields, z.fields) /\ (Since(fields, m.fields) => Since(fields, z.fields))
  /\ \A i \in 1 .. c : l[i] \in DOMAIN z.fields /\ z.fields[l[i]] = m.fields[l[i]]

(* The first of the list in the register is on the stack, the rest in the  *)
(* register.                                                               *)
LEMMA ShiftIs ==
  ASSUME NEW m, NEW q, NEW n, At(m, q, n), NEW l, NEW c \in Nat, c > 0,
         IsListOf(m.fields, m.register, l, c), NEW z \in Shift(m)
  PROVE  \E o : Shifted(m, z, q, n, l, c, o)
<1>1. Sound(m) /\ Stored(m.fields, m.register) /\ Coded /\ Plain(m.fields) /\ n \in Nat
  BY DEF At, Inside, Sound, IsFields, Plain
<1>2. PICK v : v = Car(m, Register(m)) /\ Live(m, v) /\ Keep(m, v) = m.fields[l[c]].car
  BY <1>1, ListTop DEF Register
<1>3. PICK w \in Push(m, v) :
        z \in IF w.error = "none" THEN {SetRegister(w, Cdr(w, Register(w)))} ELSE {w}
  BY <1>2, Zenon DEF Shift, Then
<1>4. PICK o : Pushed(m, w, q, n, o, Keep(m, v))
  BY <1>2, <1>3, PushIs
<1>5. /\ At(w, Extended(q, n, o), n + 1) /\ w.register = m.register
      /\ o \notin DOMAIN fields /\ w.fields[o].car = m.fields[l[c]].car
      /\ \A i \in 1 .. n : w.fields[q[i]] = m.fields[q[i]]
      /\ Since(m.fields, w.fields) /\ (Since(fields, m.fields) => Since(fields, w.fields))
  BY <1>2, <1>4 DEF Pushed
<1>6. z = SetRegister(w, Cdr(w, Register(w))) /\ Inside(w) /\ Sound(w)
      /\ IsFields(w.fields) /\ Stored(w.fields, w.register)
  BY <1>3, <1>5 DEF At, Inside, Sound
<1>7. /\ IsListOf(w.fields, w.register, l, c)
      /\ \A i \in 1 .. c : l[i] \in DOMAIN w.fields /\ w.fields[l[i]] = m.fields[l[i]]
  BY <1>1, <1>5, <1>6, StaysList
<1>8. PICK d : d = Cdr(w, Register(w)) /\ Live(w, d) /\ Keep(w, d) = w.fields[l[c]].cdr
               /\ IsListOf(w.fields, w.fields[l[c]].cdr, l, c - 1)
  BY <1>6, <1>7, ListTop DEF Register
<1>9. /\ Inside(z) /\ z.register = w.fields[l[c]].cdr
      /\ z.code = w.code /\ z.stack = w.stack /\ z.fields = w.fields /\ z.error = w.error
  BY <1>6, <1>8, SetRegisterKeeps
<1>10. At(z, Extended(q, n, o), n + 1)
  BY <1>5, <1>9 DEF At
<1> QED
  BY <1>5, <1>7, <1>8, <1>9, <1>10 DEF Shifted

(* SpreadArguments. *)
SpreadOne(n) == IF Same(Register(n), Null) THEN {n} ELSE Shift(n)

Spreads(g, m, n) ==
  g = [i \in 0 .. n |-> IF i = 0 THEN {SetRegister(Pop(m), Top(m))} ELSE Then(g[i - 1], SpreadOne)]

(* The steps of SpreadArguments are a function.                            *)
LEMMA SpreadsExist ==
  ASSUME NEW m, NEW n \in Nat
  PROVE  \E g : Spreads(g, m, n)
<1> DEFINE S == {i \in Nat : \E g : Spreads(g, m, i)}
<1>1. 0 \in S
  <2>1. PICK g : g = [j \in 0 .. 0 |-> {SetRegister(Pop(m), Top(m))}]
    OBVIOUS
  <2>2. Spreads(g, m, 0)
    BY <2>1 DEF Spreads
  <2> QED
    BY <2>2
<1>2. ASSUME NEW i \in 1 .. n, i - 1 \in S
      PROVE  i \in S
  <2>1. PICK g : Spreads(g, m, i - 1)
    BY <1>2
  <2>2. PICK last : last = Then(g[i - 1], SpreadOne)
    OBVIOUS
  <2>3. PICK h : h = [j \in 0 .. i |-> IF j < i THEN g[j] ELSE last]
    OBVIOUS
  <2>4. ASSUME NEW j \in 0 .. i
        PROVE  h[j] = IF j = 0 THEN {SetRegister(Pop(m), Top(m))} ELSE Then(h[j - 1], SpreadOne)
    <3>1. CASE j = i
      <4>1. h[j] = last /\ h[j - 1] = g[i - 1] /\ j # 0
        BY <2>3, <3>1
      <4> QED
        BY <2>2, <4>1, Zenon
    <3>2. CASE j # i
      <4>1. j \in 0 .. i - 1 /\ h[j] = g[j] /\ (j # 0 => h[j - 1] = g[j - 1])
        BY <2>3, <3>2
      <4>2. g[j] = IF j = 0 THEN {SetRegister(Pop(m), Top(m))} ELSE Then(g[j - 1], SpreadOne)
        BY <2>1, <4>1, Zenon DEF Spreads
      <4> QED
        BY <4>1, <4>2, Zenon
    <3> QED
      BY <3>1, <3>2
  <2>5. Spreads(h, m, i)
    <3>1. h = [j \in 0 .. i |-> h[j]]
      BY <2>3
    <3> QED
      BY <2>4, <3>1, Zenon DEF Spreads
  <2> QED
    BY <2>5
<1>3. 0 .. n \subseteq S
  <2> HIDE DEF S
  <2> QED
    BY <1>1, <1>2, Upwards
<1> QED
  BY <1>3

(* SpreadArguments is the last of its steps.                               *)
LEMMA SpreadArgumentsIs ==
  ASSUME NEW m, IsFiniteSet(DOMAIN m.fields)
  PROVE  \E g : Spreads(g, m, Cardinality(DOMAIN m.fields))
                /\ SpreadArguments(m) = g[Cardinality(DOMAIN m.fields)]
<1> DEFINE N == Cardinality(DOMAIN m.fields)
           Is(spread) == spread = [i \in 0 .. N |->
                           IF i = 0
                           THEN {SetRegister(Pop(m), Top(m))}
                           ELSE UNION {IF k.error = "none"
                                       THEN IF Same(Register(k), Null)
                                            THEN {k}
                                            ELSE UNION {IF j.error = "none"
                                                        THEN {SetRegister(j, Cdr(j, Register(j)))}
                                                        ELSE {j} :
                                                          j \in Push(k, Car(k, Register(k)))}
                                       ELSE {k} : k \in spread[i - 1]}]
           F == CHOOSE spread : Is(spread)
<1>1. SpreadArguments(m) = F[N]
  BY Zenon DEF SpreadArguments, Then
<1>2. N \in Nat
  BY FS_CardinalityType
<1>3. \E g : Is(g)
  <2>1. PICK g : Spreads(g, m, N)
    BY <1>2, SpreadsExist
  <2>2. Is(g)
    BY <2>1, Zenon DEF Spreads, SpreadOne, Shift, Then
  <2> QED
    BY <2>2
<1>4. Is(F)
  BY <1>3, Zenon
<1>5. Spreads(F, m, N)
  <2> HIDE DEF F
  <2> QED
    BY <1>4, Zenon DEF Spreads, SpreadOne, Shift, Then
<1> QED
  <2> HIDE DEF F
  <2> QED
    BY <1>1, <1>5

(* j of the k arguments of the list l are on the stack q, above what was    *)
(* below the list on the stack p.                                          *)
Spreading(y, q, p, n, l, k, j) ==
  /\ At(y, q, n - 1 + j) /\ Since(fields, y.fields)
  /\ IsListOf(y.fields, y.register, l, k - j)
  /\ \A b \in 1 .. n - 1 : q[b] = p[b]
  /\ \A a \in 1 .. j : /\ q[n - 1 + a] \notin DOMAIN fields
                       /\ y.fields[q[n - 1 + a]].car = fields[l[k + 1 - a]].car

(* One argument more is on the stack, until there is none.                 *)
LEMMA SpreadStep ==
  ASSUME NEW n \in Nat, n > 1, NEW k \in Nat, NEW l, \A i \in 1 .. k : l[i] \in DOMAIN fields,
         NEW j \in 0 .. k, NEW y, NEW q, NEW p, Spreading(y, q, p, n, l, k, j), NEW z \in SpreadOne(y)
  PROVE  \E r : Spreading(z, r, p, n, l, k, IF j < k THEN j + 1 ELSE k)
<1>1. PICK N, c : N = n - 1 + j /\ c = k - j
  OBVIOUS
<1>2. N \in Nat /\ c \in Nat /\ (c = 0 <=> j = k) /\ N >= 1
  BY <1>1
<1>3. At(y, q, N) /\ IsListOf(y.fields, y.register, l, c) /\ Since(fields, y.fields)
  BY <1>1 DEF Spreading
<1>4. Same(Register(y), Null) <=> c = 0
  <2>1. Sound(y) /\ Stored(y.fields, y.register)
    BY <1>3 DEF At, Inside, Sound
  <2> QED
    BY <1>2, <1>3, <2>1, ListTop DEF Register
<1>5. CASE j = k
  BY <1>2, <1>4, <1>5 DEF SpreadOne
<1>6. CASE j # k
  <2>1. z \in Shift(y) /\ c > 0
    BY <1>2, <1>4, <1>6 DEF SpreadOne
  <2>2. PICK o : Shifted(y, z, q, N, l, c, o)
    BY <1>2, <1>3, <2>1, ShiftIs
  <2>3. PICK r : r = Extended(q, N, o)
    OBVIOUS
  <2>4. /\ At(z, r, N + 1) /\ IsListOf(z.fields, z.register, l, c - 1)
        /\ o \notin DOMAIN fields /\ z.fields[o].car = y.fields[l[c]].car
        /\ \A i \in 1 .. N : z.fields[q[i]] = y.fields[q[i]]
        /\ Since(fields, z.fields)
    BY <1>3, <2>2, <2>3 DEF Shifted
  <2>5. r[N + 1] = o /\ \A i \in 1 .. N : r[i] = q[i]
    BY <1>2, <2>3 DEF Extended
  <2>6. y.fields[l[c]].car = fields[l[c]].car
    <3>1. c \in 1 .. c /\ c \in 1 .. k
      BY <1>1, <1>2, <2>1
    <3>2. l[c] \in DOMAIN y.fields /\ l[c] \in DOMAIN fields
      BY <1>3, <3>1 DEF IsListOf, IsChain
    <3> QED
      BY <1>3, <3>2 DEF Since
  <2>7. j < k /\ n - 1 + (j + 1) = N + 1 /\ k - (j + 1) = c - 1 /\ k + 1 - (j + 1) = c
    BY <1>1, <1>6
  <2>8. \A b \in 1 .. n - 1 : r[b] = p[b]
    <3>1. \A b \in 1 .. n - 1 : b \in 1 .. N
      BY <1>1
    <3> QED
      BY <2>5, <3>1 DEF Spreading
  <2>9. ASSUME NEW a \in 1 .. j + 1
        PROVE  /\ r[n - 1 + a] \notin DOMAIN fields
               /\ z.fields[r[n - 1 + a]].car = fields[l[k + 1 - a]].car
    <3>1. CASE a = j + 1
      <4>1. n - 1 + a = N + 1 /\ k + 1 - a = c
        BY <2>7, <3>1
      <4> QED
        BY <2>4, <2>5, <2>6, <4>1
    <3>2. CASE a # j + 1
      <4>1. a \in 1 .. j /\ n - 1 + a \in 1 .. N
        BY <1>1, <3>2
      <4>2. r[n - 1 + a] = q[n - 1 + a] /\ z.fields[q[n - 1 + a]] = y.fields[q[n - 1 + a]]
        BY <2>4, <2>5, <4>1
      <4> QED
        BY <4>1, <4>2 DEF Spreading
    <3> QED
      BY <3>1, <3>2
  <2>10. Spreading(z, r, p, n, l, k, j + 1)
    BY <2>4, <2>7, <2>8, <2>9 DEF Spreading
  <2> QED
    BY <2>7, <2>10
<1> QED
  BY <1>5, <1>6

(* SpreadArguments leaves every argument of the list on the stack.         *)
LEMMA SpreadIs ==
  ASSUME NEW m, NEW p, NEW n, At(m, p, n), n > 1, m.fields = fields,
         NEW k \in 0 .. Cardinality(DOMAIN fields), NEW l, IsListOf(fields, fields[p[n]].car, l, k),
         NEW z \in SpreadArguments(m)
  PROVE  \E q : Spreading(z, q, p, n, l, k, k)
<1>1. IsFiniteSet(DOMAIN m.fields) /\ n \in Nat
  BY DEF At, Inside, Sound, IsFields
<1>2. PICK N \in Nat : N = Cardinality(DOMAIN m.fields) /\ k <= N /\ k \in Nat
  <2>1. Cardinality(DOMAIN m.fields) \in Nat
    BY <1>1, FS_CardinalityType
  <2> QED
    BY <2>1
<1>3. PICK g : Spreads(g, m, N) /\ SpreadArguments(m) = g[N]
  BY <1>1, <1>2, SpreadArgumentsIs
<1>4. \A i \in 0 .. N : g[i] = IF i = 0 THEN {SetRegister(Pop(m), Top(m))} ELSE Then(g[i - 1], SpreadOne)
  BY <1>3, Zenon DEF Spreads
<1>5. \A i \in 1 .. k : l[i] \in DOMAIN fields
  BY DEF IsListOf, IsChain
<1> DEFINE J(i) == IF i < k THEN i ELSE k
           S == {i \in 0 .. N : \A y \in g[i] : \E q : Spreading(y, q, p, n, l, k, J(i))}
<1>6. 0 \in S
  <2>1. PICK r, v : r = Pop(m) /\ v = Top(m)
    OBVIOUS
  <2>2. PICK y : y = SetRegister(r, v)
    OBVIOUS
  <2>3. g[0] = {y}
    <3>1. 0 \in 0 .. N
      BY <1>2
    <3> QED
      BY <1>4, <2>1, <2>2, <3>1, Zenon
  <2>4. At(r, p, n - 1) /\ r.fields = fields /\ r.epoch = m.epoch
    BY <2>1, PopIs
  <2>5. Live(r, v) /\ Keep(r, v) = fields[p[n]].car
    <3>1. Live(m, v) /\ Keep(m, v) = m.fields[p[n]].car
      BY <2>1, TopIs
    <3> QED
      BY <2>4, <3>1, AlikeIs
  <2>6. /\ Inside(y) /\ y.register = fields[p[n]].car
        /\ y.code = r.code /\ y.stack = r.stack /\ y.fields = fields /\ y.error = r.error
    <3>1. Inside(r)
      BY <2>4 DEF At
    <3> QED
      BY <2>2, <2>4, <2>5, <3>1, SetRegisterKeeps
  <2>7. At(y, p, n - 1)
    BY <2>4, <2>6 DEF At
  <2>8. Spreading(y, p, p, n, l, k, 0)
    <3>1. n - 1 + 0 = n - 1 /\ k - 0 = k /\ \A a \in 1 .. 0 : FALSE
      BY <1>1, <1>2
    <3>2. Since(fields, y.fields)
      BY <2>6 DEF Since
    <3> QED
      BY <2>6, <2>7, <3>1, <3>2 DEF Spreading
  <2>9. J(0) = 0
    BY <1>2
  <2> QED
    BY <1>2, <2>3, <2>8, <2>9
<1>7. ASSUME NEW i \in 1 .. N, i - 1 \in S
      PROVE  i \in S
  <2>1. i \in 0 .. N /\ i # 0
    OBVIOUS
  <2>2. g[i] = Then(g[i - 1], SpreadOne)
    BY <1>4, <2>1, Zenon
  <2>3. PICK j : j = J(i - 1)
    OBVIOUS
  <2>4. j \in 0 .. k /\ J(i) = IF j < k THEN j + 1 ELSE k
    BY <1>2, <2>1, <2>3
  <2>5. \A y \in g[i - 1] : \E q : Spreading(y, q, p, n, l, k, j)
    BY <1>7, <2>3
  <2>6. ASSUME NEW y \in g[i]
        PROVE  \E q : Spreading(y, q, p, n, l, k, IF j < k THEN j + 1 ELSE k)
    <3>1. PICK x \in g[i - 1] : y \in IF x.error = "none" THEN SpreadOne(x) ELSE {x}
      BY <2>2 DEF Then
    <3>2. PICK q : Spreading(x, q, p, n, l, k, j)
      BY <2>5
    <3>3. y \in SpreadOne(x)
      BY <3>1, <3>2 DEF Spreading, At
    <3> QED
      BY <1>1, <1>2, <1>5, <2>4, <3>2, <3>3, SpreadStep
  <2> QED
    BY <2>1, <2>4, <2>6
<1>8. 0 .. N \subseteq S
  <2> HIDE DEF S
  <2> QED
    BY <1>2, <1>6, <1>7, Upwards
<1>9. N \in S /\ J(N) = k
  BY <1>2, <1>8
<1> QED
  BY <1>3, <1>9

(* The length and the elements of a sequence given as a function.          *)
LEMMA LenIs ==
  ASSUME NEW n \in Nat, NEW f, NEW s, s = [i \in 1 .. n |-> f[i]]
  PROVE  Len(s) = n /\ \A i \in 1 .. n : s[i] = f[i]
<1>1. PICK S : S = {f[i] : i \in 1 .. n}
  OBVIOUS
<1>2. s \in Seq(S)
  BY <1>1
<1> QED
  BY <1>2

(* The operands of a primitive are on the stack of the instruction, or on  *)
(* the stack and in a list.                                                *)
LEMMA PlainOperands ==
  ASSUME Sound(Memory), NEW p, NEW n, At(Memory, p, n),
         NEW x, x = [i \in 1 .. n - 1 |-> fields[p[(n + 1) - i]].car],
         NEW stacked, stacked = {p[i] : i \in 1 .. n}
  PROVE  Operands(Memory, p, n, x, stacked)
<1>1. PICK m : m = Memory
  OBVIOUS
<1>2. At(m, p, n) /\ m.fields = fields /\ Since(fields, fields) /\ n \in Nat /\ n > 0
  BY <1>1, MemoryIs, SoundInside, TopIs
<1>3. IsFields(fields)
  BY MemoryIs DEF Sound
<1>4. PICK f : f = [i \in 1 .. n - 1 |-> fields[p[(n + 1) - i]].car]
  OBVIOUS
<1>5. x = [i \in 1 .. n - 1 |-> f[i]] /\ n - 1 \in Nat
  BY <1>2, <1>4
<1>6. Len(x) = n - 1
  BY <1>5, LenIs
<1>7. \A i \in 1 .. n - 1 : fields[p[(n + 1) - i]].car = x[i]
  OBVIOUS
<1>8. p[1] \in DOMAIN fields
  BY <1>2, ContinuationIs
<1> QED
  BY <1>1, <1>2, <1>3, <1>6, <1>7, <1>8 DEF Operands

(* With a list, its elements are the last operands.                        *)
LEMMA SpreadOperands ==
  ASSUME Sound(Memory), NEW p, NEW n, At(Memory, p, n), n > 1, NEW k \in Nat, NEW l,
         NEW z, NEW q, Spreading(z, q, p, n, l, k, k),
         NEW x, x = [i \in 1 .. k + n - 2 |-> fields[IF i <= k THEN l[i] ELSE p[(n + k) - i]].car],
         NEW stacked, stacked = {p[i] : i \in 1 .. n}
  PROVE  Operands(z, q, n - 1 + k, x, stacked)
<1>1. PICK m : m = Memory
  OBVIOUS
<1>2. m.fields = fields /\ At(m, p, n) /\ n \in Nat /\ IsFields(fields)
  <2>1. IsFields(fields)
    BY MemoryIs DEF Sound
  <2> QED
    BY <1>1, <2>1, MemoryIs, TopIs
<1>3. PICK N \in Nat : N = n - 1 + k
  BY <1>2
<1>4. /\ At(z, q, N) /\ Since(fields, z.fields)
      /\ \A b \in 1 .. n - 1 : q[b] = p[b]
      /\ \A a \in 1 .. k : /\ q[n - 1 + a] \notin DOMAIN fields
                           /\ z.fields[q[n - 1 + a]].car = fields[l[k + 1 - a]].car
  BY <1>3 DEF Spreading
<1>5. PICK f : f = [i \in 1 .. N - 1 |-> fields[IF i <= k THEN l[i] ELSE p[(n + k) - i]].car]
  OBVIOUS
<1>6. x = [i \in 1 .. N - 1 |-> f[i]] /\ N - 1 \in Nat
  <2>1. k + n - 2 = N - 1 /\ N - 1 \in Nat
    BY <1>2, <1>3
  <2> QED
    BY <1>5, <2>1
<1>7. Len(x) = N - 1 /\ \A i \in 1 .. N - 1 : x[i] = f[i]
  <2>1. PICK M : M = N - 1 /\ M \in Nat
    BY <1>6
  <2>2. PICK s : s = [i \in 1 .. M |-> f[i]]
    OBVIOUS
  <2>3. Len(s) = M /\ \A i \in 1 .. M : s[i] = f[i]
    BY <2>1, <2>2, LenIs
  <2>4. x = s
    BY <1>6, <2>1, <2>2
  <2> QED
    BY <2>1, <2>3, <2>4
<1>8. ASSUME NEW i \in 1 .. N - 1
      PROVE  z.fields[q[(N + 1) - i]].car = x[i]
  <2>1. CASE i <= k
    <3>1. PICK a : a = k + 1 - i
      OBVIOUS
    <3>2. a \in 1 .. k /\ n - 1 + a = (N + 1) - i /\ k + 1 - a = i
      BY <1>2, <1>3, <2>1, <3>1
    <3>3. z.fields[q[(N + 1) - i]].car = fields[l[i]].car
      BY <1>4, <3>2
    <3>4. x[i] = fields[l[i]].car
      BY <1>5, <1>7, <2>1
    <3> QED
      BY <3>3, <3>4
  <2>2. CASE i > k
    <3>1. PICK b : b = (n + k) - i
      OBVIOUS
    <3>2. b \in 1 .. n - 1 /\ b \in 1 .. n /\ (N + 1) - i = b /\ b \in 1 .. N
      BY <1>2, <1>3, <2>2, <3>1
    <3>3. q[b] = p[b] /\ x[i] = fields[p[b]].car
      BY <1>4, <1>5, <1>7, <2>2, <3>1, <3>2
    <3>4. q[b] \in DOMAIN z.fields /\ p[b] \in DOMAIN fields
      BY <1>2, <1>4, <3>2 DEF At, IsStack, IsChain
    <3> QED
      BY <1>4, <3>2, <3>3, <3>4 DEF Since
  <2> QED
    BY <1>2, <2>1, <2>2
<1>9. ASSUME NEW i \in 1 .. N
      PROVE  q[i] \in stacked \/ q[i] \notin DOMAIN fields
  <2>1. CASE i \in 1 .. n - 1
    BY <1>2, <1>4, <2>1
  <2>2. CASE i \notin 1 .. n - 1
    <3>1. PICK a : a = i - (n - 1)
      OBVIOUS
    <3>2. a \in 1 .. k /\ n - 1 + a = i
      BY <1>2, <1>3, <2>2, <3>1
    <3> QED
      BY <1>4, <3>2
  <2> QED
    BY <2>1, <2>2
<1>10. q[1] \in DOMAIN fields
  <2>1. 1 \in 1 .. n - 1
    BY <1>2
  <2> QED
    BY <1>2, <1>4, <2>1, ContinuationIs
<1> QED
  BY <1>2, <1>3, <1>4, <1>7, <1>8, <1>9, <1>10 DEF Operands

(* A call of a primitive, its arguments spread from a list or not.         *)
LEMMA CallPrimitiveIs ==
  ASSUME Sound(Memory), OperandsFound, CallPrimitive
  PROVE  Sound(Memory)'
<1>1. PICK n, p : At(Memory, p, n) /\ InstructionFits(p, n)
  BY RunningIs DEF CallPrimitive
<1>2. PICK arguments : arguments = Arity(InstructionTag - CALL_)
  OBVIOUS
<1>3. PICK primitive : primitive = Car(Memory, CallOperand).number
  OBVIOUS
<1>4. PICK stacked : stacked = {p[i] : i \in 1 .. n}
  OBVIOUS
<1>5. PrimitiveFits(arguments, p, n)
  BY <1>1, <1>2 DEF CallPrimitive, InstructionFits, GET_, CONSTANT_, SET_, IF_, CALL_
<1>6. Advance(EnterPrimitive(Memory, primitive, arguments))
  BY <1>2, <1>3 DEF CallPrimitive
<1>7. PICK m : m = Memory
  OBVIOUS
<1>8. m.fields = fields /\ At(m, p, n) /\ n \in Nat
  BY <1>1, <1>7, MemoryIs, TopIs
<1>9. ASSUME NEW y \in EnterPrimitive(Memory, primitive, arguments)
      PROVE  Done(y)
  <2>1. CASE ~arguments.variadic
    <3>1. PICK x : x = [i \in 1 .. n - 1 |-> fields[p[(n + 1) - i]].car]
      OBVIOUS
    <3>2. Fits(primitive, x, stacked, p[1])
      BY <1>3, <1>4, <1>5, <2>1, <3>1 DEF PrimitiveFits
    <3>3. Operands(m, p, n, x, stacked)
      BY <1>1, <1>4, <1>7, <3>1, PlainOperands
    <3>4. y \in Operate(m, primitive)
      <4>1. m.error = "none"
        BY <1>8 DEF At
      <4> QED
        BY <1>7, <2>1, <4>1 DEF EnterPrimitive, Then
    <3> QED
      BY <3>2, <3>3, <3>4, OperateIs
  <2>2. CASE arguments.variadic
    <3>1. PICK k, l :
            /\ k \in 0 .. Cardinality(DOMAIN fields)
            /\ n > 1
            /\ IsListOf(fields, fields[p[n]].car, l, k)
            /\ Fits(primitive,
                    [i \in 1 .. k + n - 2 |->
                       fields[IF i <= k THEN l[i] ELSE p[(n + k) - i]].car], stacked, p[1])
      BY <1>3, <1>4, <1>5, <2>2 DEF PrimitiveFits
    <3>2. PICK x : x = [i \in 1 .. k + n - 2 |-> fields[IF i <= k THEN l[i] ELSE p[(n + k) - i]].car]
      OBVIOUS
    <3>3. PICK z \in SpreadArguments(m) :
            y \in IF z.error = "none" THEN Operate(z, primitive) ELSE {z}
      BY <1>7, <2>2, Zenon DEF EnterPrimitive, Then
    <3>4. PICK q : Spreading(z, q, p, n, l, k, k)
      BY <1>8, <3>1, <3>3, SpreadIs
    <3>5. k \in Nat
      BY <3>1
    <3>6. Operands(z, q, n - 1 + k, x, stacked)
      BY <1>1, <1>4, <3>1, <3>2, <3>4, <3>5, SpreadOperands
    <3>7. y \in Operate(z, primitive) /\ q[1] = p[1]
      <4>1. z.error = "none"
        BY <3>4 DEF Spreading, At
      <4>2. 1 \in 1 .. n - 1
        BY <1>8, <3>1
      <4> QED
        BY <3>3, <3>4, <4>1, <4>2 DEF Spreading
    <3> QED
      BY <3>1, <3>2, <3>6, <3>7, OperateIs
  <2> QED
    BY <2>1, <2>2
<1>10. \E k : Inside(k) /\ Become(k)
  BY <1>6, <1>9, AdvanceIs
<1> QED
  BY <1>10, BecomeIs

-----------------------------------------------------------------------------
(* Procedures. *)

(* Nothing but its object is read of a list, a stack or what is compared.  *)
LEMMA ListAlike ==
  ASSUME NEW f, NEW v, NEW l, NEW c \in Nat, IsListOf(f, v, l, c),
         NEW w, IsPointer(w) <=> IsPointer(v), IsPointer(v) => w.object = v.object,
         ~IsPointer(v) => w = v
  PROVE  IsListOf(f, w, l, c)
<1>1. Same(w, Null) <=> Same(v, Null)
  BY DEF Same
<1>2. \A o : PointsTo(v, o) => PointsTo(w, o)
  BY DEF PointsTo
<1> QED
  BY <1>1, <1>2 DEF IsListOf, IsChain

(* The empty list is a list of no conses.                                  *)
LEMMA NullIs ==
  ASSUME NEW m, Sound(m)
  PROVE  Stored(m.fields, Null) /\ \A l : IsListOf(m.fields, Null, l, 0)
<1>1. Known(m.fields, Null.object) /\ Null = Pointer(Null.object, 0)
  <2>1. Null = Pointer(Symbol("()"), 0)
    BY Zenon DEF Null
  <2>2. Null.object = Symbol("()")
    BY <2>1, PointerIs, Zenon
  <2>3. Null = Pointer(Null.object, 0)
    BY <2>1, <2>2, Zenon
  <2> QED
    BY <2>3 DEF Sound, IsFields, Known
<1>2. Same(Null, Null)
  BY DEF Same
<1> QED
  BY <1>1, <1>2 DEF Stored, IsListOf, IsChain

(* What the instruction has in hand is no part of the memory.              *)
LEMMA SetConsKeeps ==
  ASSUME NEW m, Inside(m), NEW x, NEW n, n = [m EXCEPT !.cons = x]
  PROVE  /\ Inside(n) /\ n.cons = x
         /\ n.code = m.code /\ n.stack = m.stack /\ n.register = m.register /\ n.fields = m.fields
         /\ n.error = m.error /\ n.epoch = m.epoch
<1>1. /\ IsMemory(n) /\ n.cons = x
      /\ n.code = m.code /\ n.stack = m.stack /\ n.register = m.register /\ n.fields = m.fields
      /\ n.error = m.error /\ n.epoch = m.epoch
  BY SetConsIs DEF Inside, Sound
<1> QED
  BY <1>1 DEF Inside, Sound

(* The list of arguments is longer by the cons o. *)
LEMMA LongerList ==
  ASSUME NEW f, NEW v, NEW l, NEW c \in Nat, IsListOf(f, v, l, c),
         NEW o \in DOMAIN f, IsHeap(o), \A i \in 1 .. c : l[i] # o, f[o].cdr = v,
         NEW w, PointsTo(w, o), NEW k, k = Extended(l, c, o)
  PROVE  IsListOf(f, w, k, c + 1)
<1>1. IsChain(f, w, k, c + 1) /\ k[c + 1] = o /\ \A i \in 1 .. c : k[i] = l[i]
  <2>1. c > 0 => PointsTo(f[o].cdr, l[c])
    BY DEF IsListOf, IsChain
  <2> QED
    BY <2>1, ExtendChain DEF IsListOf
<1>2. o # Null.object
  <2>1. Null.object = Symbol("()")
    BY PointerIs, Zenon DEF Null
  <2>2. IsSymbol(Null.object)
    BY <2>1, Zenon DEF IsSymbol
  <2> QED
    BY <2>2, SymbolIs
<1>3. \A i \in 1 .. c + 1 : k[i] # Null.object
  BY <1>1, <1>2 DEF IsListOf
<1>4. Same(f[k[1]].cdr, Null)
  <2>1. CASE c = 0
    BY <1>1, <2>1 DEF IsListOf
  <2>2. CASE c > 0
    <3>1. 1 \in 1 .. c
      BY <2>2
    <3> QED
      BY <1>1, <2>2, <3>1 DEF IsListOf
  <2> QED
    BY <2>1, <2>2
<1> QED
  BY <1>1, <1>3, <1>4 DEF IsListOf

(* n conses are left on the stack, the procedure is in the register and    *)
(* the arguments that were taken are a list, with the cons z.cons first.   *)
Taken(z, p, n, r) ==
  /\ At(z, p, n) /\ Since(fields, z.fields) /\ z.register = r
  /\ Live(z, z.cons)
  /\ \E l : \E c \in Nat : IsListOf(z.fields, Keep(z, z.cons), l, c)

Take(n) == Allocate(Pop(n), Top(n), SetTag(n.cons, PairType))

(* One more argument is taken from the stack to the list.                  *)
LEMMA TakeIs ==
  ASSUME NEW m, NEW p, NEW n, NEW r, Taken(m, p, n, r), n > 1, NEW z \in Take(m)
  PROVE  Taken(z, p, n - 1, r)
<1>1. At(m, p, n) /\ Since(fields, m.fields) /\ m.register = r /\ Live(m, m.cons) /\ n \in Nat
  BY DEF Taken, At
<1>2. PICK l, c : c \in Nat /\ IsListOf(m.fields, Keep(m, m.cons), l, c)
  BY DEF Taken
<1>3. PICK y, a, d : y = Pop(m) /\ a = Top(m) /\ d = SetTag(m.cons, PairType)
  OBVIOUS
<1>4. /\ At(y, p, n - 1) /\ y.fields = m.fields /\ y.epoch = m.epoch /\ y.register = r
      /\ Inside(y) /\ Sound(y)
  <2>1. /\ At(y, p, n - 1) /\ y.fields = m.fields /\ y.epoch = m.epoch /\ y.register = r
    BY <1>1, <1>3, PopIs
  <2> QED
    BY <2>1 DEF At, Inside
<1>5. Live(m, a) /\ Live(m, d)
  <2>1. Live(m, d)
    BY <1>1, <1>3, TagIs DEF PairType
  <2> QED
    BY <1>1, <1>3, <2>1, TopIs
<1>6. Live(y, a) /\ Live(y, d) /\ Keep(y, d) = Keep(m, d)
  BY <1>4, <1>5, AlikeIs
<1>7. PICK w : w = Keep(y, d)
  OBVIOUS
<1>8. IsListOf(y.fields, w, l, c)
  <2>1. PICK v, x : v = Keep(m, m.cons) /\ x = m.cons
    OBVIOUS
  <2>5. Live(m, x) /\ d = SetTag(x, 0) /\ w = Keep(m, d) /\ v = Keep(m, x)
    BY <1>1, <1>3, <1>6, <1>7, <2>1 DEF PairType
  <2>2. IsPointer(x) => v = Pointer(x.object, x.tag) /\ w = Pointer(x.object, 0)
    BY <2>5, TagIs, KeepIs
  <2>3. ~IsPointer(x) => w = v
    BY <2>5, TagIs
  <2>4. /\ IsPointer(w) <=> IsPointer(v)
        /\ IsPointer(v) => w.object = v.object
        /\ ~IsPointer(v) => w = v
    BY <2>2, <2>3, <2>5, KeepIs, PointerIs
  <2> QED
    BY <1>2, <1>4, <2>1, <2>4, ListAlike
<1>9. PICK o : Allocated(y, z, p, n - 1, o, a, d)
  <2>1. z \in Allocate(y, a, d)
    BY <1>3 DEF Take
  <2> QED
    BY <1>4, <1>6, <2>1, AllocateKeeps
<1>10. /\ At(z, p, n - 1) /\ z.register = r
       /\ o \notin DOMAIN y.fields /\ o \in DOMAIN z.fields /\ IsHeap(o)
       /\ z.fields[o].cdr = w
       /\ z.cons = Held(o, PairType, z.epoch) /\ Live(z, z.cons)
       /\ Since(y.fields, z.fields) /\ Since(fields, z.fields)
  <2>1. Since(fields, y.fields)
    BY <1>1, <1>4
  <2> QED
    BY <1>4, <1>7, <1>9, <2>1 DEF Allocated
<1>11. IsFields(z.fields) /\ Coded /\ Plain(y.fields) /\ Sound(z)
  BY <1>4, <1>10 DEF At, Inside, Sound, IsFields, Plain
<1>12. Stored(z.fields, w)
  BY <1>10, <1>11, FieldIs
<1>13. /\ IsListOf(z.fields, w, l, c)
       /\ \A i \in 1 .. c : l[i] \in DOMAIN z.fields
  BY <1>2, <1>8, <1>11, <1>12, <1>10, StaysList
<1>14. \A i \in 1 .. c : l[i] # o
  BY <1>8, <1>10 DEF IsListOf, IsChain
<1>15. Keep(z, z.cons) = Pointer(o, PairType)
  BY <1>10, KeepIs
<1>16. PointsTo(Keep(z, z.cons), o)
  BY <1>15, PointerIs DEF PointsTo
<1>17. IsListOf(z.fields, Keep(z, z.cons), Extended(l, c, o), c + 1)
  <2>1. PICK k, v : k = Extended(l, c, o) /\ v = Keep(z, z.cons)
    OBVIOUS
  <2>2. IsListOf(z.fields, v, k, c + 1)
    BY <1>2, <1>10, <1>13, <1>14, <1>16, <2>1, LongerList
  <2> QED
    BY <2>1, <2>2
<1>18. c + 1 \in Nat
  BY <1>2
<1> QED
  BY <1>10, <1>17, <1>18 DEF Taken

(* TakeArguments. *)
Takes(g, s, n) == g = [i \in 0 .. n |-> IF i = 0 THEN {s} ELSE Then(g[i - 1], Take)]

(* The steps of TakeArguments are a function.                              *)
LEMMA TakesExist ==
  ASSUME NEW s, NEW n \in Nat
  PROVE  \E g : Takes(g, s, n)
<1> DEFINE S == {i \in Nat : \E g : Takes(g, s, i)}
<1>1. 0 \in S
  <2>1. PICK g : g = [j \in 0 .. 0 |-> {s}]
    OBVIOUS
  <2>2. Takes(g, s, 0)
    BY <2>1 DEF Takes
  <2> QED
    BY <2>2
<1>2. ASSUME NEW i \in 1 .. n, i - 1 \in S
      PROVE  i \in S
  <2>1. PICK g : Takes(g, s, i - 1)
    BY <1>2
  <2>2. PICK last : last = Then(g[i - 1], Take)
    OBVIOUS
  <2>3. PICK h : h = [j \in 0 .. i |-> IF j < i THEN g[j] ELSE last]
    OBVIOUS
  <2>4. ASSUME NEW j \in 0 .. i
        PROVE  h[j] = IF j = 0 THEN {s} ELSE Then(h[j - 1], Take)
    <3>1. CASE j = i
      <4>1. h[j] = last /\ h[j - 1] = g[i - 1] /\ j # 0
        BY <2>3, <3>1
      <4> QED
        BY <2>2, <4>1, Zenon
    <3>2. CASE j # i
      <4>1. j \in 0 .. i - 1 /\ h[j] = g[j] /\ (j # 0 => h[j - 1] = g[j - 1])
        BY <2>3, <3>2
      <4>2. g[j] = IF j = 0 THEN {s} ELSE Then(g[j - 1], Take)
        BY <2>1, <4>1, Zenon DEF Takes
      <4> QED
        BY <4>1, <4>2, Zenon
    <3> QED
      BY <3>1, <3>2
  <2>5. Takes(h, s, i)
    <3>1. h = [j \in 0 .. i |-> h[j]]
      BY <2>3
    <3> QED
      BY <2>4, <3>1, Zenon DEF Takes
  <2> QED
    BY <2>5
<1>3. 0 .. n \subseteq S
  <2> HIDE DEF S
  <2> QED
    BY <1>1, <1>2, Upwards
<1> QED
  BY <1>3

(* TakeArguments is the last of its steps.                                 *)
LEMMA TakeArgumentsAre ==
  ASSUME NEW m, NEW arguments, arguments.count \in Nat, NEW s,
         s = IF arguments.variadic
             THEN [Pop(m) EXCEPT !.cons = Top(m)]
             ELSE [m EXCEPT !.cons = Hold(m, Null)]
  PROVE  \E g : Takes(g, s, arguments.count) /\ TakeArguments(m, arguments) = g[arguments.count]
<1> DEFINE N == arguments.count
           t == IF arguments.variadic
                THEN [Pop(m) EXCEPT !.cons = Top(m)]
                ELSE [m EXCEPT !.cons = Hold(m, Null)]
           Is(taken) == taken = [i \in 0 .. N |->
                           IF i = 0
                           THEN {t}
                           ELSE UNION {IF k.error = "none"
                                       THEN Allocate(Pop(k), Top(k), SetTag(k.cons, PairType))
                                       ELSE {k} : k \in taken[i - 1]}]
           F == CHOOSE taken : Is(taken)
<1>1. TakeArguments(m, arguments) = F[N]
  BY Zenon DEF TakeArguments, Then
<1>2. s = t
  OBVIOUS
<1>3. \E g : Is(g)
  <2>1. PICK g : Takes(g, s, N)
    BY TakesExist
  <2> HIDE DEF t
  <2>2. Is(g)
    BY <1>2, <2>1, Zenon DEF Takes, Take, Then
  <2> QED
    BY <2>2
<1>4. Is(F)
  BY <1>3, Zenon
<1>5. Takes(F, s, N)
  <2> HIDE DEF F, t
  <2> QED
    BY <1>2, <1>4, Zenon DEF Takes, Take, Then
<1> QED
  <2> HIDE DEF F
  <2> QED
    BY <1>1, <1>5

(* TakeArguments leaves the arguments in a list and the procedure in the   *)
(* register.                                                               *)
LEMMA TakeArgumentsIs ==
  ASSUME NEW m, NEW p, NEW n, At(m, p, n), m.fields = fields, NEW arguments, arguments.count \in Nat,
         arguments.variadic =>
           n > arguments.count + 1
           /\ \E l, k : k \in Nat /\ IsListOf(fields, fields[p[n]].car, l, k),
         ~arguments.variadic => n > arguments.count,
         NEW z \in TakeArguments(m, arguments)
  PROVE  \E i : Taken(z, p, i, m.register)
<1>1. PICK s : s = IF arguments.variadic
                   THEN [Pop(m) EXCEPT !.cons = Top(m)]
                   ELSE [m EXCEPT !.cons = Hold(m, Null)]
  OBVIOUS
<1>2. PICK c, r : c = arguments.count /\ r = m.register
  OBVIOUS
<1>3. PICK g : Takes(g, s, c) /\ z \in g[c]
  <2>1. PICK g : Takes(g, s, arguments.count) /\ TakeArguments(m, arguments) = g[arguments.count]
    BY <1>1, TakeArgumentsAre
  <2> QED
    BY <1>2, <2>1
<1>4. c \in Nat /\ n \in Nat /\ Sound(m) /\ Inside(m) /\ Since(fields, fields)
  BY <1>2 DEF At, Inside, Since
<1>5. PICK N : N \in Nat /\ N > c /\ Taken(s, p, N, r)
  <2>1. CASE arguments.variadic
    <3>1. PICK l, k : k \in Nat /\ IsListOf(fields, fields[p[n]].car, l, k)
      BY <2>1
    <3>2. n - 1 \in Nat /\ n - 1 > c /\ n > 1
      BY <1>2, <1>4, <2>1
    <3>3. PICK y, v : y = Pop(m) /\ v = Top(m) /\ s = [y EXCEPT !.cons = v]
      BY <1>1, <2>1
    <3>4. At(y, p, n - 1) /\ y.fields = fields /\ y.epoch = m.epoch /\ y.register = r /\ Inside(y)
      <4>1. At(y, p, n - 1) /\ y.fields = fields /\ y.epoch = m.epoch /\ y.register = r
        BY <1>2, <3>2, <3>3, PopIs
      <4> QED
        BY <4>1 DEF At
    <3>5. Live(m, v) /\ Keep(m, v) = fields[p[n]].car
      BY <3>3, TopIs
    <3>6. /\ Inside(s) /\ s.cons = v
          /\ s.code = y.code /\ s.stack = y.stack /\ s.register = r /\ s.fields = fields
          /\ s.error = y.error /\ s.epoch = m.epoch
      BY <3>3, <3>4, SetConsKeeps
    <3>7. Live(s, v) /\ Keep(s, v) = fields[p[n]].car
      BY <3>5, <3>6, AlikeIs
    <3>8. At(s, p, n - 1)
      BY <3>4, <3>6 DEF At
    <3>9. Taken(s, p, n - 1, r)
      BY <1>4, <3>1, <3>6, <3>7, <3>8 DEF Taken
    <3> QED
      BY <3>2, <3>9
  <2>2. CASE ~arguments.variadic
    <3>1. PICK v : v = Hold(m, Null) /\ s = [m EXCEPT !.cons = v]
      BY <1>1, <2>2
    <3>2. Live(m, v) /\ Keep(m, v) = Null /\ \A l : IsListOf(fields, Null, l, 0)
      BY <1>4, <3>1, NullIs, HoldIs
    <3>3. /\ Inside(s) /\ s.cons = v
          /\ s.code = m.code /\ s.stack = m.stack /\ s.register = r /\ s.fields = fields
          /\ s.error = m.error /\ s.epoch = m.epoch
      BY <1>2, <1>4, <3>1, SetConsKeeps
    <3>4. Live(s, v) /\ Keep(s, v) = Null
      BY <3>2, <3>3, AlikeIs
    <3>5. At(s, p, n)
      BY <3>3 DEF At
    <3>6. Taken(s, p, n, r)
      BY <1>4, <3>2, <3>3, <3>4, <3>5 DEF Taken
    <3> QED
      BY <1>2, <1>4, <2>2, <3>6
  <2> QED
    BY <2>1, <2>2
<1>6. \A i \in 0 .. c : g[i] = IF i = 0 THEN {s} ELSE Then(g[i - 1], Take)
  BY <1>3, Zenon DEF Takes
<1> DEFINE S == {i \in 0 .. c : \A y \in g[i] : Taken(y, p, N - i, r)}
<1>7. 0 \in S
  <2>1. g[0] = {s} /\ 0 \in 0 .. c
    BY <1>4, <1>6
  <2>2. N - 0 = N
    BY <1>5
  <2> QED
    BY <1>5, <2>1, <2>2
<1>8. ASSUME NEW i \in 1 .. c, i - 1 \in S
      PROVE  i \in S
  <2>1. PICK b : b = N - (i - 1)
    OBVIOUS
  <2>2. i \in 0 .. c /\ i # 0 /\ b > 1 /\ b - 1 = N - i
    BY <1>4, <1>5, <2>1
  <2>3. g[i] = Then(g[i - 1], Take)
    BY <1>6, <2>2, Zenon
  <2>4. \A y \in g[i - 1] : Taken(y, p, b, r)
    BY <1>8, <2>1
  <2>5. ASSUME NEW y \in g[i]
        PROVE  Taken(y, p, b - 1, r)
    <3>1. PICK x \in g[i - 1] : y \in IF x.error = "none" THEN Take(x) ELSE {x}
      BY <2>3, <2>5 DEF Then
    <3>2. Taken(x, p, b, r) /\ x.error = "none"
      BY <2>4, <3>1 DEF Taken, At
    <3> QED
      BY <2>2, <3>1, <3>2, TakeIs
  <2> QED
    BY <2>2, <2>5
<1>9. 0 .. c \subseteq S
  <2> HIDE DEF S
  <2> QED
    BY <1>4, <1>7, <1>8, Upwards
<1>10. \A y \in g[c] : Taken(y, p, N - c, r)
  <2>1. c \in 0 .. c
    BY <1>4
  <2> QED
    BY <1>9, <2>1
<1> QED
  BY <1>2, <1>3, <1>10

(* A procedure, to an instruction: a cons with code in its car.            *)
Callable(r) ==
  /\ Stored(fields, r) /\ Readable(fields, r)
  /\ IsPointer(Rib(Memory, r.object).cdr)
  /\ Readable(fields, Rib(Memory, r.object).car)

(* The code and the environment of a procedure are held, whatever was      *)
(* collected.                                                              *)
LEMMA CallableIs ==
  ASSUME Sound(Memory), NEW r, Callable(r), NEW n, Inside(n), Since(fields, n.fields),
         Stored(n.fields, r), NEW c, c = Hold(n, r)
  PROVE  /\ Live(n, c) /\ Readable(n.fields, r)
         /\ Live(n, Car(n, c)) /\ Readable(n.fields, Keep(n, Car(n, c)))
         /\ Live(n, Cdr(n, c)) /\ IsPointer(Cdr(n, c))
<1>1. PICK m : m = Memory
  OBVIOUS
<1>2. /\ m.fields = fields /\ Plain(fields) /\ Sound(n) /\ IsFields(n.fields) /\ Coded
      /\ SinceCars(fields, n.fields)
  BY <1>1, MemoryIs, SoundInside DEF Inside, Sound, Since, SinceCars
<1>3. PICK o, b : o = r.object /\ b = Rib(m, o)
  OBVIOUS
<1>4. Readable(fields, r) /\ IsPointer(r) /\ IsPointer(b.cdr) /\ Readable(fields, b.car)
  BY <1>1, <1>3 DEF Callable, Readable
<1>5. Readable(n.fields, r)
  BY <1>2, <1>4, StaysInHeap
<1>6. Live(n, c) /\ c = Held(o, r.tag, n.epoch) /\ Readable(n.fields, c)
  BY <1>2, <1>3, <1>4, <1>5, HoldReadable
<1>7. Live(n, Car(n, c)) /\ Live(n, Cdr(n, c))
  BY <1>2, <1>6, ReadableIs
<1>8. Rib(n, o) = b
  <2>1. CASE o \in DOMAIN fields
    <3>1. IsHeap(o) \/ IsSymbol(o)
      BY <1>2, <2>1 DEF Plain
    <3>2. ~IsStatic(o)
      BY <3>1, SymbolIs DEF IsStatic, IsHeap
    <3>3. o \in DOMAIN n.fields
      BY <1>3, <1>5, <3>2 DEF Readable
    <3>4. n.fields[o] = fields[o]
      BY <2>1, <3>3 DEF Since
    <3> QED
      BY <1>2, <1>3, <2>1, <3>3, <3>4 DEF Rib
  <2>2. CASE o \notin DOMAIN fields
    <3>1. IsStatic(o)
      BY <1>3, <1>4, <2>2 DEF Readable
    <3>2. o \notin DOMAIN n.fields
      <4>1. ~IsHeap(o) /\ ~IsSymbol(o)
        BY <3>1, SymbolIs DEF IsStatic, IsHeap
      <4> QED
        BY <1>2, <4>1 DEF IsFields
    <3> QED
      BY <1>2, <1>3, <2>2, <3>2 DEF Rib
  <2> QED
    BY <2>1, <2>2
<1>9. Car(n, c) = Hold(n, b.car) /\ Cdr(n, c) = Hold(n, b.cdr)
  <2>1. Fresh(n, c) /\ c.object = o
    BY <1>6, HeldIs DEF Fresh
  <2> QED
    BY <1>8, <2>1 DEF Car, Cdr
<1>10. Stored(n.fields, b.car)
  <2>1. o \in DOMAIN n.fields \/ o \in Parts
    <3>1. Known(n.fields, o)
      BY <1>6, KeepIs, HeldIs
    <3>2. IsSymbol(o) => ~IsStatic(o)
      BY SymbolIs
    <3> QED
      BY <1>3, <1>5, <3>1, <3>2 DEF Known, Readable
  <2>2. CASE o \in DOMAIN n.fields
    BY <1>2, <1>8, <2>2, FieldIs DEF Rib
  <2>3. CASE o \notin DOMAIN n.fields
    BY <1>2, <1>8, <2>1, <2>3 DEF Rib, Coded
  <2> QED
    BY <2>2, <2>3
<1>11. Readable(n.fields, b.car)
  BY <1>2, <1>4, <1>10, StaysInHeap
<1>12. Keep(n, Car(n, c)) = b.car
  BY <1>9, <1>10, HoldIs
<1>13. IsPointer(Cdr(n, c))
  BY <1>4, <1>9 DEF Hold, IsPointer
<1> QED
  BY <1>5, <1>6, <1>7, <1>11, <1>12, <1>13

(* The parts of EnterProcedure. *)
PushContinuation(n, tail) ==
  LET codes == Code(n)
      list == n.cons
      escaped == SetRegister(SetCode(n, Register(n)), list)
  IN IF tail
     THEN {[escaped EXCEPT !.cons = Continuation(escaped)]}
     ELSE Allocate(escaped, codes, Stack(escaped))

(* There is a continuation: a call to return to. *)
Continuing(y, r) ==
  /\ Inside(y) /\ y.error = "none" /\ Since(fields, y.fields) /\ y.code = r
  /\ Live(y, y.cons) /\ InHeap(y.fields, y.cons)
  /\ Readable(y.fields, y.fields[y.cons.object].car)
  /\ \E l : \E c \in Nat : IsListOf(y.fields, y.register, l, c)

(* A call keeps where to return to in a new cons; a tail call takes the    *)
(* continuation of the running procedure.                                  *)
LEMMA PushContinuationIs ==
  ASSUME Sound(Memory), NEW r, Callable(r), NEW z, NEW p, NEW n, Taken(z, p, n, r), NEW tail,
         NEW y \in PushContinuation(z, tail)
  PROVE  Continuing(y, r)
<1>1. /\ At(z, p, n) /\ Since(fields, z.fields) /\ z.register = r /\ Live(z, z.cons)
      /\ Inside(z) /\ Sound(z) /\ Stored(z.fields, z.code) /\ Stored(z.fields, r) /\ Coded
      /\ Readable(z.fields, z.code) /\ z.error = "none" /\ n \in Nat
  BY DEF Taken, At, Inside, Sound
<1>2. PICK l, c : c \in Nat /\ IsListOf(z.fields, Keep(z, z.cons), l, c)
  BY DEF Taken
<1>3. PICK k, x, e : k = Register(z) /\ x = SetCode(z, k) /\ e = SetRegister(x, z.cons)
  OBVIOUS
<1>4. Live(z, k) /\ Keep(z, k) = r
  BY <1>1, <1>3, HoldIs DEF Register
<1>5. /\ Inside(x) /\ x.code = r /\ x.stack = z.stack /\ x.fields = z.fields
      /\ x.error = z.error /\ x.epoch = z.epoch
  BY <1>1, <1>3, <1>4, SetCodeKeeps
<1>6. Live(x, z.cons) /\ Keep(x, z.cons) = Keep(z, z.cons)
  BY <1>1, <1>5, AlikeIs
<1>7. /\ Inside(e) /\ e.code = r /\ e.stack = z.stack /\ e.fields = z.fields
      /\ e.error = "none" /\ e.epoch = z.epoch /\ e.register = Keep(z, z.cons)
  BY <1>1, <1>3, <1>5, <1>6, SetRegisterKeeps
<1>8. At(e, p, n)
  <2>1. Readable(z.fields, r)
    BY <1>1, CallableIs
  <2> QED
    BY <1>1, <1>7, <2>1 DEF At
<1>9. IsListOf(e.fields, e.register, l, c) /\ Stored(e.fields, e.register) /\ Plain(e.fields)
  BY <1>2, <1>7 DEF Inside, Sound, IsFields, Plain
<1>10. CASE tail
  <2>1. PICK v : v = Continuation(e) /\ y = [e EXCEPT !.cons = v]
    BY <1>3, <1>10 DEF PushContinuation
  <2>2. PICK w : w = e.fields[p[1]].car /\ v = Hold(e, w) /\ Stored(e.fields, w)
    <3>1. v = Hold(e, e.fields[p[1]].car) /\ p[1] \in DOMAIN e.fields
      BY <1>8, <2>1, ContinuationIs
    <3>2. Sound(e)
      BY <1>7 DEF Inside
    <3> QED
      BY <3>1, <3>2, FieldIs
  <2>3. InHeap(e.fields, w) /\ Readable(e.fields, e.fields[w.object].car)
    BY <1>8, <2>2 DEF At, IsFrame
  <2>4. Live(e, v) /\ InHeap(e.fields, v) /\ v.object = w.object
    <3>1. Sound(e) /\ IsPointer(w)
      BY <1>7, <2>3 DEF Inside, InHeap
    <3> QED
      BY <2>2, <2>3, <3>1, HoldReadable
  <2>5. /\ Inside(y) /\ y.cons = v /\ y.code = r /\ y.fields = e.fields /\ y.register = e.register
        /\ y.error = "none" /\ y.epoch = e.epoch
    BY <1>7, <2>1, SetConsKeeps
  <2>6. Live(y, v)
    BY <2>4, <2>5, AlikeIs
  <2> QED
    BY <1>1, <1>2, <1>7, <1>9, <2>3, <2>4, <2>5, <2>6 DEF Continuing
<1>11. CASE ~tail
  <2>1. PICK a, d : a = Code(z) /\ d = Stack(e) /\ y \in Allocate(e, a, d)
    BY <1>3, <1>11 DEF PushContinuation
  <2>2. Live(e, a) /\ Keep(e, a) = z.code /\ Live(e, d)
    <3>1. Live(z, a) /\ Keep(z, a) = z.code
      BY <1>1, <2>1, HoldIs DEF Code
    <3> QED
      BY <1>7, <1>8, <2>1, <3>1, AlikeIs, TopIs
  <2>3. PICK o : Allocated(e, y, p, n, o, a, d)
    BY <1>8, <2>1, <2>2, AllocateKeeps
  <2>4. /\ At(y, p, n) /\ o \in DOMAIN y.fields /\ y.fields[o].car = z.code
        /\ y.cons = Held(o, PairType, y.epoch) /\ Live(y, y.cons)
        /\ Since(e.fields, y.fields) /\ Since(fields, y.fields)
        /\ y.code = r /\ y.register = e.register
    BY <1>1, <1>7, <2>2, <2>3 DEF Allocated
  <2>5. Inside(y) /\ y.error = "none" /\ Sound(y) /\ IsFields(y.fields) /\ Stored(y.fields, y.register)
    BY <2>4 DEF At, Inside, Sound
  <2>6. Readable(y.fields, y.fields[o].car)
    <3>1. Stored(y.fields, z.code) /\ SinceCars(z.fields, y.fields) /\ Plain(z.fields)
      BY <1>7, <1>9, <2>4, <2>5, FieldIs DEF Since, SinceCars
    <3> QED
      BY <1>1, <2>4, <3>1, StaysInHeap
  <2>7. InHeap(y.fields, y.cons) /\ y.cons.object = o
    BY <2>4, HeldIs DEF InHeap
  <2>8. IsListOf(y.fields, y.register, l, c)
    <3>1. Stored(y.fields, e.register)
      BY <2>4, <2>5
    <3> QED
      BY <1>1, <1>2, <1>9, <2>4, <2>5, <3>1, StaysList
  <2> QED
    BY <1>2, <2>4, <2>5, <2>6, <2>7, <2>8 DEF Continuing
<1> QED
  BY <1>10, <1>11

(* The frame of the called procedure is all that is on its stack.          *)
LEMMA PushFrameIs ==
  ASSUME Sound(Memory), NEW r, Callable(r), NEW y, Continuing(y, r),
         NEW z \in Allocate(y, y.cons, SetTag(Cdr(y, Code(y)), FrameSlot)),
         NEW g, g = SetStack(z, z.cons), NEW k, k = SetCode(g, Car(g, Code(g)))
  PROVE  \E q, l, c : At(k, q, 1) /\ c \in Nat /\ IsListOf(k.fields, k.register, l, c)
<1>1. /\ Inside(y) /\ y.error = "none" /\ Since(fields, y.fields) /\ y.code = r
      /\ Live(y, y.cons) /\ InHeap(y.fields, y.cons)
      /\ Readable(y.fields, y.fields[y.cons.object].car)
  BY DEF Continuing
<1>2. PICK l, c : c \in Nat /\ IsListOf(y.fields, y.register, l, c)
  BY DEF Continuing
<1>3. /\ Stored(y.fields, r) /\ Sound(y) /\ Plain(y.fields) /\ Coded
  BY <1>1 DEF Inside, Sound, IsFields, Plain
<1>4. PICK a, x, d : a = y.cons /\ x = Cdr(y, Code(y)) /\ d = SetTag(x, 1)
  OBVIOUS
<1>5. Live(y, x) /\ IsPointer(x)
  BY <1>1, <1>3, <1>4, CallableIs DEF Code
<1>6. Live(y, d) /\ Keep(y, d) = Pointer(x.object, 1)
  BY <1>4, <1>5, TagIs
<1>7. Inside(z) /\ \E o : Grown(y, z, o, a, d)
  <2>1. z \in Allocate(y, a, d)
    BY <1>4 DEF FrameSlot
  <2> QED
    BY <1>1, <1>4, <1>6, <2>1, AllocateIs
<1>8. PICK o : Grown(y, z, o, a, d)
  BY <1>7
<1>9. PICK v, w : v = Keep(y, a) /\ w = Pointer(x.object, 1)
  OBVIOUS
<1>10. /\ z.code = r /\ z.register = y.register /\ z.error = "none"
       /\ o \in DOMAIN z.fields /\ z.fields[o].car = v /\ z.fields[o].cdr = w
       /\ z.cons = Held(o, 0, z.epoch)
       /\ Since(y.fields, z.fields) /\ Since(fields, z.fields)
  BY <1>1, <1>6, <1>8, <1>9, SinceGrown DEF Grown, PairType
<1>11. Sound(z) /\ IsFields(z.fields) /\ Stored(z.fields, z.code) /\ Stored(z.fields, z.register)
  BY <1>7 DEF Inside, Sound
<1>12. SinceCars(y.fields, z.fields) /\ Stored(z.fields, v)
  BY <1>10, <1>11, FieldIs DEF Since, SinceCars
<1>13. v = Pointer(y.cons.object, y.cons.tag)
  BY <1>1, <1>4, <1>9, KeepIs DEF InHeap
<1>14. IsPointer(v) /\ v.object = y.cons.object /\ InHeap(y.fields, v)
  BY <1>1, <1>13, PointerIs DEF InHeap
<1>15. InHeap(z.fields, v)
  BY <1>3, <1>12, <1>14, StaysInHeap
<1>16. Readable(z.fields, z.fields[v.object].car)
  <2>1. z.fields[v.object].car = y.fields[v.object].car
    BY <1>10, <1>14, <1>15 DEF Since, InHeap
  <2>2. Stored(z.fields, z.fields[v.object].car)
    BY <1>11, <1>15, FieldIs DEF InHeap
  <2> QED
    BY <1>1, <1>3, <1>12, <1>14, <2>1, <2>2, StaysInHeap
<1>17. IsFrame(z.fields, o)
  BY <1>10, <1>15, <1>16 DEF IsFrame
<1>18. Live(z, z.cons) /\ Keep(z, z.cons) = Pointer(o, 0)
  <2>1. Live(z, z.cons)
    BY <1>10 DEF Live, Known
  <2> QED
    BY <1>10, <2>1, KeepIs
<1>19. /\ Inside(g) /\ g.stack = Pointer(o, 0) /\ g.code = r /\ g.register = y.register
       /\ g.fields = z.fields /\ g.error = "none" /\ g.epoch = z.epoch
  BY <1>7, <1>10, <1>18, SetStackKeeps
<1>20. PICK b : b = Car(g, Code(g))
  OBVIOUS
<1>21. Live(g, b) /\ Readable(g.fields, Keep(g, b))
  BY <1>10, <1>11, <1>19, <1>20, CallableIs DEF Code
<1>22. /\ Inside(k) /\ k.code = Keep(g, b) /\ k.stack = Pointer(o, 0) /\ k.register = y.register
       /\ k.fields = z.fields /\ k.error = "none"
  BY <1>19, <1>20, <1>21, SetCodeKeeps
<1>23. IsListOf(k.fields, k.register, l, c)
  BY <1>2, <1>3, <1>10, <1>11, <1>22, StaysList
<1>24. PICK q : q = [i \in 1 .. 1 |-> o]
  OBVIOUS
<1>25. q[1] = o
  BY <1>24
<1>26. IsStack(k.fields, k.stack, q, 1)
  <2>1. TagOf(w) = 1 /\ PointsTo(Pointer(o, 0), o)
    BY <1>9, PointerIs DEF PointsTo
  <2>2. \A i \in 1 .. 1 : i = 1
    OBVIOUS
  <2>3. \A i \in 2 .. 1 : FALSE
    OBVIOUS
  <2>4. IsChain(k.fields, k.stack, q, 1)
    BY <1>10, <1>22, <1>25, <2>1, <2>2, <2>3 DEF IsChain
  <2>5. \A i \in 1 .. 1 : TagOf(k.fields[q[i]].cdr) = FrameSlot
    BY <1>10, <1>22, <1>25, <2>1, <2>2 DEF FrameSlot
  <2> QED
    BY <2>2, <2>4, <2>5 DEF IsStack
<1>27. At(k, q, 1)
  BY <1>17, <1>19, <1>21, <1>22, <1>25, <1>26 DEF At
<1> QED
  BY <1>2, <1>23, <1>27

(* PassArguments; e is the error when their number is not that of the      *)
(* parameters.                                                             *)
Pass(n, e) == IF Same(Register(n), Null) THEN {Fail(n, e)} ELSE Shift(n)

PassRest(n, parameters, e) ==
  CASE parameters.variadic -> Push(n, Register(n))
    [] ~parameters.variadic /\ Same(Register(n), Null) -> {n}
    [] OTHER -> {Fail(n, e)}

Passes(g, m, n, e) ==
  g = [i \in 0 .. n |->
         IF i = 0 THEN {m} ELSE UNION {IF k.error = "none" THEN Pass(k, e) ELSE {k} : k \in g[i - 1]}]

PassRests(s, parameters, e) ==
  UNION {IF k.error = "none" THEN PassRest(k, parameters, e) ELSE {k} : k \in s}

(* The steps of PassArguments are a function.                              *)
LEMMA PassesExist ==
  ASSUME NEW m, NEW e, NEW n \in Nat
  PROVE  \E g : Passes(g, m, n, e)
<1> DEFINE F(s) == UNION {IF k.error = "none" THEN Pass(k, e) ELSE {k} : k \in s}
           S == {i \in Nat : \E g : Passes(g, m, i, e)}
<1>1. 0 \in S
  <2>1. PICK g : g = [j \in 0 .. 0 |-> {m}]
    OBVIOUS
  <2>2. Passes(g, m, 0, e)
    BY <2>1 DEF Passes
  <2> QED
    BY <2>2
<1>2. ASSUME NEW i \in 1 .. n, i - 1 \in S
      PROVE  i \in S
  <2>1. PICK g : Passes(g, m, i - 1, e)
    BY <1>2
  <2>2. PICK last : last = F(g[i - 1])
    OBVIOUS
  <2>3. PICK h : h = [j \in 0 .. i |-> IF j < i THEN g[j] ELSE last]
    OBVIOUS
  <2>4. ASSUME NEW j \in 0 .. i
        PROVE  h[j] = IF j = 0 THEN {m} ELSE F(h[j - 1])
    <3>1. CASE j = i
      <4>1. h[j] = last /\ h[j - 1] = g[i - 1] /\ j # 0
        <5> HIDE DEF F
        <5> QED
          BY <2>3, <3>1
      <4> QED
        BY <2>2, <4>1, Zenon
    <3>2. CASE j # i
      <4>1. j \in 0 .. i - 1 /\ h[j] = g[j] /\ (j # 0 => h[j - 1] = g[j - 1])
        BY <2>3, <3>2
      <4>2. g[j] = IF j = 0 THEN {m} ELSE F(g[j - 1])
        BY <2>1, <4>1, Zenon DEF Passes
      <4> QED
        BY <4>1, <4>2, Zenon
    <3> QED
      <4> HIDE DEF F
      <4> QED
        BY <3>1, <3>2
  <2>5. Passes(h, m, i, e)
    <3>1. h = [j \in 0 .. i |-> h[j]]
      BY <2>3
    <3> QED
      BY <2>4, <3>1, Zenon DEF Passes
  <2> QED
    BY <2>5
<1>3. 0 .. n \subseteq S
  <2> HIDE DEF S
  <2> QED
    BY <1>1, <1>2, Upwards
<1> QED
  BY <1>3

(* PassArguments is the last of its steps.                                 *)
LEMMA PassArgumentsAre ==
  ASSUME NEW m, NEW parameters, parameters.count \in Nat
  PROVE  \E g : /\ Passes(g, m, parameters.count, "argument count")
                /\ PassArguments(m, parameters) =
                     PassRests(g[parameters.count], parameters, "argument count")
<1> DEFINE N == parameters.count
           Is(passed) == passed = [i \in 0 .. N |->
                           IF i = 0
                           THEN {m}
                           ELSE UNION {IF k.error = "none"
                                       THEN IF Same(Register(k), Null)
                                            THEN {Fail(k, "argument count")}
                                            ELSE UNION {IF j.error = "none"
                                                        THEN {SetRegister(j, Cdr(j, Register(j)))}
                                                        ELSE {j} :
                                                          j \in Push(k, Car(k, Register(k)))}
                                       ELSE {k} : k \in passed[i - 1]}]
           F == CHOOSE passed : Is(passed)
<1>1. PassArguments(m, parameters) = PassRests(F[N], parameters, "argument count")
  BY Zenon DEF PassArguments, Then, PassRest, PassRests
<1>2. \E g : Is(g)
  <2>1. PICK g : Passes(g, m, N, "argument count")
    BY PassesExist, Zenon
  <2>2. Is(g)
    BY <2>1, Zenon DEF Passes, Pass, Shift, Then
  <2> QED
    BY <2>2, Zenon
<1>3. Is(F)
  BY <1>2, Zenon
<1>4. Passes(F, m, N, "argument count")
  <2> HIDE DEF F
  <2> QED
    BY <1>3, Zenon DEF Passes, Pass, Shift, Then
<1> QED
  <2> HIDE DEF F
  <2> QED
    BY <1>1, <1>4, Zenon

(* The procedure has its frame and the list of arguments goes to its stack. *)
Passing(y) ==
  IF y.error = "none"
  THEN \E q, n, l, c : At(y, q, n) /\ c \in Nat /\ IsListOf(y.fields, y.register, l, c)
  ELSE Inside(y)

(* One more argument goes from the list to the stack, or one is missing.   *)
LEMMA PassIs ==
  ASSUME NEW m, Passing(m), m.error = "none", NEW e, e # "fault", e # "none", NEW z \in Pass(m, e)
  PROVE  Passing(z)
<1>1. PICK q, n, l, c : At(m, q, n) /\ c \in Nat /\ IsListOf(m.fields, m.register, l, c)
  BY DEF Passing
<1>2. Inside(m) /\ Sound(m) /\ Stored(m.fields, m.register) /\ n \in Nat
  BY <1>1 DEF At, Inside, Sound
<1>3. Same(Register(m), Null) <=> c = 0
  BY <1>1, <1>2, ListTop DEF Register
<1>4. CASE c = 0
  <2>1. z = Fail(m, e)
    BY <1>3, <1>4 DEF Pass
  <2>2. Inside(z) /\ z.error = e
    BY <1>2, <2>1, FailIs
  <2> QED
    BY <2>2 DEF Passing
<1>5. CASE c # 0
  <2>1. z \in Shift(m) /\ c > 0
    BY <1>1, <1>3, <1>5 DEF Pass
  <2>2. PICK o : Shifted(m, z, q, n, l, c, o)
    BY <1>1, <2>1, ShiftIs
  <2>3. PICK r, d : r = Extended(q, n, o) /\ d = c - 1
    OBVIOUS
  <2>4. At(z, r, n + 1) /\ IsListOf(z.fields, z.register, l, d) /\ d \in Nat /\ z.error = "none"
    BY <1>1, <2>1, <2>2, <2>3 DEF Shifted, At
  <2> QED
    BY <2>4 DEF Passing
<1> QED
  BY <1>4, <1>5

(* The rest of the arguments goes to the stack as a list, or there are too *)
(* many.                                                                   *)
LEMMA PassRestIs ==
  ASSUME NEW m, Passing(m), m.error = "none", NEW parameters, NEW e, e # "fault", e # "none",
         NEW z \in PassRest(m, parameters, e)
  PROVE  Done(z)
<1>1. PICK q, n : At(m, q, n)
  BY DEF Passing
<1>2. Inside(m) /\ Stored(m.fields, m.register)
  BY <1>1 DEF At, Inside, Sound
<1>3. CASE parameters.variadic
  <2>1. PICK v : v = Register(m) /\ z \in Push(m, v)
    BY <1>3 DEF PassRest
  <2>2. Live(m, v)
    BY <1>2, <2>1, HoldIs DEF Register
  <2> QED
    BY <1>1, <2>1, <2>2, PushDone
<1>4. CASE ~parameters.variadic /\ Same(Register(m), Null)
  BY <1>1, <1>4 DEF PassRest, Done
<1>5. CASE ~parameters.variadic /\ ~Same(Register(m), Null)
  <2>1. z = Fail(m, e)
    BY <1>5 DEF PassRest
  <2>2. Inside(z) /\ z.error = e
    BY <1>2, <2>1, FailIs
  <2> QED
    BY <2>2 DEF Done
<1> QED
  BY <1>3, <1>4, <1>5

(* PassArguments ends with the arguments on the stack, or with an error.   *)
LEMMA PassArgumentsIs ==
  ASSUME NEW m, Passing(m), NEW parameters, parameters.count \in Nat, NEW z \in PassArguments(m, parameters)
  PROVE  Done(z)
<1>1. PICK e : e = "argument count"
  BY Zenon
<1>2. e # "fault" /\ e # "none"
  BY <1>1, Zenon
<1>3. PICK c, g : c = parameters.count /\ Passes(g, m, c, e) /\ z \in PassRests(g[c], parameters, e)
  <2>1. PICK g : /\ Passes(g, m, parameters.count, "argument count")
                 /\ PassArguments(m, parameters) =
                      PassRests(g[parameters.count], parameters, "argument count")
    BY PassArgumentsAre, Zenon
  <2>2. z \in PassRests(g[parameters.count], parameters, e)
    BY <1>1, <2>1, Zenon
  <2>3. Passes(g, m, parameters.count, e)
    BY <1>1, <2>1, Zenon
  <2> QED
    BY <2>2, <2>3, Zenon
<1> HIDE <1>1
<1>4. c \in Nat
  BY <1>3
<1>5. \A i \in 0 .. c :
        g[i] = IF i = 0 THEN {m}
               ELSE UNION {IF k.error = "none" THEN Pass(k, e) ELSE {k} : k \in g[i - 1]}
  BY <1>3, Zenon DEF Passes
<1> DEFINE S == {i \in 0 .. c : \A y \in g[i] : Passing(y)}
<1>6. 0 \in S
  <2>1. 0 \in 0 .. c
    BY <1>4
  <2>2. g[0] = {m}
    BY <1>5, <2>1, Zenon
  <2> QED
    BY <2>1, <2>2
<1>7. ASSUME NEW i \in 1 .. c, i - 1 \in S
      PROVE  i \in S
  <2>1. i \in 0 .. c /\ i # 0
    OBVIOUS
  <2>2. g[i] = UNION {IF k.error = "none" THEN Pass(k, e) ELSE {k} : k \in g[i - 1]}
    BY <1>5, <2>1, Zenon
  <2>3. ASSUME NEW y \in g[i]
        PROVE  Passing(y)
    <3>1. PICK x \in g[i - 1] : y \in IF x.error = "none" THEN Pass(x, e) ELSE {x}
      BY <2>2
    <3>2. Passing(x)
      BY <1>7
    <3> QED
      BY <1>2, <3>1, <3>2, PassIs
  <2> QED
    BY <2>1, <2>3
<1>8. 0 .. c \subseteq S
  <2> HIDE DEF S
  <2> QED
    BY <1>4, <1>6, <1>7, Upwards
<1>9. PICK y \in g[c] : z \in IF y.error = "none" THEN PassRest(y, parameters, e) ELSE {y}
  BY <1>3 DEF PassRests
<1>10. Passing(y)
  BY <1>4, <1>8
<1>11. CASE y.error = "none"
  BY <1>2, <1>9, <1>10, <1>11, PassRestIs
<1>12. CASE y.error # "none"
  BY <1>9, <1>10, <1>12 DEF Passing, Done
<1> QED
  BY <1>11, <1>12

(* A call of a procedure, from the arguments on the stack to its first     *)
(* instruction.                                                            *)
LEMMA EnterProcedureIs ==
  ASSUME Sound(Memory), NEW m, NEW p, NEW n, At(m, p, n), m.fields = fields, m.epoch = Memory.epoch,
         NEW procedure, Live(m, procedure), Callable(Keep(m, procedure)),
         NumberOf(Car(m, Car(m, procedure))) \in Nat, NEW tail,
         NEW arguments, arguments.count \in Nat,
         arguments.variadic =>
           n > arguments.count + 1
           /\ \E l, k : k \in Nat /\ IsListOf(fields, fields[p[n]].car, l, k),
         ~arguments.variadic => n > arguments.count,
         NEW z \in EnterProcedure(m, procedure, tail, arguments)
  PROVE  Done(z)
<1>1. PICK s, r, parameters :
        /\ s = SetRegister(m, procedure) /\ r = Keep(m, procedure)
        /\ parameters = Arity(NumberOf(Car(m, Car(m, procedure))))
  OBVIOUS
<1>2. parameters.count \in Nat
  BY <1>1 DEF Arity
<1>3. /\ Inside(s) /\ s.register = r
      /\ s.code = m.code /\ s.stack = m.stack /\ s.fields = fields
      /\ s.error = m.error /\ s.epoch = m.epoch
  BY <1>1, SetRegisterKeeps DEF At
<1>4. At(s, p, n)
  BY <1>3 DEF At
<1> DEFINE Frame(y) == Allocate(y, y.cons, SetTag(Cdr(y, Code(y)), FrameSlot))
           Enter(y) == LET framed == SetStack(y, y.cons)
                       IN PassArguments(SetCode(framed, Car(framed, Code(framed))), parameters)
<1>5. z \in UNION {IF c.error = "none" THEN Enter(c) ELSE {c} :
             c \in UNION {IF b.error = "none" THEN Frame(b) ELSE {b} :
               b \in UNION {IF a.error = "none" THEN PushContinuation(a, tail) ELSE {a} :
                 a \in TakeArguments(s, arguments)}}}
  BY <1>1, Zenon DEF EnterProcedure, Then, PushContinuation
<1>6. PICK c, b, a :
        /\ a \in TakeArguments(s, arguments)
        /\ b \in IF a.error = "none" THEN PushContinuation(a, tail) ELSE {a}
        /\ c \in IF b.error = "none" THEN Frame(b) ELSE {b}
        /\ z \in IF c.error = "none" THEN Enter(c) ELSE {c}
  <2> DEFINE A == TakeArguments(s, arguments)
             B == UNION {IF a.error = "none" THEN PushContinuation(a, tail) ELSE {a} : a \in A}
             C == UNION {IF b.error = "none" THEN Frame(b) ELSE {b} : b \in B}
  <2>1. z \in UNION {IF c.error = "none" THEN Enter(c) ELSE {c} : c \in C}
    BY <1>5, Zenon
  <2> HIDE DEF Frame, Enter, C
  <2>2. PICK c \in C : z \in IF c.error = "none" THEN Enter(c) ELSE {c}
    BY <2>1
  <2> USE DEF C
  <2> HIDE DEF B
  <2>3. PICK b \in B : c \in IF b.error = "none" THEN Frame(b) ELSE {b}
    BY <2>2
  <2> USE DEF B
  <2> HIDE DEF A
  <2>4. PICK a \in A : b \in IF a.error = "none" THEN PushContinuation(a, tail) ELSE {a}
    BY <2>3
  <2>5. a \in TakeArguments(s, arguments)
    BY <2>4 DEF A
  <2> QED
    BY <2>2, <2>3, <2>4, <2>5
<1>7. PICK i : Taken(a, p, i, r)
  BY <1>3, <1>4, <1>6, TakeArgumentsIs
<1>8. Continuing(b, r)
  <2>1. a.error = "none"
    BY <1>7 DEF Taken, At
  <2>2. b \in PushContinuation(a, tail)
    BY <1>6, <2>1
  <2> QED
    BY <1>1, <1>7, <2>2, PushContinuationIs
<1>9. c \in Allocate(b, b.cons, SetTag(Cdr(b, Code(b)), FrameSlot))
  BY <1>6, <1>8 DEF Continuing
<1>10. c.error = "none"
  <2>1. PICK d : d = SetTag(Cdr(b, Code(b)), FrameSlot)
    OBVIOUS
  <2>2. Live(b, d)
    <3>1. Stored(b.fields, r) /\ b.code = r /\ Inside(b) /\ Since(fields, b.fields)
      BY <1>8 DEF Continuing, Inside, Sound
    <3>2. Live(b, Cdr(b, Code(b)))
      BY <1>1, <3>1, CallableIs DEF Code
    <3> QED
      BY <2>1, <3>2, TagIs DEF FrameSlot
  <2>3. PICK o : Grown(b, c, o, b.cons, d)
    BY <1>8, <1>9, <2>1, <2>2, AllocateIs DEF Continuing
  <2> QED
    BY <1>8, <2>3 DEF Grown, Continuing
<1>11. PICK g, k : /\ g = SetStack(c, c.cons) /\ k = SetCode(g, Car(g, Code(g)))
                   /\ z \in PassArguments(k, parameters)
  BY <1>6, <1>10
<1>12. PICK q, l, x : At(k, q, 1) /\ x \in Nat /\ IsListOf(k.fields, k.register, l, x)
  BY <1>1, <1>8, <1>9, <1>11, PushFrameIs
<1>13. Passing(k)
  BY <1>12 DEF Passing, At
<1> QED
  BY <1>2, <1>11, <1>13, PassArgumentsIs

(* The instruction call, of a procedure.                                   *)
LEMMA CallProcedureIs ==
  ASSUME Sound(Memory), OperandsFound, CallProcedure
  PROVE  Sound(Memory)'
<1>1. PICK n, p : At(Memory, p, n) /\ InstructionFits(p, n)
  BY RunningIs DEF CallProcedure
<1>2. PICK arguments : arguments = Arity(InstructionTag - CALL_)
  OBVIOUS
<1>3. PICK m : m = Memory
  OBVIOUS
<1>4. /\ m.fields = fields /\ m.epoch = Memory.epoch /\ At(m, p, n) /\ n \in Nat
      /\ Sound(m) /\ Inside(m) /\ Plain(fields) /\ IsFields(fields) /\ Coded
  BY <1>1, <1>3, MemoryIs, SoundInside, TopIs DEF Sound
<1>5. PICK operand, procedure : operand = OperandCons(Memory) /\ procedure = CallOperand
  OBVIOUS
<1>6. /\ ProcedureFits(arguments, p, n)
      /\ Fresh(m, operand) /\ InHeap(m.fields, operand)
  BY <1>1, <1>2, <1>3, <1>4, <1>5
     DEF CallProcedure, InstructionFits, GET_, CONSTANT_, SET_, IF_, CALL_
<1>7. Live(m, procedure) /\ procedure = Car(m, operand)
  <2>1. procedure = Car(m, operand)
    BY <1>3, <1>5 DEF CallOperand
  <2> QED
    BY <1>4, <1>6, <2>1, CarOfFound
<1>8. TagOf(Cdr(m, procedure)) = 3
  BY <1>3, <1>5 DEF CallProcedure, IsProcedure, ProcedureType
<1>9. Readable(fields, procedure)
  <2>1. Cdr(m, procedure) # Garbage
    BY <1>8, GarbageIs
  <2>2. ~Readable(m.fields, procedure) => IsPointer(procedure) /\ procedure.object \in Parts
    BY <1>7, <2>1, ReadNothing
  <2> QED
    BY <1>4, <2>2 DEF Readable, Coded
<1>10. PICK r : r = Keep(m, procedure)
  OBVIOUS
<1>11. /\ IsPointer(procedure) /\ r = Pointer(procedure.object, procedure.tag)
       /\ Stored(fields, r) /\ Fresh(m, procedure)
  <2>1. IsPointer(procedure)
    BY <1>9 DEF Readable
  <2>2. /\ r = Pointer(procedure.object, procedure.tag) /\ Stored(fields, r)
        /\ procedure = Held(procedure.object, procedure.tag, m.epoch)
    BY <1>4, <1>7, <1>10, <2>1, KeepIs
  <2> QED
    BY <2>1, <2>2, HeldIs DEF Fresh
<1>12. PICK b : /\ b = Rib(m, procedure.object)
                /\ Car(m, procedure) = Hold(m, b.car) /\ Cdr(m, procedure) = Hold(m, b.cdr)
  BY <1>11 DEF Car, Cdr
<1>13. Stored(fields, b.car) /\ Stored(fields, b.cdr)
  <2>1. CASE procedure.object \in DOMAIN fields
    BY <1>4, <1>12, <2>1, FieldIs DEF Rib
  <2>2. CASE procedure.object \notin DOMAIN fields
    <3>1. IsStatic(procedure.object)
      BY <1>9, <2>2 DEF Readable
    <3>2. Known(fields, procedure.object)
      BY <1>4, <1>7, <1>11, KeepIs
    <3>3. procedure.object \in Parts
      BY <2>2, <3>1, <3>2, SymbolIs DEF Known
    <3>4. b = Static(procedure.object)
      BY <1>4, <1>12, <2>2 DEF Rib
    <3> QED
      BY <1>4, <3>3, <3>4 DEF Coded
  <2> QED
    BY <2>1, <2>2
<1>14. Callable(r)
  <2>1. IsPointer(b.cdr)
    <3>1. TagOf(b.cdr) = 3
      BY <1>4, <1>8, <1>12, <1>13, HoldIs
    <3> QED
      BY <3>1 DEF TagOf
  <2>2. Readable(fields, b.car)
    <3>1. Readable(fields, Hold(m, b.car))
      BY <1>3, <1>5, <1>6, <1>12 DEF ProcedureFits
    <3> QED
      BY <1>4, <1>13, <3>1, HoldReadable
  <2>3. r.object = procedure.object /\ IsPointer(r) /\ Readable(fields, r)
    BY <1>9, <1>11, PointerIs DEF Readable
  <2> QED
    BY <1>3, <1>11, <1>12, <2>1, <2>2, <2>3 DEF Callable
<1>15. PICK k : k = ProfileCall(m, IsTail)
  OBVIOUS
<1>16. /\ Inside(k)
       /\ k.code = m.code /\ k.stack = m.stack /\ k.register = m.register /\ k.fields = m.fields
       /\ k.error = m.error /\ k.epoch = m.epoch
  BY <1>4, <1>15, WriteLineKeeps DEF ProfileCall
<1>17. At(k, p, n)
  BY <1>4, <1>16 DEF At
<1>18. Live(k, procedure) /\ Keep(k, procedure) = r /\ Car(k, Car(k, procedure)) = Car(m, Car(m, procedure))
  BY <1>7, <1>10, <1>16, AlikeIs
<1>19. NumberOf(Car(k, Car(k, procedure))) \in Nat
  BY <1>3, <1>5, <1>6, <1>18 DEF ProcedureFits
<1>20. arguments.count \in Nat
  <2>1. InstructionTag \in Nat /\ InstructionTag >= 4
    <3>1. Live(m, Cdr(m, Code(m)))
      BY <1>4, OperandIs
    <3> QED
      BY <1>3, <3>1, KeepIs DEF InstructionTag, CallProcedure, CALL_
  <2>2. InstructionTag - CALL_ \in Nat
    BY <2>1 DEF CALL_
  <2> QED
    BY <1>2, <2>2 DEF Arity
<1>21. /\ arguments.variadic =>
            n > arguments.count + 1
            /\ \E l, c : c \in Nat /\ IsListOf(fields, fields[p[n]].car, l, c)
       /\ ~arguments.variadic => n > arguments.count
  <2>1. \A c \in 0 .. Cardinality(DOMAIN fields) : c \in Nat
    OBVIOUS
  <2> QED
    BY <1>6, <2>1 DEF ProcedureFits
<1>22. \A z \in EnterProcedure(k, procedure, IsTail, arguments) : Done(z)
  BY <1>3, <1>4, <1>14, <1>16, <1>17, <1>18, <1>19, <1>20, <1>21, EnterProcedureIs
<1>23. Advance(EnterProcedure(k, procedure, IsTail, arguments))
  BY <1>2, <1>3, <1>5, <1>15 DEF CallProcedure
<1>24. \E z : Inside(z) /\ Become(z)
  BY <1>22, <1>23, AdvanceIs
<1> QED
  BY <1>24, BecomeIs

-----------------------------------------------------------------------------
(* The handler of an error. *)

(* Between two allocations, with the cons of the last one in hand. *)
Going(m) == Inside(m) /\ m.error = "none" /\ Live(m, m.cons)

(* An allocation between two others leaves the new cons in hand.           *)
LEMMA AllocateGoes ==
  ASSUME NEW m, Inside(m), m.error = "none", NEW a, Live(m, a), NEW d, Live(m, d),
         NEW n \in Allocate(m, a, d)
  PROVE  Going(n)
<1>1. Inside(n) /\ \E o : Grown(m, n, o, a, d)
  BY AllocateIs
<1>2. PICK o : Grown(m, n, o, a, d)
  BY <1>1
<1>3. n.error = "none" /\ o \in DOMAIN n.fields /\ n.cons = Held(o, 0, n.epoch)
  BY <1>2 DEF Grown, PairType
<1>4. Live(n, n.cons)
  BY <1>3 DEF Live, Known
<1> QED
  BY <1>1, <1>3, <1>4 DEF Going

(* What the registers point to is held.                                    *)
LEMMA RootsLive ==
  ASSUME NEW m, Inside(m)
  PROVE  /\ Live(m, Code(m)) /\ Live(m, Register(m)) /\ Live(m, Hold(m, Null))
         /\ Live(m, Handler(m)) /\ Live(m, Number(0))
<1>1. Sound(m) /\ IsFields(m.fields) /\ Stored(m.fields, m.code) /\ Stored(m.fields, m.register)
  BY DEF Inside, Sound
<1>2. Stored(m.fields, Null) /\ Null.object \in DOMAIN m.fields
  BY <1>1, NullIs DEF IsFields
<1>3. IsPointer(Null)
  BY PointerIs DEF Null
<1>4. PICK c, o : c = Hold(m, Null) /\ o = Null.object
  OBVIOUS
<1>5. c = Held(o, Null.tag, m.epoch) /\ Live(m, c)
  BY <1>1, <1>2, <1>3, <1>4, HoldReadable
<1>6. Live(m, Cdr(m, c))
  BY <1>1, <1>2, <1>4, <1>5, ReadIs
<1>7. Live(m, Number(0))
  BY DEF Live, IsNumber
<1> QED
  BY <1>1, <1>4, <1>5, <1>6, <1>7, HoldIs DEF Code, Register, Handler

(* The parts of HandleError. *)
BuildString(n) == Allocate(n, Number(0), SetTag(Hold(n, Null), 5))
BuildSymbol(n) == Allocate(n, Register(n), SetTag(n.cons, SymbolType))
PrependCall(n) ==
  Then(Allocate(n, n.cons, SetTag(Code(n), CALL_ + BuildArity([count |-> 1, variadic |-> FALSE]))),
       LAMBDA k : {SetRegister(SetCode(k, k.cons), Hold(k, Null))})
WriteMessage(n) ==
  Then(Allocate(n, Number(0), Hold(n, Null)), LAMBDA k : {SetRegister(k, k.cons)})
PrependConstant(n) ==
  Then(Allocate(n, Register(n), SetTag(Code(n), CONSTANT_)), LAMBDA k : {SetCode(k, k.cons)})

(* The string of the symbol of the call is allocated.                      *)
LEMMA BuildStringIs ==
  ASSUME NEW m, Inside(m), m.error = "none", NEW n \in BuildString(m)
  PROVE  Going(n)
<1>1. PICK a, d : a = Number(0) /\ d = SetTag(Hold(m, Null), 5) /\ n \in Allocate(m, a, d)
  BY DEF BuildString
<1>2. Live(m, a) /\ Live(m, d)
  BY <1>1, RootsLive, TagIs
<1> QED
  BY <1>1, <1>2, AllocateGoes

(* The symbol of the call is allocated.                                    *)
LEMMA BuildSymbolIs ==
  ASSUME NEW m, Going(m), NEW n \in BuildSymbol(m)
  PROVE  Going(n)
<1>1. PICK a, d : a = Register(m) /\ d = SetTag(m.cons, 4) /\ n \in Allocate(m, a, d)
  BY DEF BuildSymbol, SymbolType
<1>2. Live(m, a) /\ Live(m, d)
  BY <1>1, RootsLive, TagIs DEF Going
<1> QED
  BY <1>1, <1>2, AllocateGoes DEF Going

(* The call of the handler is put in front of the code.                    *)
LEMMA PrependCallIs ==
  ASSUME NEW m, Going(m), NEW n \in PrependCall(m)
  PROVE  Inside(n) /\ n.error = "none"
<1>1. PICK t \in Nat : t = CALL_ + BuildArity([count |-> 1, variadic |-> FALSE])
  BY DEF CALL_, BuildArity
<1>2. PICK a, d : a = m.cons /\ d = SetTag(Code(m), t)
  OBVIOUS
<1>3. PICK k \in Allocate(m, a, d) :
        n \in IF k.error = "none" THEN {SetRegister(SetCode(k, k.cons), Hold(k, Null))} ELSE {k}
  BY <1>1, <1>2 DEF PrependCall, Then
<1>4. Live(m, a) /\ Live(m, d)
  BY <1>1, <1>2, RootsLive, TagIs DEF Going
<1>5. Going(k)
  BY <1>3, <1>4, AllocateGoes DEF Going
<1>6. PICK x, h : x = SetCode(k, k.cons) /\ h = Hold(k, Null) /\ n = SetRegister(x, h)
  BY <1>3, <1>5 DEF Going
<1>7. Inside(x) /\ x.error = "none" /\ x.fields = k.fields /\ x.epoch = k.epoch
  BY <1>5, <1>6, SetCodeKeeps DEF Going
<1>8. Live(x, h)
  BY <1>5, <1>6, <1>7, RootsLive, AlikeIs DEF Going
<1> QED
  BY <1>6, <1>7, <1>8, SetRegisterKeeps

(* The message is in the register.                                         *)
LEMMA WriteMessageIs ==
  ASSUME NEW m, Inside(m), m.error = "none", NEW n \in WriteMessage(m)
  PROVE  Inside(n) /\ n.error = "none"
<1>1. PICK a, d : a = Number(0) /\ d = Hold(m, Null)
  OBVIOUS
<1>2. PICK k \in Allocate(m, a, d) :
        n \in IF k.error = "none" THEN {SetRegister(k, k.cons)} ELSE {k}
  BY <1>1 DEF WriteMessage, Then
<1>3. Going(k)
  BY <1>1, <1>2, RootsLive, AllocateGoes
<1> QED
  BY <1>2, <1>3, SetRegisterKeeps DEF Going

(* The constant with the message is put in front of the code.              *)
LEMMA PrependConstantIs ==
  ASSUME NEW m, Inside(m), m.error = "none", NEW n \in PrependConstant(m)
  PROVE  Inside(n)
<1>1. PICK a, d : a = Register(m) /\ d = SetTag(Code(m), 0)
  OBVIOUS
<1>2. PICK k \in Allocate(m, a, d) :
        n \in IF k.error = "none" THEN {SetCode(k, k.cons)} ELSE {k}
  BY <1>1 DEF PrependConstant, Then, CONSTANT_
<1>3. Live(m, a) /\ Live(m, d)
  BY <1>1, RootsLive, TagIs
<1>4. Going(k)
  BY <1>2, <1>3, AllocateGoes
<1> QED
  BY <1>2, <1>4, SetCodeKeeps DEF Going

(* After an error the code calls the handler with the message.             *)
LEMMA HandleErrorIs ==
  ASSUME Sound(Memory), HandleError
  PROVE  Sound(Memory)'
<1>1. PICK m, h, s : m = [Memory EXCEPT !.error = "none"] /\ h = Handler(m) /\ s = SetRegister(m, h)
  OBVIOUS
<1> DEFINE A == BuildString(s)
           B == Then(A, BuildSymbol)
           C == Then(B, PrependCall)
           D == Then(C, WriteMessage)
           E == Then(D, PrependConstant)
<1>2. PICK n \in E : Become(n)
  BY <1>1, Zenon DEF HandleError, BuildString, BuildSymbol, PrependCall, WriteMessage, PrependConstant
<1>3. Inside(m) /\ m.error = "none"
  <2>1. PICK l : l = Memory
    OBVIOUS
  <2>2. Inside(l) /\ IsMemory(l) /\ Sound(l)
    BY <2>1, SoundInside, MemoryIs
  <2>3. /\ IsMemory(m) /\ m.error = "none"
        /\ m.code = l.code /\ m.stack = l.stack /\ m.register = l.register /\ m.fields = l.fields
        /\ m.epoch = l.epoch
    BY <1>1, <2>1, <2>2, SetErrorIs
  <2> QED
    BY <2>2, <2>3 DEF Inside, Sound
<1>4. Inside(s) /\ s.error = "none"
  <2>1. h = Handler(m) /\ s = SetRegister(m, h)
    BY <1>1, Zenon
  <2>2. Live(m, h)
    BY <1>3, <2>1, RootsLive
  <2> QED
    BY <1>3, <2>1, <2>2, SetRegisterKeeps
<1>5. \A x \in A : Going(x)
  BY <1>4, BuildStringIs
<1> HIDE DEF A
<1>6. ASSUME NEW x \in B
      PROVE  Going(x)
  <2>1. PICK y \in A : x \in IF y.error = "none" THEN BuildSymbol(y) ELSE {y}
    BY DEF Then
  <2> QED
    BY <1>5, <2>1, BuildSymbolIs DEF Going
<1> HIDE DEF B
<1>7. ASSUME NEW x \in C
      PROVE  Inside(x) /\ x.error = "none"
  <2>1. PICK y \in B : x \in IF y.error = "none" THEN PrependCall(y) ELSE {y}
    BY DEF Then
  <2> QED
    BY <1>6, <2>1, PrependCallIs DEF Going
<1> HIDE DEF C
<1>8. ASSUME NEW x \in D
      PROVE  Inside(x) /\ x.error = "none"
  <2>1. PICK y \in C : x \in IF y.error = "none" THEN WriteMessage(y) ELSE {y}
    BY DEF Then
  <2> QED
    BY <1>7, <2>1, WriteMessageIs
<1> HIDE DEF D
<1>9. Inside(n)
  <2>1. PICK y \in D : n \in IF y.error = "none" THEN PrependConstant(y) ELSE {y}
    BY <1>2 DEF Then
  <2> QED
    BY <1>8, <2>1, PrependConstantIs
<1> QED
  BY <1>2, <1>9, BecomeIs

-----------------------------------------------------------------------------
(* The start. *)

(* What stands in a cons at the start.                                     *)
LEMMA InitFieldIs ==
  ASSUME Init, NEW o \in DOMAIN fields
  PROVE  \/ fields[o] = [car |-> Number(0), cdr |-> Null]
         \/ fields[o] = [car |-> Pointer([heap |-> 1], PairType), cdr |-> Null]
         \/ fields[o] = [car |-> Pointer([heap |-> 2], PairType), cdr |-> SetTag(Null, FrameSlot)]
         \/ fields[o] = [car |-> Null, cdr |-> True]
         \/ \E g \in DOMAIN Image[program].globals :
              fields[o] = [car |-> OperandValue(Image[program].globals[g]), cdr |-> Null]
BY DEF Init, Symbol, Null, True, False, Pointer

(* The conses at the start.                                                *)
LEMMA InitDomainIs ==
  ASSUME Init
  PROVE  /\ DOMAIN fields = {[heap |-> i] : i \in 1 .. 3}
                              \cup {Symbol(x) : x \in DOMAIN Image[program].globals
                                                        \cup {"()", "#f", "#t"}}
         /\ fields = [o \in DOMAIN fields |-> fields[o]]
BY DEF Init

(* The image of a finite set is finite.                                    *)
LEMMA ImageFinite ==
  ASSUME NEW S, IsFiniteSet(S), NEW f, DOMAIN f = S
  PROVE  IsFiniteSet({f[x] : x \in S})
<1> DEFINE T == {f[x] : x \in S}
           g == [x \in S |-> f[x]]
<1>1. g \in Surjection(S, T)
  BY DEF Surjection
<1> HIDE DEF g, T
<1>2. IsFiniteSet(T)
  BY <1>1, FS_Surjection
<1> QED
  BY <1>2 DEF T

(* The conses at the start are a sound graph.                              *)
LEMMA InitFieldsAre ==
  ASSUME Coded, Init
  PROVE  /\ IsFields(fields)
         /\ [heap |-> 3] \in DOMAIN fields
<1>1. PICK H, S, G :
        /\ H = {[heap |-> i] : i \in 1 .. 3}
        /\ G = DOMAIN Image[program].globals \cup {"()", "#f", "#t"}
        /\ S = {Symbol(x) : x \in G}
  OBVIOUS
<1>2. DOMAIN fields = H \cup S /\ fields = [o \in DOMAIN fields |-> fields[o]]
  BY <1>1, InitDomainIs
<1>3. IsFiniteSet(H)
  <2>1. IsFiniteSet(1 .. 3)
    <3>1. PICK a, b : a = 1 /\ b = 3 /\ a \in Int /\ b \in Int
      OBVIOUS
    <3>2. IsFiniteSet(a .. b)
      BY <3>1, FS_Interval
    <3> QED
      BY <3>1, <3>2
  <2>2. PICK h : h = [i \in 1 .. 3 |-> [heap |-> i]]
    OBVIOUS
  <2>3. H = {h[i] : i \in 1 .. 3} /\ DOMAIN h = 1 .. 3
    BY <1>1, <2>2
  <2>4. PICK R : R = 1 .. 3
    OBVIOUS
  <2> QED
    BY <2>1, <2>3, <2>4, ImageFinite
<1>4. IsFiniteSet(S)
  <2>1. IsFiniteSet(G)
    <3>1. IsFiniteSet(DOMAIN Image[program].globals)
      BY DEF Coded, Init
    <3>2. PICK N : N = {"()", "#f", "#t"}
      OBVIOUS
    <3>3. IsFiniteSet(N)
      <4>1. N = (({} \cup {"()"}) \cup {"#f"}) \cup {"#t"}
        BY <3>2
      <4>2. IsFiniteSet({} \cup {"()"})
        BY FS_EmptySet, FS_AddElement
      <4>3. IsFiniteSet(({} \cup {"()"}) \cup {"#f"})
        BY <4>2, FS_AddElement
      <4> QED
        BY <4>1, <4>3, FS_AddElement
    <3> QED
      BY <1>1, <3>1, <3>2, <3>3, FS_Union
  <2>2. PICK h : h = [x \in G |-> Symbol(x)]
    OBVIOUS
  <2>3. S = {h[x] : x \in G} /\ DOMAIN h = G
    BY <1>1, <2>2
  <2> QED
    BY <2>1, <2>3, ImageFinite
<1>5. IsFiniteSet(DOMAIN fields)
  BY <1>2, <1>3, <1>4, FS_Union
<1>6. \A i \in 1 .. 3 : [heap |-> i] \in DOMAIN fields
  BY <1>1, <1>2
<1>7. Null.object \in DOMAIN fields
  <2>1. Null.object = Symbol("()")
    BY PointerIs, Zenon DEF Null
  <2>2. Symbol("()") \in S
    BY <1>1
  <2> QED
    BY <1>2, <2>1, <2>2
<1>8. \A o \in DOMAIN fields : IsHeap(o) \/ IsSymbol(o)
  BY <1>1, <1>2 DEF IsHeap, IsSymbol
<1>9. PICK f, t : f = fields /\ t = SetTag(Null, FrameSlot)
  OBVIOUS
<1>10. /\ Stored(f, Null) /\ Stored(f, True) /\ Stored(f, t) /\ Stored(f, Number(0))
       /\ Stored(f, Pointer([heap |-> 1], PairType)) /\ Stored(f, Pointer([heap |-> 2], PairType))
  <2>1. PICK a, b : a = Symbol("()") /\ b = Symbol("#t")
    BY Zenon
  <2>2. Null = Pointer(a, 0) /\ True = Pointer(b, 0) /\ t = Pointer(a, 1)
    <3>1. Null = Pointer(a, 0) /\ True = Pointer(b, 0)
      BY <2>1, Zenon DEF Null, True
    <3> QED
      BY <1>9, <3>1, PointerIs DEF FrameSlot
  <2>3. IsSymbol(a) /\ IsSymbol(b)
    BY <2>1, Zenon DEF IsSymbol
  <2> HIDE <2>1
  <2>4. Stored(f, Null) /\ Stored(f, True) /\ Stored(f, t)
    BY <2>2, <2>3 DEF Stored, Known
  <2>5. Stored(f, Pointer([heap |-> 1], PairType)) /\ Stored(f, Pointer([heap |-> 2], PairType))
    BY <1>6, <1>9 DEF Stored, Known, PairType
  <2>6. Stored(f, Number(0))
    BY DEF Stored, IsNumber
  <2> QED
    BY <2>4, <2>5, <2>6
<1>11. ASSUME NEW o \in DOMAIN fields
       PROVE  /\ fields[o] = [car |-> fields[o].car, cdr |-> fields[o].cdr]
              /\ Stored(fields, fields[o].car) /\ Stored(fields, fields[o].cdr)
  <2>1. \A g \in DOMAIN Image[program].globals : Stored(f, OperandValue(Image[program].globals[g]))
    BY DEF Coded, Init
  <2>2. PICK v, w : fields[o] = [car |-> v, cdr |-> w] /\ Stored(f, v) /\ Stored(f, w)
    BY <1>9, <1>10, <2>1, InitFieldIs
  <2> QED
    BY <1>9, <2>2
<1>12. IsFields(fields)
  BY <1>2, <1>5, <1>7, <1>8, <1>11 DEF IsFields
<1> QED
  BY <1>6, <1>12

(* The memory is sound at the start.                                       *)
LEMMA InitIs ==
  ASSUME Coded, Init
  PROVE  Sound(Memory)
<1>1. PICK m : m = Memory
  OBVIOUS
<1>2. /\ m.code = code /\ m.stack = stack /\ m.register = register
      /\ m.fields = fields /\ m.error = error /\ m.epoch = 0
      /\ IsMemory(m)
  BY <1>1, MemoryIs
<1>3. IsFields(fields) /\ [heap |-> 3] \in DOMAIN fields
  BY InitFieldsAre
<1>4. Stored(fields, code)
  BY DEF Coded, Init
<1>5. Stored(fields, stack)
  BY <1>3 DEF Init, Stored, Known, PairType
<1>6. Stored(fields, register)
  <2>1. register = Pointer(Symbol("never"), 0)
    BY Zenon DEF Init, NEVER
  <2> QED
    BY <2>1 DEF Stored, Known, IsSymbol
<1>7. error # "fault"
  BY DEF Init
<1> QED
  BY <1>1, <1>2, <1>3, <1>4, <1>5, <1>6, <1>7 DEF Sound

-----------------------------------------------------------------------------

(* No instruction leaves the memory unsound.                               *)
LEMMA StepIs ==
  ASSUME Sound(Memory), OperandsFound, [Next]_vars
  PROVE  Sound(Memory)'
<1>1. CASE Constant
  BY <1>1, ConstantIs
<1>2. CASE Get
  BY <1>2, GetIs
<1>3. CASE Set
  BY <1>3, SetIs
<1>4. CASE If
  BY <1>4, IfIs
<1>5. CASE CallProcedure
  BY <1>5, CallProcedureIs
<1>6. CASE CallPrimitive
  BY <1>6, CallPrimitiveIs
<1>7. CASE CallOther
  BY <1>7, CallOtherIs
<1>8. CASE HandleError
  BY <1>8, HandleErrorIs
<1>9. CASE UNCHANGED vars
  <2>1. PICK m : m = Memory
    OBVIOUS
  <2>2. Memory' = m
    BY <1>9, <2>1 DEF vars, Memory
  <2> QED
    BY <2>1, <2>2
<1> QED
  BY <1>1, <1>2, <1>3, <1>4, <1>5, <1>6, <1>7, <1>8, <1>9 DEF Next, Halt

(* No register, no field and no cons of the graph ever refers to what a    *)
(* collection took (NothingStale): the handlers of src/vm/src/vm.rs keep   *)
(* nothing across an allocation but what is a root. It is so of every      *)
(* program that is compiled (Compiled: what stands in its code is a        *)
(* number, a symbol or a part of it) and whose instructions find their     *)
(* operands (OperandsFound: vm.rs assumes it and checks nothing).          *)
THEOREM NothingEverStale ==
  ASSUME Compiled(Parts)
  PROVE  Spec /\ []OperandsFound => []NothingStale
<1>1. Init => Sound(Memory)
  BY CompiledIs, InitIs
<1>2. Sound(Memory) /\ OperandsFound /\ [Next]_vars => Sound(Memory)'
  BY StepIs
<1>3. Sound(Memory) => NothingStale
  BY SoundNothingStale
<1> QED
  BY <1>1, <1>2, <1>3, PTL DEF Spec

=============================================================================
