------------------------------ MODULE Primitives ------------------------------
(***************************************************************************)
(* The primitives of R7RS small (r7rs/src/small.rs) that work on memory    *)
(* alone, those of native/, inexact/, process-context/ and time/ among     *)
(* them, and the message of an error, which the memory writes into its     *)
(* register.  The memory is that of Vm: any allocation may collect, and a  *)
(* pointer that is not threaded through it goes stale.  A program applies  *)
(* primitives to values they are for, as the procedures of prelude.scm do. *)
(***************************************************************************)
EXTENDS Vm, SequencesExt

CONSTANTS
  Numbers,      \* what a program pushes and arithmetic may result in
  Quoted,       \* other constants of a program
  Context,      \* kinds of process contexts and clocks, of which a program has one
  CommandLine,  \* argv
  Environment,  \* environment variables: pairs of a name and a value
  Messages,     \* messages of errors, each in the pieces it is written in
  MaxStack,     \* bound on the values on the stack
  MaxConses     \* bound on the conses in use, those of the stack included

(* Type *)
NullType == 1
BooleanType == 2
StringType == 5
CharacterType == 6

(* Primitive *)
RIB == 0
IS_RIB == 3
TAG == 6
LESS_THAN == 10
SUBTRACT == 12
MULTIPLY == 13
DIVIDE == 14
REMAINDER == 15
EXPT == 16
HALT == 40
NULL == 50
PAIR == 51
ASSQ == 60
CONS == 61
MEMQ == 62
TAIL == 63
LENGTH == 64
EQV == 70
EQUAL_INNER == 71
QUOTIENT == 80
COMMAND_LINE == 300
ENVIRONMENT_VARIABLES == 301
CURRENT_JIFFY == 400
JIFFIES_PER_SECOND == 401
EXPONENTIATION == 500
INFINITE == 502
NAN == 503
ATAN == 510

-----------------------------------------------------------------------------
(* Numbers.  A number that is not an integer is the term it is the value   *)
(* of: what arithmetic computes is another matter.                         *)

Term(primitive, operands) == [term |-> <<primitive, operands>>]

Sign(n) == IF n < 0 THEN -1 ELSE 1
Absolute(n) == IF n < 0 THEN -n ELSE n
Remainder(n, k) == Sign(n) * (Absolute(n) % Absolute(k))
Quotient(n, k) == LET d == n - Remainder(n, k) IN Sign(d) * Sign(k) * (Absolute(d) \div Absolute(k))

(* Mutant: the operands are popped in the order they were pushed.          *)
ArithmeticOfSwapped(primitive, v, w) ==
  CASE primitive = SUBTRACT -> Number(w.number - v.number)
    [] primitive = MULTIPLY -> Number(v.number * w.number)
    [] primitive = REMAINDER -> Number(Remainder(v.number, w.number))
    [] primitive = QUOTIENT -> Number(Quotient(v.number, w.number))
    [] OTHER -> Term(primitive, <<v.number, w.number>>)

Arithmetic(primitive, v, w) ==
  LET n == v.number k == w.number
  IN CASE primitive = SUBTRACT -> Number(n - k)
       [] primitive = MULTIPLY -> Number(n * k)
       [] primitive = REMAINDER -> Number(Remainder(n, k))
       [] primitive = QUOTIENT -> Number(Quotient(n, k))
       [] OTHER -> Term(primitive, <<n, k>>)

-----------------------------------------------------------------------------
(* What primitives share. *)

(* pop_many: operands, the last on top. *)
PopTo(m, n) == LET pop[i \in 0 .. n] == IF i = 0 THEN m ELSE Pop(pop[i - 1]) IN pop[n]
OperandAt(m, i) == Top(PopTo(m, i))

PushRib(m, car, cdr, tag) == Then(Allocate(m, car, SetTag(cdr, tag)), LAMBDA n : Push(n, n.cons))

IsNull(v) == Same(v, Null)
TagOfCdr(m, v) == TagOf(Cdr(m, v))

(* The conses that a loop over a list comes by. *)
RECURSIVE Walk(_, _)
Walk(m, list) == <<list>> \o IF IsNull(list) THEN <<>> ELSE Walk(m, Cdr(m, list))

ListLength(m, list) == Len(Walk(m, list)) - 1

(* build_raw_string, into m.cons. *)
BuildRawString(m, string) ==
  LET built[i \in 0 .. Len(string)] ==
        IF i = 0 THEN {[m EXCEPT !.cons = Hold(m, Null)]}
        ELSE Then(built[i - 1],
                  LAMBDA n : Allocate(n, Number(Reverse(string)[i]), SetTag(n.cons, PairType)))
  IN built[Len(string)]

(* write_str appends to the string in the register. *)
WriteStr(m, string) ==
  LET Join(n) ==
        LET conses == Walk(n, Register(n))
        IN IF IsNull(Register(n))
           THEN {SetRegister(n, n.cons)}
           ELSE {SetCdr(n, conses[Len(conses) - 1], n.cons)}
  IN Then(BuildRawString(m, string), Join)

-----------------------------------------------------------------------------
(* native/ *)

(* The first cons of the list that Found holds of, or false. *)
Search(m, list, Found(_)) ==
  LET conses == Walk(m, list)
      hits == {i \in 1 .. Len(conses) - 1 : Found(Car(m, conses[i]))}
  IN IF hits = {} THEN Hold(m, False) ELSE conses[Min(hits)]

Memq(m) ==
  LET n == PopTo(m, 2)
  IN Push(n, Search(n, Top(m), LAMBDA v : Same(v, OperandAt(m, 1))))

Assq(m) ==
  LET n == PopTo(m, 2)
      hit == Search(n, Top(m), LAMBDA v : Same(Car(n, v), OperandAt(m, 1)))
  IN Push(n, IF Same(hit, False) THEN hit ELSE Car(n, hit))

(* list-tail stops where a list ends. *)
ListTail(m) ==
  LET n == PopTo(m, 2)
      tail[i \in 0 .. Top(m).number] ==
        IF i = 0 THEN OperandAt(m, 1)
        ELSE LET v == tail[i - 1]
             IN IF ~IsPointer(v) \/ TagOfCdr(n, v) # PairType THEN v ELSE Cdr(n, v)
  IN Push(n, tail[Top(m).number])

(* Characters of the same code point are the same. *)
Eqv(m, v, w) ==
  \/ Same(v, w)
  \/ /\ IsPointer(v) /\ IsPointer(w)
     /\ TagOfCdr(m, v) = CharacterType /\ TagOfCdr(m, w) = CharacterType
     /\ Same(Car(m, v), Car(m, w))

(* Mutant: null and booleans are told apart by their fields. *)
EqualInnerOfFields(m, v, w) ==
  /\ IsPointer(v) /\ IsPointer(w)
  /\ TagOfCdr(m, v) = TagOfCdr(m, w)
  /\ IsPointer(Car(m, v)) \/ Same(Car(m, v), Car(m, w))

EqualInner(m, v, w) ==
  /\ IsPointer(v) /\ IsPointer(w)
  /\ TagOfCdr(m, v) = TagOfCdr(m, w)
  /\ TagOfCdr(m, v) \notin {BooleanType, NullType, SymbolType}
  /\ IsPointer(Car(m, v)) \/ Same(Car(m, v), Car(m, w))

-----------------------------------------------------------------------------
(* process-context/ and time/ *)

(* What a context gives.  The skip of one of the operating system leaves    *)
(* out the command that runs a program; who makes one of libc leaves it    *)
(* out as well.                                                            *)
OsProcessContext == [arguments |-> Tail(CommandLine), variables |-> Environment]
LibcProcessContext == [arguments |-> Tail(CommandLine), variables |-> <<>>]
MemoryProcessContext == [arguments |-> CommandLine, variables |-> Environment]
VoidProcessContext == [arguments |-> <<>>, variables |-> <<>>]

ProcessContext(kind) ==
  CASE kind = "os" -> OsProcessContext
    [] kind = "libc" -> LibcProcessContext
    [] kind = "memory" -> MemoryProcessContext
    [] kind = "void" -> VoidProcessContext

(* The times a clock may tell, whether it may refuse to, and its jiffies.  *)
(* One of the operating system refuses to tell times before its epoch.     *)
NANOSECONDS_PER_SECOND == Term(JIFFIES_PER_SECOND, <<>>)
OsClock == [now |-> Numbers \cap Nat, refuses |-> TRUE, jiffies |-> NANOSECONDS_PER_SECOND]
LibcClock == [now |-> Numbers \cap Nat, refuses |-> FALSE, jiffies |-> NANOSECONDS_PER_SECOND]
VoidClock == [now |-> {0}, refuses |-> FALSE, jiffies |-> Number(1)]

Clock(kind) ==
  CASE kind = "os" -> OsClock
    [] kind = "libc" -> LibcClock
    [] kind \in {"memory", "void"} -> VoidClock

(* Mutant: the list so far is in a variable of the primitive. *)
ReadCommandLineUnrooted(m, kind) ==
  LET arguments == Reverse(ProcessContext(kind).arguments)
      read[i \in 0 .. Len(arguments)] ==
        IF i = 0 THEN {<<m, Hold(m, Null)>>}
        ELSE UNION {{<<k, k.cons>> : k \in Then(BuildRawString(r[1], arguments[i]),
                       LAMBDA k : Allocate(k, k.cons, SetTag(r[2], PairType)))} : r \in read[i - 1]}
  IN UNION {Push(r[1], r[2]) : r \in read[Len(arguments)]}

ReadCommandLine(m, kind) ==
  LET arguments == Reverse(ProcessContext(kind).arguments)
      Read(n, argument) ==
        Then(Then(BuildRawString(n, argument), LAMBDA k : Allocate(k, k.cons, Register(k))),
             LAMBDA k : {SetRegister(k, k.cons)})
      read[i \in 0 .. Len(arguments)] ==
        IF i = 0 THEN {SetRegister(m, Hold(m, Null))}
        ELSE Then(read[i - 1], LAMBDA n : Read(n, arguments[i]))
  IN Then(read[Len(arguments)], LAMBDA n : Push(n, Register(n)))

(* A variable is in the list before its name and its value are.            *)
ReadEnvironment(m, kind) ==
  LET variables == ProcessContext(kind).variables
      Entry(n) == Car(n, Register(n))
      Extend(n) ==
        Then(Then(Allocate(n, Hold(n, Null), Hold(n, Null)),
                  LAMBDA k : Allocate(k, k.cons, Register(k))),
             LAMBDA k : {SetRegister(k, k.cons)})
      Read(n, name, value) ==
        Then(Then(Then(Then(Extend(n),
                            LAMBDA k : BuildRawString(k, name)),
                       LAMBDA k : {SetCar(k, Entry(k), k.cons)}),
                  LAMBDA k : BuildRawString(k, value)),
             LAMBDA k : {SetCdr(k, Entry(k), k.cons)})
      read[i \in 0 .. Len(variables)] ==
        IF i = 0 THEN {SetRegister(m, Hold(m, Null))}
        ELSE Then(read[i - 1], LAMBDA n : Read(n, variables[i][1], variables[i][2]))
  IN Then(read[Len(variables)], LAMBDA n : Push(n, Register(n)))

CurrentJiffy(m, kind) ==
  UNION {Push(m, Number(n)) : n \in Clock(kind).now}
    \cup IF Clock(kind).refuses THEN {Fail(m, "current jiffy")} ELSE {}

JiffiesPerSecond(m, kind) == Push(m, Clock(kind).jiffies)

-----------------------------------------------------------------------------
(* SmallPrimitiveSet::operate, of a memory alone. *)

Test(m, F(_, _)) == OperateTop(m, LAMBDA n, v : Boolean(n, F(n, v)))
Compare(m, F(_, _, _)) ==
  LET n == PopTo(m, 2) IN Push(n, Boolean(n, F(n, OperandAt(m, 1), Top(m))))

OperateNative(m, primitive) ==
  CASE primitive = NULL -> Test(m, LAMBDA n, v : IsNull(v))
    [] primitive = PAIR -> Test(m, LAMBDA n, v : IsPointer(v) /\ TagOfCdr(n, v) = PairType)
    [] primitive = ASSQ -> Assq(m)
    [] primitive = CONS -> PushRib(PopTo(m, 2), OperandAt(m, 1), Top(m), PairType)
    [] primitive = MEMQ -> Memq(m)
    [] primitive = TAIL -> ListTail(m)
    [] primitive = LENGTH -> OperateTop(m, LAMBDA n, v : Number(ListLength(n, v)))
    [] primitive = EQV -> Compare(m, Eqv)
    [] primitive = EQUAL_INNER -> Compare(m, EqualInner)
    [] primitive = QUOTIENT -> OperateBinary(m, LAMBDA v, w : Arithmetic(primitive, v, w))

OperateInexact(m, primitive) ==
  IF primitive \in {INFINITE, NAN}
  THEN Test(m, LAMBDA n, v : FALSE)
  ELSE OperateTop(m, LAMBDA n, v : Term(primitive, <<v.number>>))

OperateSmall(m, primitive, kind) ==
  CASE primitive = RIB -> PushRib(PopTo(m, 3), OperandAt(m, 2), OperandAt(m, 1), Top(m).number)
    [] primitive = IS_RIB -> Test(m, LAMBDA n, v : IsPointer(v))
    [] primitive = TAG -> OperateTop(m, LAMBDA n, v : Number(TagOfCdr(n, v)))
    [] primitive = LESS_THAN -> Compare(m, LAMBDA n, v, w : v.number < w.number)
    [] primitive \in SUBTRACT .. EXPT -> OperateBinary(m, LAMBDA v, w : Arithmetic(primitive, v, w))
    [] primitive = HALT -> {Fail(m, "halt")}
    [] primitive \in NULL .. QUOTIENT -> OperateNative(m, primitive)
    [] primitive = COMMAND_LINE -> ReadCommandLine(m, kind)
    [] primitive = ENVIRONMENT_VARIABLES -> ReadEnvironment(m, kind)
    [] primitive = CURRENT_JIFFY -> CurrentJiffy(m, kind)
    [] primitive = JIFFIES_PER_SECOND -> JiffiesPerSecond(m, kind)
    [] primitive \in EXPONENTIATION .. ATAN -> OperateInexact(m, primitive)
    [] OTHER -> Operate(m, primitive)

-----------------------------------------------------------------------------
(* Views: trees of what a memory holds, each node with its cons. *)

RECURSIVE View(_, _), Datum(_), IsList(_), ItemsOf(_), Within(_, _)
View(m, v) ==
  IF IsPointer(v) /\ "heap" \in DOMAIN v.object
  THEN [node |-> v.object, tag |-> v.tag, type |-> TagOfCdr(m, v),
        car |-> View(m, Car(m, v)), cdr |-> View(m, Cdr(m, v))]
  ELSE Keep(m, v)

IsNode(x) == "node" \in DOMAIN x
IsNil(x) == ~IsNode(x) /\ Same(x, Null)
IsPlain(x) == "number" \in DOMAIN x
IsTerm(x) == "term" \in DOMAIN x

(* Without identities. *)
Datum(x) ==
  CASE IsNode(x) -> [type |-> x.type, car |-> Datum(x.car), cdr |-> Datum(x.cdr)]
    [] ~IsNode(x) /\ IsPointer(x) -> x.object
    [] OTHER -> x

IsList(x) == IsNil(x) \/ (IsNode(x) /\ x.type = PairType /\ IsList(x.cdr))
ItemsOf(x) == IF IsNode(x) THEN <<x.car>> \o ItemsOf(x.cdr) ELSE <<>>
Within(node, x) == IsNode(x) /\ (x.node = node \/ Within(node, x.car) \/ Within(node, x.cdr))

StackView(m) == ItemsOf(View(m, Stack(m)))

-----------------------------------------------------------------------------
(* Programs. *)

Unary == {IS_RIB, CAR, CDR, TAG, NULL, PAIR, LENGTH} \cup EXPONENTIATION .. ATAN
Binary ==
  {UNBIND, SET_CAR, SET_CDR, ASSQ, CONS, MEMQ, TAIL, QUOTIENT} \cup EQUAL .. EXPT \cup {EQV, EQUAL_INNER}
OfContext == {COMMAND_LINE, ENVIRONMENT_VARIABLES, CURRENT_JIFFY, JIFFIES_PER_SECOND}
SmallPrimitives == {RIB, HALT} \cup Unary \cup Binary \cup OfContext

Kinds(primitive) == IF primitive \in OfContext THEN Context ELSE {"void"}

OperandCount(primitive) ==
  CASE primitive \in {HALT} \cup OfContext -> 0
    [] primitive \in Unary -> 1
    [] primitive \in Binary -> 2
    [] primitive = RIB -> 3

(* The operands of a primitive, the first one first, are what it is for:   *)
(* nothing makes a cycle, and what rib makes is a character.               *)
Suits(primitive, x) ==
  CASE primitive \in {CAR, CDR} -> IsNode(x[1])
    [] primitive = TAG -> IsPointer(x[1]) \/ IsNode(x[1])
    [] primitive = LENGTH -> IsList(x[1])
    [] primitive \in EXPONENTIATION .. ATAN -> IsPlain(x[1])
    [] primitive \in {SET_CAR, SET_CDR} -> IsNode(x[1]) /\ x[1].type = PairType /\ ~Within(x[1].node, x[2])
    [] primitive \in LESS_THAN .. EXPT \cup {QUOTIENT} ->
         /\ IsPlain(x[1]) /\ IsPlain(x[2])
         /\ primitive \in {DIVIDE, REMAINDER, QUOTIENT} => x[2].number # 0
    [] primitive = MEMQ -> IsList(x[2])
    [] primitive = ASSQ ->
         IsList(x[2]) /\ \A y \in Range(ItemsOf(x[2])) : IsNode(y) /\ y.type = PairType
    [] primitive = TAIL -> IsPlain(x[2]) /\ x[2].number >= 0
    [] primitive = RIB -> x[3] = Number(CharacterType) /\ IsPlain(x[1]) /\ x[1].number >= 0 /\ IsNil(x[2])
    [] OTHER -> TRUE

OperandsOf(primitive, held) == Reverse(SubSeq(held, 1, OperandCount(primitive)))

(* A program asks for its context with one value at hand, or none.         *)
HasRoom(primitive, held) ==
  /\ Len(held) - OperandCount(primitive) \in 0 .. MaxStack - 1
  /\ primitive \in OfContext => Len(held) <= 1

(* Values on the stack and conses are few, terms stand alone and negative  *)
(* numbers among numbers, and what fails leaves nothing on the stack.      *)
InBounds(held, nodes, e) ==
  /\ Len(held) <= MaxStack
  /\ \A x \in Range(held) : (IsPlain(x) => x.number \in Numbers) /\ (IsTerm(x) => Len(held) = 1)
  /\ \A x, y \in Range(held) : IsPlain(x) /\ x.number < 0 => IsPlain(y) /\ Len(held) <= 2
  /\ e # "none" => held = <<>>
  /\ Cardinality(Range(nodes)) <= MaxConses

RECURSIVE NodesOf(_)
NodesOf(x) == IF IsNode(x) THEN <<x.node>> \o NodesOf(x.car) \o NodesOf(x.cdr) ELSE <<>>

(* What a program can tell after an instruction: not where conses are, nor *)
(* the register, which everything that reads it has set first.             *)
Settled(m, nodes) ==
  LET Renamed(o) ==
        IF "heap" \in DOMAIN o THEN [heap |-> Min({i \in DOMAIN nodes : nodes[i] = o})] ELSE o
      Moved(v) == IF IsPointer(v) THEN [v EXCEPT !.object = Renamed(@)] ELSE v
      Former(p) == IF "heap" \in DOMAIN p THEN nodes[p.heap] ELSE p
      Fields(p) ==
        LET rib == m.fields[Former(p)] IN [car |-> Moved(rib.car), cdr |-> Moved(rib.cdr)]
  IN /\ stack' = Moved(m.stack)
     /\ fields' = [p \in {Renamed(o) : o \in Range(nodes)} \cup {Null.object, False.object, True.object}
                     |-> Fields(p)]
     /\ error' = m.error
     /\ UNCHANGED <<program, code, register, profile>>

Settle(m) ==
  \E view \in {View(m, Stack(m))} :
    \E nodes \in {NodesOf(view)} :
       InBounds(ItemsOf(view), nodes, m.error) /\ Settled(m, nodes)

PushConstant(v) ==
  /\ error = "none"
  /\ ListLength(Memory, Stack(Memory)) < MaxStack
  /\ \E m \in Push(Memory, Hold(Memory, v)) : Settle(m)

(* The primitives that suit what is on the stack.                          *)
Applicable(m) ==
  UNION {{p \in SmallPrimitives : HasRoom(p, held) /\ Suits(p, OperandsOf(p, held))} :
           held \in {StackView(m)}}

Apply(primitive, kind) ==
  /\ error = "none"
  /\ \E m \in OperateSmall(Memory, primitive, kind) : Settle(m)

(* integer->char of prelude.scm, of a constant, with one value at hand, or *)
(* none.                                                                   *)
PushCharacter(n) ==
  /\ error = "none"
  /\ ListLength(Memory, Stack(Memory)) <= 1
  /\ \E m \in Then(Then(Then(Push(Memory, Number(n)),
                         LAMBDA k : Push(k, Hold(k, Null))),
                    LAMBDA k : Push(k, Number(CharacterType))),
               LAMBDA k : OperateSmall(k, RIB, "void")) :
        Settle(m)

(* run_async, of an error that is not critical: its message is written     *)
(* into the register, in pieces.                                           *)
Written(m, pieces) ==
  LET written[i \in 0 .. Len(pieces)] ==
        IF i = 0 THEN {SetRegister([m EXCEPT !.error = "none"], Hold(m, Null))}
        ELSE Then(written[i - 1], LAMBDA n : WriteStr(n, pieces[i]))
  IN written[Len(pieces)]

IsCritical(e) == e \in {"none", "halt", "reported"}

WriteMessage(pieces) ==
  /\ ~IsCritical(error)
  /\ \E m \in Then(Written(Memory, pieces), LAMBDA n : {Fail(n, "reported")}) : Settle(m)

SmallInit ==
  /\ program \in Program
  /\ error = "none"
  /\ code = Null /\ stack = Null /\ register = NEVER /\ profile = <<>>
  /\ fields =
       [o \in {Null.object, False.object, True.object} |->
          IF o = Null.object
          THEN [car |-> Number(0), cdr |-> SetTag(Null, NullType)]
          ELSE [car |-> Null, cdr |-> SetTag(True, BooleanType)]]

SmallNext ==
  \/ \E v \in Quoted \cup {Number(n) : n \in Numbers} : PushConstant(v)
  \/ \E n \in Numbers \cap Nat : PushCharacter(n)
  \/ \E primitive \in Applicable(Memory) : \E kind \in Kinds(primitive) : Apply(primitive, kind)
  \/ \E pieces \in Messages : WriteMessage(pieces)

SmallSpec == SmallInit /\ [][SmallNext]_vars

-----------------------------------------------------------------------------
(* Properties. *)

(* What primitives mean, of views: functions of trees. *)
RECURSIVE MemqOf(_, _), AssqOf(_, _), TailAt(_, _), Updated(_, _, _, _), Equal(_, _, _)
SameView(x, y) == IF IsNode(x) /\ IsNode(y) THEN x.node = y.node ELSE ~IsNode(x) /\ ~IsNode(y) /\ Same(x, y)
Truth(b) == IF b THEN True ELSE False

MemqOf(x, list) ==
  CASE IsNil(list) -> False
    [] ~IsNil(list) /\ SameView(x, list.car) -> list
    [] OTHER -> MemqOf(x, list.cdr)

AssqOf(x, list) ==
  CASE IsNil(list) -> False
    [] ~IsNil(list) /\ SameView(x, list.car.car) -> list.car
    [] OTHER -> AssqOf(x, list.cdr)

TailAt(x, n) == IF n > 0 /\ IsNode(x) /\ x.type = PairType THEN TailAt(x.cdr, n - 1) ELSE x

(* A view after a field of a node was set. *)
Updated(x, node, field, v) ==
  CASE ~IsNode(x) -> x
    [] IsNode(x) /\ x.node = node -> [x EXCEPT ![field] = v]
    [] OTHER -> [x EXCEPT !.car = Updated(@, node, field, v), !.cdr = Updated(@, node, field, v)]

PairOf(d, e) == [type |-> PairType, car |-> d, cdr |-> e]
ListOf(data) == FoldRight(PairOf, data, Null.object)
String(points) == ListOf([i \in DOMAIN points |-> Number(points[i])])
Strings(names) == ListOf([i \in DOMAIN names |-> String(names[i])])

(* Programs see the command without the interpreter that runs it, and an   *)
(* environment as pairs.                                                   *)
CommandLineOf(kind) ==
  CASE kind = "void" -> <<>> [] kind = "memory" -> CommandLine [] OTHER -> Tail(CommandLine)

EnvironmentOf(kind) ==
  {PairOf(String(v[1]), String(v[2])) : v \in IF kind \in {"os", "memory"} THEN Range(Environment) ELSE {}}

RECURSIVE Data(_)
Data(list) == IF IsNode(list) THEN {Datum(list.car)} \cup Data(list.cdr) ELSE {}

(* What a test or a comparison is true of. *)
Holds(primitive, x) ==
  CASE primitive = NULL -> IsNil(x[1])
    [] primitive = PAIR -> IsNode(x[1]) /\ x[1].type = PairType
    [] primitive = IS_RIB -> IsNode(x[1]) \/ IsPointer(x[1])
    [] primitive = EQUAL -> SameView(x[1], x[2])
    [] primitive = EQV ->
         \/ SameView(x[1], x[2])
         \/ /\ \A i \in 1 .. 2 : IsNode(x[i]) /\ x[i].type = CharacterType
            /\ SameView(x[1].car, x[2].car)
    [] primitive = EQUAL_INNER ->
         /\ IsNode(x[1]) /\ IsNode(x[2]) /\ x[1].type = x[2].type
         /\ IsPlain(x[1].car) \/ IsTerm(x[1].car) => SameView(x[1].car, x[2].car)
    [] primitive = LESS_THAN -> x[2].number - x[1].number > 0
    [] primitive \in {INFINITE, NAN} -> FALSE

Tests == {NULL, PAIR, IS_RIB, EQUAL, EQV, EQUAL_INNER, LESS_THAN, INFINITE, NAN}

(* Division leaves what multiplication and addition make the dividend of,  *)
(* the quotient no further from zero than it.                              *)
Computes(primitive, n, k, v) ==
  CASE primitive = ADD -> v - k = n
    [] primitive = SUBTRACT -> v + k = n
    [] primitive = MULTIPLY -> v = n * k
    [] primitive = QUOTIENT -> Absolute(n - v * k) < Absolute(k) /\ Absolute(v * k) <= Absolute(n)
    [] primitive = REMAINDER ->
         /\ Absolute(v) < Absolute(k) /\ v * n >= 0
         /\ \E q \in -Absolute(n) .. Absolute(n) : n = q * k + v

Computed == {ADD, SUBTRACT, MULTIPLY, QUOTIENT, REMAINDER}

TypeOf(x) ==
  CASE IsNode(x) -> x.type
    [] IsNil(x) -> NullType
    [] OTHER -> BooleanType

(* The value that a primitive leaves where its operands were.              *)
Means(primitive, kind, x, value) ==
  CASE primitive \in Tests -> value = Truth(Holds(primitive, x))
    [] primitive \in Computed -> IsPlain(value) /\ Computes(primitive, x[1].number, x[2].number, value.number)
    [] primitive \in {DIVIDE, EXPT} -> value = Term(primitive, <<x[1].number, x[2].number>>)
    [] primitive \in (EXPONENTIATION .. ATAN) \ Tests -> value = Term(primitive, <<x[1].number>>)
    [] primitive = CAR -> value = x[1].car
    [] primitive = CDR -> value = x[1].cdr
    [] primitive = TAG -> value = Number(TypeOf(x[1]))
    [] primitive = MEMQ -> value = MemqOf(x[1], x[2])
    [] primitive = ASSQ -> value = AssqOf(x[1], x[2])
    [] primitive = TAIL -> value = TailAt(x[1], x[2].number)
    [] primitive = LENGTH -> value = Number(Len(ItemsOf(x[1])))
    [] primitive = CONS -> value.type = PairType /\ value.car = x[1] /\ SameView(value.cdr, x[2])
    [] primitive = RIB -> value.type = x[3].number /\ value.car = x[1] /\ SameView(value.cdr, x[2])
    [] primitive \in {UNBIND, SET_CAR, SET_CDR} -> value = x[2]
    [] primitive = COMMAND_LINE -> Datum(value) = Strings(CommandLineOf(kind))
    [] primitive = ENVIRONMENT_VARIABLES -> IsList(value) /\ Data(value) = EnvironmentOf(kind)
    [] primitive = CURRENT_JIFFY ->
         IsPlain(value) /\ value.number \in IF kind \in {"os", "libc"} THEN Numbers \cap Nat ELSE {0}
    [] primitive = JIFFIES_PER_SECOND ->
         value = IF kind \in {"os", "libc"} THEN NANOSECONDS_PER_SECOND ELSE Number(1)

(* Whichever primitive a program applies next, and wherever it collects:   *)
(* the operands leave the stack, the value that their views determine      *)
(* takes their place, a cons with the identity it had, and what else the   *)
(* program holds is as it was, but for a field that was set wherever it is *)
(* seen; the message of an error is all that was written (memory.rs:473).  *)
ValuesArrive ==
  /\ error = "none" =>
       \A held \in {StackView(Memory)}, primitive \in Applicable(Memory) \ {HALT} :
       \A x \in {OperandsOf(primitive, held)}, kind \in Kinds(primitive) :
         LET count == OperandCount(primitive)
             Seen(v) == CASE primitive = SET_CAR -> Updated(v, x[1].node, "car", x[2])
                          [] primitive = SET_CDR ->
                               Updated(v, x[1].node, "cdr", SetTag(x[2], PairType))
                          [] OTHER -> v
         IN \A m \in OperateSmall(Memory, primitive, kind) : m.error # "current jiffy" =>
              \E after \in {StackView(m)} :
              /\ m.error = "none"
              /\ Means(primitive, kind, x, Head(after))
              /\ Tail(after) = [i \in 1 .. Len(held) - count |-> Seen(held[count + i])]
  /\ ~IsCritical(error) =>
       \A pieces \in Messages : \A m \in Written(Memory, pieces) :
         Datum(View(m, Register(m))) = String(FlattenSeq(pieces))

(* equal? of prelude.scm. *)
Equal(m, v, w) ==
  \/ Same(v, w)
  \/ /\ EqualInner(m, v, w)
     /\ Equal(m, Car(m, v), Car(m, w))
     /\ Equal(m, Cdr(m, v), Cdr(m, w))

(* The primitive that equal? is made of skips the fields it need not look   *)
(* at (equal.rs:60): values are equal? when they look the same, and eq?     *)
(* values are eqv?, which are equal?.                                      *)
EqualAgrees ==
  \A i, j \in 0 .. Len(StackView(Memory)) - 1 :
    \A v \in {OperandAt(Memory, i)}, w \in {OperandAt(Memory, j)} :
       /\ Equal(Memory, v, w) <=> Datum(View(Memory, v)) = Datum(View(Memory, w))
       /\ Same(v, w) => Eqv(Memory, v, w)
       /\ Eqv(Memory, v, w) => Equal(Memory, v, w)

-----------------------------------------------------------------------------
(* For TLC: stacks of up to three values, of conses that may be shared. *)
SmallImage == [none |-> 0]
SmallNumbers == {-4, 1, 6}
SmallQuoted == {Null}
SmallCommandLine == <<<<1>>, <<6>>>>
SmallEnvironment == <<<<<<1>>, <<6>>>>>>
SmallMessages == {<<<<1>>>>, <<<<1>>, <<>>, <<0, 1>>>>, <<<<>>, <<0>>>>}

=============================================================================
