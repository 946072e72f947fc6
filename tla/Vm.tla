---------------------------------- MODULE Vm ----------------------------------
(***************************************************************************)
(* The interpreter of the virtual machine, vm/src/vm.rs, and the           *)
(* primitives of r7rs/src/small.rs that closures and continuations are     *)
(* made of.  One action is one turn of the loop of run_with_continuation:  *)
(* the whole instruction and advance_code.                                 *)
(*                                                                         *)
(* A profiler, where there is one, writes a line for each call and return  *)
(* of a procedure: profiler/src/stack_profiler.rs.                         *)
(*                                                                         *)
(* The memory is the graph of conses of ObjectGraph.  Any allocation may   *)
(* collect, which moves every cons: a Rust variable that holds a cons from *)
(* before is stale.  A pointer that an instruction holds therefore carries *)
(* the epoch of the memory it was read in, a stale one reads and writes    *)
(* garbage, and the code threads its variables as the source does.         *)
(* Between instructions only reachable conses are kept, for no instruction *)
(* can tell; code and constants are immutable and need no cons, their      *)
(* fields are computed from what they are.                                 *)
(***************************************************************************)
EXTENDS Integers, Sequences, FiniteSets, TLC

CONSTANTS
  Program,  \* names of programs
  Profiled, \* those that run under a profiler
  Image     \* program -> its code, and its global variables with their values

VARIABLES
  program,   \* the program that runs
  code, stack, register,  \* the roots
  fields,    \* cons -> car and cdr, the symbols and constants included
  error,     \* what run_with_continuation returned, "none" while it runs
  profile    \* the lines that the profiler has written

vars == <<program, code, stack, register, fields, error, profile>>

Profile == INSTANCE Profiler

(* Type and StackSlot: the tags that the interpreter looks at. *)
PairType == 0
ProcedureType == 3
SymbolType == 4
FrameSlot == 1

(* Instruction *)
CONSTANT_ == 0
GET_ == 1
SET_ == 2
IF_ == 3
CALL_ == 4

(* Primitive *)
CLOSE == 1
UNBIND == 2
CAR == 4
CDR == 5
SET_CAR == 7
SET_CDR == 8
EQUAL == 9
ADD == 11

-----------------------------------------------------------------------------
(* Values.  A pointer in memory has no epoch. *)

Number(n) == [number |-> n]
Pointer(object, tag) == [object |-> object, tag |-> tag]
Garbage == [garbage |-> TRUE]

IsPointer(v) == "object" \in DOMAIN v
SetTag(v, t) == IF IsPointer(v) THEN [v EXCEPT !.tag = t] ELSE v
TagOf(v) == IF IsPointer(v) THEN v.tag ELSE 0

(* PartialEq for Value: tags do not count. *)
Same(v, w) == IF IsPointer(v) /\ IsPointer(w) THEN v.object = w.object ELSE v = w

Symbol(x) == [symbol |-> x]
Null == Pointer(Symbol("()"), 0)
False == Pointer(Symbol("#f"), 0)
True == Pointer(Symbol("#t"), 0)
NEVER == Pointer(Symbol("never"), 0)

CodePointer(codes, tag) ==
  IF codes = <<>> THEN SetTag(Null, tag) ELSE Pointer([code |-> codes], tag)

OperandValue(x) ==
  CASE "literal" \in DOMAIN x -> IF "number" \in DOMAIN x.literal
                                  THEN x.literal
                                  ELSE Pointer(x.literal, PairType)
    [] "primitive" \in DOMAIN x -> Pointer(x, PairType)
    [] "slot" \in DOMAIN x -> Number(x.slot)
    [] "global" \in DOMAIN x -> Pointer(Symbol(x.global), SymbolType)
    [] "procedure" \in DOMAIN x -> Pointer(x, PairType)
    [] "branch" \in DOMAIN x -> CodePointer(x.branch, 0)

(* The fields of what is not in the heap: code, (arity . code), procedures *)
(* before they are closed, and primitives.                                 *)
Static(o) ==
  CASE "code" \in DOMAIN o ->
         [car |-> OperandValue(Head(o.code).operand),
          cdr |-> CodePointer(Tail(o.code), Head(o.code).tag)]
    [] "procedure" \in DOMAIN o ->
         [car |-> Pointer([body |-> o.procedure], PairType), cdr |-> SetTag(Null, ProcedureType)]
    [] "body" \in DOMAIN o ->
         [car |-> Number(o.body.arity), cdr |-> CodePointer(o.body.code, PairType)]
    [] "primitive" \in DOMAIN o ->
         [car |-> Number(o.primitive), cdr |-> SetTag(Null, ProcedureType)]
    [] OTHER -> [car |-> Garbage, cdr |-> Garbage]

-----------------------------------------------------------------------------
(* The memory inside an instruction, a record m of the roots, the fields,  *)
(* the epoch, the cons that allocate returned last and an error.           *)

Hold(m, v) == IF IsPointer(v) THEN [object |-> v.object, tag |-> v.tag, epoch |-> m.epoch] ELSE v
Fresh(m, v) == IsPointer(v) /\ v.epoch = m.epoch
Keep(m, v) ==
  CASE ~IsPointer(v) -> v
    [] IsPointer(v) /\ v.epoch = m.epoch -> Pointer(v.object, v.tag)
    [] OTHER -> Garbage

Rib(m, o) == IF o \in DOMAIN m.fields THEN m.fields[o] ELSE Static(o)

Car(m, c) == IF Fresh(m, c) THEN Hold(m, Rib(m, c.object).car) ELSE Garbage
Cdr(m, c) == IF Fresh(m, c) THEN Hold(m, Rib(m, c.object).cdr) ELSE Garbage

Code(m) == Hold(m, m.code)
Stack(m) == Hold(m, m.stack)
Register(m) == Hold(m, m.register)

SetCode(m, c) == [m EXCEPT !.code = Keep(m, c)]
SetStack(m, c) == [m EXCEPT !.stack = Keep(m, c)]
SetRegister(m, c) == [m EXCEPT !.register = Keep(m, c)]

Fail(m, e) == [m EXCEPT !.error = e]

(* A write through a stale pointer, or into what no program may change.    *)
Writable(m, c) == Fresh(m, c) /\ c.object \in DOMAIN m.fields

SetCar(m, c, v) ==
  IF Writable(m, c)
  THEN [m EXCEPT !.fields[c.object].car = Keep(m, v)]
  ELSE Fail(m, "fault")

(* The tag that is there stays. *)
SetCdr(m, c, v) ==
  IF Writable(m, c)
  THEN [m EXCEPT !.fields[c.object].cdr = SetTag(Keep(m, v), TagOf(m.fields[c.object].cdr))]
  ELSE Fail(m, "fault")

(* The conses that a memory's roots reach.  TLC evaluates what a set is    *)
(* mapped from once, hence the sets of one element here and below.         *)
HeapPointers(S) == {v.object : v \in {w \in S : IsPointer(w)}}

Reachable(m, extra) ==
  LET Constants == {o \in DOMAIN m.fields : "symbol" \in DOMAIN o}
      Ribs(S) ==
        HeapPointers({m.fields[o].car : o \in S} \cup {m.fields[o].cdr : o \in S})
          \cap DOMAIN m.fields
      roots == HeapPointers({m.code, m.stack, m.register} \cup extra) \cap DOMAIN m.fields
      reach[n \in 0 .. Cardinality(DOMAIN m.fields)] ==
        IF n = 0
        THEN {<<{}, Constants \cup roots>>}
        ELSE {IF r[2] = {} THEN r ELSE <<r[1] \cup r[2], Ribs(r[2]) \ (r[1] \cup r[2])>> :
                r \in reach[n - 1]}
  IN UNION {r[1] \cup r[2] : r \in reach[Cardinality(DOMAIN m.fields)]}

WithoutGarbage(m, extra) ==
  UNION {{[o \in R |-> m.fields[o]]} : R \in {Reachable(m, extra)}}

Collected(m, extra) ==
  {[m EXCEPT !.fields = f, !.epoch = @ + 1] : f \in WithoutGarbage(m, extra)}

(* A cons that is not in use. *)
NewObject(m) ==
  LET used == {o.heap : o \in {p \in DOMAIN m.fields \cup DOMAIN fields : "heap" \in DOMAIN p}}
  IN {[heap |-> i] : i \in {CHOOSE i \in 1 .. Cardinality(used) + 1 : i \notin used}}

(* Memory::allocate returns the new cons, with or without a collection.    *)
Allocate(m, car, cdr) ==
  LET Written(o) ==
        [m EXCEPT !.fields =
           [p \in DOMAIN m.fields \cup {o} |->
              IF p = o THEN [car |-> Keep(m, car), cdr |-> Keep(m, cdr)] ELSE m.fields[p]]]
  IN UNION {{[k EXCEPT !.cons = Hold(k, Pointer(o, PairType))] :
               k \in UNION {{n} \cup Collected(n, {Pointer(o, PairType)}) : n \in {Written(o)}}} :
              o \in NewObject(m)}

(* F of the memories of S, unless something failed: the ? of the source.   *)
Then(S, F(_)) == UNION {IF m.error = "none" THEN F(m) ELSE {m} : m \in S}

Push(m, v) ==
  Then(Allocate(m, v, SetTag(Stack(m), PairType)), LAMBDA n : {SetStack(n, n.cons)})

(* top and pop *)
Top(m) == Car(m, Stack(m))
Pop(m) == SetStack(m, Cdr(m, Stack(m)))

-----------------------------------------------------------------------------
(* What an instruction looks up. *)

(* Memory::tail *)
TailOf(m, list, n) ==
  LET tail[i \in 0 .. n] == IF i = 0 THEN list ELSE Cdr(m, tail[i - 1])
  IN tail[n]

NumberOf(v) == IF "number" \in DOMAIN v THEN v.number ELSE 0

Operand(m) == Car(m, Code(m))
OperandCons(m) ==
  IF IsPointer(Operand(m)) THEN Operand(m)
  ELSE TailOf(m, Stack(m), NumberOf(Operand(m)))

(* The frame of the running procedure is the first cons of the stack whose *)
(* cdr says so; its car is the continuation.                               *)
Continuation(m) ==
  LET walk[n \in 0 .. Cardinality(DOMAIN m.fields)] ==
        IF n = 0 THEN {Stack(m)}
        ELSE {IF TagOf(Cdr(m, c)) = FrameSlot THEN c ELSE Cdr(m, c) : c \in walk[n - 1]}
  IN Car(m, CHOOSE c \in walk[Cardinality(DOMAIN m.fields)] : TRUE)

-----------------------------------------------------------------------------
(* StackProfiler.  The clock counts lines. *)

(* The name of the procedure that an instruction calls, if it is that of a *)
(* global variable whose symbol has kept its name in the bytecode.         *)
WriteProcedure(m, c) ==
  LET operand == Car(m, c)
  IN IF IsPointer(operand) /\ "symbol" \in DOMAIN operand.object
     THEN operand.object.symbol
     ELSE Profile!Unnamed

(* The calls that the frames on the stack return to, the innermost first.  *)
WriteStack(m) ==
  LET Frame(w) ==
        IF TagOf(Cdr(m, w.stack)) = FrameSlot
        THEN [frames |-> Append(w.frames, WriteProcedure(m, Car(m, Car(m, w.stack)))),
              stack |-> Cdr(m, Car(m, w.stack))]
        ELSE [w EXCEPT !.stack = Cdr(m, w.stack)]
      walk[n \in 0 .. Cardinality(DOMAIN m.fields)] ==
        IF n = 0
        THEN {[frames |-> <<>>, stack |-> Stack(m)]}
        ELSE {IF Same(w.stack, Null) THEN w ELSE Frame(w) : w \in walk[n - 1]}
  IN (CHOOSE w \in walk[Cardinality(DOMAIN m.fields)] : TRUE).frames

WriteLine(m, operation, frames) ==
  IF program \in Profiled
  THEN [m EXCEPT !.profile =
          Append(@, <<operation, Profile!StackDisplay(frames, <<>>), Len(@) + 1>>)]
  ELSE m

ProfileCall(m, tail) ==
  WriteLine(m, IF tail THEN "return_call" ELSE "call",
            <<WriteProcedure(m, Code(m))>> \o WriteStack(m))

ProfileReturn(m) == WriteLine(m, "return", WriteStack(m))

ProfileEvents(names) == [i \in DOMAIN names |-> <<names[i], i>>]

-----------------------------------------------------------------------------
(* The end of an instruction. *)

(* Mutant: the frame stays on the stack, under the value. *)
AdvanceCodeOnFrame(m) ==
  LET next == Cdr(m, Code(m))
  IN {SetCode(m, IF ~Same(next, Null) THEN next ELSE Cdr(m, Car(m, Continuation(m))))}

(* Mutant: the call that is returned from runs again. *)
AdvanceCodeToCall(m) ==
  LET next == Cdr(m, Code(m))
      returning == ProfileReturn(m)
      continuation == Continuation(returning)
      kept == SetCdr(returning, Stack(returning), Cdr(returning, continuation))
  IN IF ~Same(next, Null)
     THEN {SetCode(m, next)}
     ELSE {SetCode(kept, Car(kept, continuation))}

(* advance_code: the next instruction, or at the end of the code the one   *)
(* after the call that is returned from, with the value kept on the stack. *)
AdvanceCode(m) ==
  LET next == Cdr(m, Code(m))
      returning == ProfileReturn(m)
      continuation == Continuation(returning)
      kept == SetCdr(returning, Stack(returning), Cdr(returning, continuation))
  IN IF ~Same(next, Null)
     THEN {SetCode(m, next)}
     ELSE {SetCode(kept, Cdr(kept, Car(kept, continuation)))}

-----------------------------------------------------------------------------
(* Primitives. *)

(* $$close: the code of the procedure with the stack as its environment.   *)
Close(m) ==
  LET closure == Top(m)
      n == Pop(m)
  IN Then(Allocate(n, Car(n, closure), SetTag(Stack(n), ProcedureType)),
          LAMBDA k : Push(k, k.cons))

Unbind(m) == Push(Pop(Pop(m)), Top(m))

(* operate_top and operate_binary *)
OperateTop(m, F(_, _)) == Push(Pop(m), F(Pop(m), Top(m)))
OperateBinary(m, F(_, _)) == Push(Pop(Pop(m)), F(Top(Pop(m)), Top(m)))

SetField(m, F(_, _, _)) ==
  Then({F(Pop(Pop(m)), Top(Pop(m)), Top(m))}, LAMBDA n : Push(n, Top(m)))

Boolean(m, b) == Hold(m, IF b THEN True ELSE False)
Sum(v, w) ==
  IF "number" \in DOMAIN v /\ "number" \in DOMAIN w
  THEN Number(v.number + w.number)
  ELSE Garbage

Operate(m, primitive) ==
  CASE primitive = CLOSE -> Close(m)
    [] primitive = UNBIND -> Unbind(m)
    [] primitive = CAR -> OperateTop(m, Car)
    [] primitive = CDR -> OperateTop(m, Cdr)
    [] primitive = SET_CAR -> SetField(m, SetCar)
    [] primitive = SET_CDR -> SetField(m, SetCdr)
    [] primitive = EQUAL -> OperateBinary(m, LAMBDA x, y : Boolean(m, Same(x, y)))
    [] primitive = ADD -> OperateBinary(m, Sum)

-----------------------------------------------------------------------------
(* call *)

Arity(info) == [count |-> info \div 2, variadic |-> info % 2 = 1]
BuildArity(arity) == 2 * arity.count + (IF arity.variadic THEN 1 ELSE 0)

(* The arguments are moved from the stack to a list.  A memory m stands    *)
(* with the list in m.cons.                                                *)
TakeArguments(m, arguments) ==
  LET start == IF arguments.variadic
               THEN [Pop(m) EXCEPT !.cons = Top(m)]
               ELSE [m EXCEPT !.cons = Hold(m, Null)]
      Take(n) == Allocate(Pop(n), Top(n), SetTag(n.cons, PairType))
      taken[i \in 0 .. arguments.count] ==
        IF i = 0 THEN {start} ELSE Then(taken[i - 1], Take)
  IN taken[arguments.count]

(* From the list in the register to the stack of the procedure.            *)
PassArguments(m, parameters) ==
  LET Pass(n) ==
        IF Same(Register(n), Null)
        THEN {Fail(n, "argument count")}
        ELSE Then(Push(n, Car(n, Register(n))),
                  LAMBDA k : {SetRegister(k, Cdr(k, Register(k)))})
      passed[i \in 0 .. parameters.count] ==
        IF i = 0 THEN {m} ELSE Then(passed[i - 1], Pass)
      Rest(n) ==
        CASE parameters.variadic -> Push(n, Register(n))
          [] ~parameters.variadic /\ Same(Register(n), Null) -> {n}
          [] OTHER -> {Fail(n, "argument count")}
  IN Then(passed[parameters.count], Rest)

(* The register and the code field keep the procedure and its arguments    *)
(* over the allocations.  A call at the end of the code passes the         *)
(* continuation of the running procedure on and drops its frame.           *)
EnterProcedure(m, procedure, tail, arguments) ==
  LET parameters == Arity(NumberOf(Car(m, Car(m, procedure))))
      PushContinuation(n) ==
        LET codes == Code(n)
            list == n.cons
            escaped == SetRegister(SetCode(n, Register(n)), list)
        IN IF tail
           THEN {[escaped EXCEPT !.cons = Continuation(escaped)]}
           ELSE Allocate(escaped, codes, Stack(escaped))
      PushFrame(n) ==
        Allocate(n, n.cons, SetTag(Cdr(n, Code(n)), FrameSlot))
      Enter(n) ==
        LET framed == SetStack(n, n.cons)
        IN PassArguments(SetCode(framed, Car(framed, Code(framed))), parameters)
  IN Then(Then(Then(TakeArguments(SetRegister(m, procedure), arguments),
                    PushContinuation),
               PushFrame),
          Enter)

(* Mutant: the rest of the list is not in the register. *)
SpreadArgumentsUnrooted(m) ==
  LET Spread(n) ==
        IF Same(n.cons, Null)
        THEN {n}
        ELSE Then(Push(n, Car(n, n.cons)),
                  LAMBDA k : {[k EXCEPT !.cons = Cdr(k, n.cons)]})
      spread[i \in 0 .. Cardinality(DOMAIN m.fields)] ==
        IF i = 0 THEN {[Pop(m) EXCEPT !.cons = Top(m)]} ELSE Then(spread[i - 1], Spread)
  IN spread[Cardinality(DOMAIN m.fields)]

(* A list of arguments goes back to the stack. *)
SpreadArguments(m) ==
  LET Spread(n) ==
        IF Same(Register(n), Null)
        THEN {n}
        ELSE Then(Push(n, Car(n, Register(n))),
                  LAMBDA k : {SetRegister(k, Cdr(k, Register(k)))})
      spread[i \in 0 .. Cardinality(DOMAIN m.fields)] ==
        IF i = 0 THEN {SetRegister(Pop(m), Top(m))} ELSE Then(spread[i - 1], Spread)
  IN spread[Cardinality(DOMAIN m.fields)]

EnterPrimitive(m, primitive, arguments) ==
  Then(IF arguments.variadic THEN SpreadArguments(m) ELSE {m},
       LAMBDA n : Operate(n, primitive))

-----------------------------------------------------------------------------
(* The instructions, as actions. *)

Memory ==
  [code |-> code, stack |-> stack, register |-> register, fields |-> fields,
   error |-> error, profile |-> profile, epoch |-> 0, cons |-> Garbage]

InstructionTag == TagOf(Cdr(Memory, Code(Memory)))

(* What an instruction leaves, without its garbage. *)
Become(m) ==
  /\ code' = m.code
  /\ stack' = m.stack
  /\ register' = m.register
  /\ fields' \in WithoutGarbage(m, {})
  /\ error' = m.error
  /\ profile' = m.profile
  /\ UNCHANGED program

Running == error = "none" /\ IsPointer(code) /\ code.object # Null.object

Advance(S) == \E m \in Then(S, AdvanceCode) : Become(m)

Constant ==
  /\ Running
  /\ InstructionTag = CONSTANT_
  /\ Advance(Push(Memory, Operand(Memory)))

Get ==
  /\ Running
  /\ InstructionTag = GET_
  /\ Advance(Push(Memory, Car(Memory, OperandCons(Memory))))

Set ==
  /\ Running
  /\ InstructionTag = SET_
  /\ Advance({SetCar(Pop(Memory), OperandCons(Memory), Top(Memory))})

(* The cons popped from the stack becomes a cons of code, whose rest is    *)
(* the branch.                                                             *)
If ==
  /\ Running
  /\ InstructionTag = IF_
  /\ LET cons == Stack(Memory)
         branched == SetCode(SetCdr(Pop(Memory), cons, Operand(Memory)), cons)
     IN Advance({IF Same(Top(Memory), False) THEN Pop(Memory) ELSE branched})

CallOperand == Car(Memory, OperandCons(Memory))
IsProcedure(c) == TagOf(Cdr(Memory, c)) = ProcedureType
IsPrimitive(c) == IsProcedure(c) /\ "number" \in DOMAIN Car(Memory, c)

IsTail == Same(Cdr(Memory, Code(Memory)), Null)

CallProcedure ==
  /\ Running
  /\ InstructionTag >= CALL_
  /\ IsProcedure(CallOperand) /\ ~IsPrimitive(CallOperand)
  /\ Advance(EnterProcedure(ProfileCall(Memory, IsTail), CallOperand, IsTail,
                            Arity(InstructionTag - CALL_)))

CallPrimitive ==
  /\ Running
  /\ InstructionTag >= CALL_
  /\ IsPrimitive(CallOperand)
  /\ Advance(EnterPrimitive(Memory, Car(Memory, CallOperand).number,
                            Arity(InstructionTag - CALL_)))

CallOther ==
  /\ Running
  /\ InstructionTag >= CALL_
  /\ ~IsProcedure(CallOperand)
  /\ Become(Fail(Memory, "procedure expected"))

(* run_async: an error that is not critical goes to the handler in the cdr *)
(* of null, by way of two instructions put before the code: one that       *)
(* pushes the message and one that calls the handler.                      *)
Handler(m) == Cdr(m, Hold(m, Null))

(* Errors of the interpreter: is_critical of the others ends a program.     *)
Recoverable == {"argument count", "procedure expected"}

Handled ==
  /\ error \in Recoverable
  /\ TagOf(Cdr(Memory, Handler(Memory))) = ProcedureType

HandleError ==
  /\ Handled
  /\ LET m == [Memory EXCEPT !.error = "none"]
         handler == SetRegister(m, Handler(m))
         BuildString(n) == Allocate(n, Number(0), SetTag(Hold(n, Null), 5))
         BuildSymbol(n) == Allocate(n, Register(n), SetTag(n.cons, SymbolType))
         PrependCall(n) ==
           Then(Allocate(n, n.cons,
                         SetTag(Code(n), CALL_ + BuildArity([count |-> 1, variadic |-> FALSE]))),
                LAMBDA k : {SetRegister(SetCode(k, k.cons), Hold(k, Null))})
         WriteMessage(n) ==
           Then(Allocate(n, Number(0), Hold(n, Null)),
                LAMBDA k : {SetRegister(k, k.cons)})
         PrependConstant(n) ==
           Then(Allocate(n, Register(n), SetTag(Code(n), CONSTANT_)),
                LAMBDA k : {SetCode(k, k.cons)})
     IN \E n \in Then(Then(Then(Then(BuildString(handler), BuildSymbol),
                                PrependCall), WriteMessage), PrependConstant) :
          Become(n)

(* initialize: the program is decoded and has a frame of its own, whose    *)
(* continuation has nothing to run.                                        *)
Init ==
  /\ program \in Program
  /\ error = "none"
  /\ code = CodePointer(Image[program].code, 0)
  /\ stack = Pointer([heap |-> 3], PairType)
  /\ register = NEVER
  /\ profile = IF program \in Profiled
               THEN ProfileEvents(<<"initialization_start", "decode_start",
                                    "decode_end", "initialization_end">>)
               ELSE <<>>
  /\ fields =
       [o \in {[heap |-> i] : i \in 1 .. 3}
                \cup {Symbol(x) : x \in DOMAIN Image[program].globals \cup {"()", "#f", "#t"}} |->
          CASE o = [heap |-> 1] -> [car |-> Number(0), cdr |-> Null]
            [] o = [heap |-> 2] -> [car |-> Pointer([heap |-> 1], PairType), cdr |-> Null]
            [] o = [heap |-> 3] ->
                 [car |-> Pointer([heap |-> 2], PairType), cdr |-> SetTag(Null, FrameSlot)]
            [] o = Null.object -> [car |-> Number(0), cdr |-> Null]
            [] o \in {False.object, True.object} -> [car |-> Null, cdr |-> True]
            [] OTHER ->
                 [car |-> OperandValue(Image[program].globals[o.symbol]), cdr |-> Null]]

(* run returns to its caller. *)
Ended == ~Running /\ ~Handled
Halt == Ended /\ UNCHANGED vars

Next ==
  \/ Constant \/ Get \/ Set \/ If
  \/ CallProcedure \/ CallPrimitive \/ CallOther
  \/ HandleError
  \/ Halt

(* The loop of run_with_continuation waits for nobody: until the program   *)
(* has ended it takes another turn.  Where nothing is stuck, which is      *)
(* checked as the absence of deadlock, this is WF_vars(Next).              *)
Fairness == []<>Ended \/ []<><<TRUE>>_vars

Spec == Init /\ [][Next]_vars /\ Fairness

-----------------------------------------------------------------------------
(* What an instruction finds. *)

IsStatic(o) == ~("heap" \in DOMAIN o) /\ ~("symbol" \in DOMAIN o)
InHeap(f, v) == IsPointer(v) /\ v.object \in DOMAIN f
Readable(f, v) == IsPointer(v) /\ (v.object \in DOMAIN f \/ IsStatic(v.object))
PointsTo(v, o) == IsPointer(v) /\ v.object = o

(* Conses p, each in the cdr of the next one, the n-th in v. *)
IsChain(f, v, p, n) ==
  /\ \A i \in 1 .. n : p[i] \in DOMAIN f
  /\ n > 0 => PointsTo(v, p[n])
  /\ \A i \in 2 .. n : PointsTo(f[p[i]].cdr, p[i - 1])
  /\ \A i, j \in 1 .. n : p[i] = p[j] => i = j

(* A stack down to the frame of the running procedure. *)
IsStack(f, v, p, n) ==
  /\ IsChain(f, v, p, n)
  /\ n > 0
  /\ \A i \in 1 .. n : TagOf(f[p[i]].cdr) = FrameSlot <=> i = 1

IsListOf(f, v, p, n) ==
  /\ IsChain(f, v, p, n)
  /\ \A i \in 1 .. n : p[i] # Null.object
  /\ Same(IF n = 0 THEN v ELSE f[p[1]].cdr, Null)

(* The frame o has a call to return to. *)
IsFrame(f, o) == InHeap(f, f[o].car) /\ Readable(f, f[f[o].car.object].car)

Assign(f, v, w) == [f EXCEPT ![v.object].car = w]

(* The parts of the programs, code, procedures and primitives: what stands *)
(* in one is a number, a symbol or a part.                                 *)
Lasting(parts, v) ==
  \/ NumberOf(v) \in Int /\ v = Number(NumberOf(v))
  \/ /\ IsPointer(v)
     /\ v.tag \in Nat /\ v = Pointer(v.object, v.tag)
     /\ \/ v.object \in parts
        \/ "symbol" \in DOMAIN v.object /\ v.object = Symbol(v.object.symbol)

Compiled(parts) ==
  /\ \A o \in parts :
       IsStatic(o) /\ Lasting(parts, Static(o).car) /\ Lasting(parts, Static(o).cdr)
  /\ \A x \in Program :
       /\ Lasting(parts, CodePointer(Image[x].code, 0))
       /\ IsFiniteSet(DOMAIN Image[x].globals)
       /\ \A g \in DOMAIN Image[x].globals : Lasting(parts, OperandValue(Image[x].globals[g]))

(* What a primitive is for: x are its operands, the last first, conses p   *)
(* of the stack, o the frame.                                              *)
Fits(primitive, x, stacked, o) ==
  CASE primitive \in {CLOSE, CAR, CDR} -> Len(x) > 0 /\ Readable(fields, x[1])
    [] primitive \in {UNBIND, EQUAL} -> Len(x) > 1
    [] primitive = ADD -> Len(x) > 1 /\ ~IsPointer(x[1]) /\ ~IsPointer(x[2])
    [] primitive = SET_CAR ->
         Len(x) > 1 /\ InHeap(fields, x[2]) /\ IsFrame(Assign(fields, x[2], x[1]), o)
    [] primitive = SET_CDR -> Len(x) > 1 /\ InHeap(fields, x[2]) /\ x[2].object \notin stacked
    [] OTHER -> FALSE

(* n conses of a list or of the stack, from the end. *)
ConsesOf(v, n) ==
  [i \in 1 .. n |->
     LET c == TailOf(Memory, Hold(Memory, v), n - i) IN IF IsPointer(c) THEN c.object ELSE c]

ProcedureFits(arguments, p, n) ==
  /\ Readable(fields, Car(Memory, CallOperand))
  /\ NumberOf(Car(Memory, Car(Memory, CallOperand))) \in Nat
  /\ IF arguments.variadic
     THEN /\ n > arguments.count + 1
          /\ \E k \in 0 .. Cardinality(DOMAIN fields) : \E l \in {ConsesOf(fields[p[n]].car, k)} :
               IsListOf(fields, fields[p[n]].car, l, k)
     ELSE n > arguments.count

PrimitiveFits(arguments, p, n) ==
  LET primitive == Car(Memory, CallOperand).number
      stacked == {p[i] : i \in 1 .. n}
  IN IF arguments.variadic
     THEN \E k \in 0 .. Cardinality(DOMAIN fields) : \E l \in {ConsesOf(fields[p[n]].car, k)} :
            /\ n > 1
            /\ IsListOf(fields, fields[p[n]].car, l, k)
            /\ Fits(primitive,
                    [i \in 1 .. k + n - 2 |->
                       fields[IF i <= k THEN l[i] ELSE p[(n + k) - i]].car], stacked, p[1])
     ELSE Fits(primitive, [i \in 1 .. n - 1 |-> fields[p[(n + 1) - i]].car], stacked, p[1])

InstructionFits(p, n) ==
  LET operand == OperandCons(Memory)
      arguments == Arity(InstructionTag - CALL_)
      Found == Fresh(Memory, operand) /\ InHeap(fields, operand)
  IN CASE InstructionTag = CONSTANT_ -> TRUE
       [] InstructionTag = GET_ -> Found
       [] InstructionTag = SET_ ->
            n > 1 /\ Found /\ IsFrame(Assign(fields, operand, fields[p[n]].car), p[1])
       [] InstructionTag = IF_ -> n > 1
       [] InstructionTag >= CALL_ ->
            /\ Found
            /\ IsPrimitive(CallOperand) => PrimitiveFits(arguments, p, n)
            /\ IsProcedure(CallOperand) /\ ~IsPrimitive(CallOperand) => ProcedureFits(arguments, p, n)

-----------------------------------------------------------------------------
(* Properties. *)

(* Whichever allocation collects, no instruction uses a cons it read before *)
(* (the comment above impl Vm: "we need to mark all volatile variables      *)
(* live across garbage collections"): nothing stale or collected is in a    *)
(* root or in a field.                                                      *)
NothingStale ==
  LET stored == {code, stack, register}
                  \cup UNION {{fields[o].car, fields[o].cdr} : o \in DOMAIN fields}
  IN /\ error # "fault"
     /\ Garbage \notin stored
     /\ \A v \in stored :
          IsPointer(v) /\ "heap" \in DOMAIN v.object => v.object \in DOMAIN fields

(* Each instruction of a program finds what it is for: operands above the  *)
(* frame of the running procedure, a frame with a call to return to, an     *)
(* argument list that ends.  The interpreter checks none of it ("assume").  *)
OperandsFound ==
  Running =>
    /\ Readable(fields, code)
    /\ \E n \in 1 .. Cardinality(DOMAIN fields) : \E p \in {ConsesOf(stack, n)} :
         IsStack(fields, stack, p, n) /\ IsFrame(fields, p[1]) /\ InstructionFits(p, n)

(* The environments of the closures of a memory: chains of conses. *)
Closures(f) ==
  {o \in DOMAIN f : "heap" \in DOMAIN o /\ TagOf(f[o].cdr) = ProcedureType}

Chain(f, o) ==
  LET Conses == {p \in DOMAIN f : "heap" \in DOMAIN p}
      chain[n \in 0 .. Cardinality(Conses)] ==
        IF n = 0 THEN {{o}}
        ELSE {S \cup (HeapPointers({f[p].cdr : p \in S}) \cap Conses) : S \in chain[n - 1]}
  IN UNION chain[Cardinality(Conses)]

(* if and return change the cdr of the cons on top of the stack: no closure *)
(* may have that cons in its environment, for its variables would then be   *)
(* somewhere else.                                                          *)
CapturedIntact ==
  [][\A o \in Closures(fields) \cap Closures(fields') :
       Chain(fields', o) = Chain(fields, o)]_vars

=============================================================================
