------------------------------- MODULE Compiler -------------------------------
(***************************************************************************)
(* Code generation: compile-expression of compile.scm.  An expression is   *)
(* what macro expansion leaves, a record with its form in e; a context is  *)
(* the sequence of the names of the stack slots, newest first.  The code   *)
(* of an expression is the list of its instructions before a continuation, *)
(* the code to run next, which is empty where the expression is in tail    *)
(* position.  Code is a sequence of instructions; its null is <<>>.        *)
(***************************************************************************)
EXTENDS Integers, Sequences, FiniteSets, SequencesExt

(* Expressions. *)
Constant(n) == [e |-> "constant", value |-> [number |-> n]]
Quote(x) == [e |-> "constant", value |-> [symbol |-> x]]
Variable(x) == [e |-> "variable", name |-> x]
Lambda(xs, body) == [e |-> "lambda", parameters |-> xs, rest |-> FALSE, body |-> body]
RestLambda(xs, body) == [e |-> "lambda", parameters |-> xs, rest |-> TRUE, body |-> body]
Call(f, xs) == [e |-> "call", procedure |-> f, arguments |-> xs, apply |-> FALSE]
Apply(f, xs) == [e |-> "call", procedure |-> f, arguments |-> xs, apply |-> TRUE]
If(x, y, z) == [e |-> "if", test |-> x, then |-> y, else |-> z]
Begin(xs) == [e |-> "begin", expressions |-> xs]
Set(x, y) == [e |-> "set", name |-> x, value |-> y]
Let(xs, ys, body) == Call(Lambda(xs, body), ys)

(* Instructions, by their tags in the code. *)
ConstantTag == 0
GetTag == 1
SetTagOf == 2
IfTag == 3
CallTag == 4
NopTag == 65535

Instruction(tag, operand) == [tag |-> tag, operand |-> operand]

(* Operands: a constant, a stack slot, a global variable, a procedure with *)
(* its arity, and the code of a branch.                                    *)
Literal(x) == [literal |-> x]
Slot(i) == [slot |-> i]
Global(x) == [global |-> x]
Procedure(arity, code) == [procedure |-> [arity |-> arity, code |-> code]]
Branch(code) == [branch |-> code]

(* Slots without a name in reach of an expression: a value that waits, the *)
(* frame of a procedure, and the procedure of a call.                      *)
Unnamed == "#f"
Operator == "$procedure"

-----------------------------------------------------------------------------
(* The names that occur in an expression, as find-free-variables sees them. *)
RECURSIVE Names(_)
Names(x) ==
  CASE x.e = "constant" -> {}
    [] x.e = "variable" -> {x.name}
    [] x.e = "lambda" -> Names(x.body)
    [] x.e = "call" -> Names(x.procedure) \cup UNION {Names(y) : y \in Range(x.arguments)}
    [] x.e = "if" -> Names(x.test) \cup Names(x.then) \cup Names(x.else)
    [] x.e = "begin" -> UNION {Names(y) : y \in Range(x.expressions)}
    [] x.e = "set" -> {x.name} \cup Names(x.value)

(* A procedure is closed over its environment if its body names something  *)
(* of it.                                                                  *)
HasFreeVariables(context, x) ==
  Names(x.body) \cap (Range(context) \ {Unnamed, Operator}) # {}

(* compilation-context-resolve: the innermost slot of that name. *)
Resolve(context, name) ==
  IF \E i \in DOMAIN context : context[i] = name
  THEN Slot((CHOOSE i \in DOMAIN context :
               context[i] = name /\ \A j \in 1 .. i - 1 : context[j] # name) - 1)
  ELSE Global(name)

CompileArity(count, variadic) == 2 * count + (IF variadic THEN 1 ELSE 0)

ConstantRib(x, continuation) == <<Instruction(ConstantTag, x)>> \o continuation
CallRib(arity, procedure, continuation) ==
  <<Instruction(CallTag + arity, procedure)>> \o continuation

(* Mutant: it is taken there, too. *)
UnlessNeeded(instruction, continuation) == <<instruction>> \o continuation

(* In tail position there is nothing to take from the stack. *)
UnlessTail(instruction, continuation) ==
  IF continuation = <<>> THEN continuation ELSE <<instruction>> \o continuation

CompileDrop(continuation) == UnlessTail(Instruction(SetTagOf, Slot(0)), continuation)
(* Mutant: a binding is taken from the stack like a procedure. *)
CompileUnbindInPlace(continuation) ==
  UnlessTail(Instruction(SetTagOf, Slot(1)), continuation)

CompileUnbind(continuation) ==
  UnlessTail(Instruction(CallTag + CompileArity(2, FALSE), Global("unbind")), continuation)
CompileUnsafeUnbind(continuation) ==
  UnlessTail(Instruction(SetTagOf, Slot(1)), continuation)

IsDrop(continuation) ==
  continuation # <<>> /\ Head(continuation) = Instruction(SetTagOf, Slot(0))

(* The value of an assignment, unless it is dropped. *)
CompileUnspecified(continuation) ==
  IF IsDrop(continuation)
  THEN Tail(continuation)
  ELSE ConstantRib(Literal([symbol |-> "#f"]), continuation)

(* A call of a lambda expression binds its parameters on the stack. *)
IsLet(x) == x.e = "call" /\ ~x.apply /\ x.procedure.e = "lambda" /\ ~x.procedure.rest

RECURSIVE CompileExpression(_, _, _)
RECURSIVE CompileSequence(_, _, _)
RECURSIVE CompileLet(_, _, _, _, _, _)
RECURSIVE CompileRawCall(_, _, _, _, _)

CompileSequence(context, xs, continuation) ==
  CompileExpression(context, Head(xs),
    IF Tail(xs) = <<>>
    THEN continuation
    ELSE CompileDrop(CompileSequence(context, Tail(xs), continuation)))

CompileLet(context, inner, xs, ys, body, continuation) ==
  IF xs = <<>>
  THEN CompileExpression(inner, body, continuation)
  ELSE CompileExpression(context, Head(ys),
         CompileLet(<<Unnamed>> \o context, <<Head(xs)>> \o inner, Tail(xs), Tail(ys),
                    body, CompileUnbind(continuation)))

CompileRawCall(context, procedure, xs, arity, continuation) ==
  IF xs = <<>>
  THEN CallRib(arity, Resolve(context, procedure), continuation)
  ELSE CompileExpression(context, Head(xs),
         CompileRawCall(<<Unnamed>> \o context, procedure, Tail(xs), arity, continuation))

CompileCall(context, x, continuation) ==
  LET arity == CompileArity(Len(x.arguments) - (IF x.apply THEN 1 ELSE 0), x.apply)
  IN IF x.procedure.e = "variable"
     THEN CompileRawCall(context, x.procedure.name, x.arguments, arity, continuation)
     ELSE CompileExpression(context, x.procedure,
            CompileRawCall(<<Operator>> \o context, Operator, x.arguments, arity,
                           CompileUnsafeUnbind(continuation)))

CompileIf(context, x, continuation) ==
  LET next == IF continuation = <<>> THEN <<>>
              ELSE <<Instruction(NopTag, Slot(0))>> \o continuation
  IN CompileExpression(context, x.test,
       <<Instruction(IfTag, Branch(CompileExpression(context, x.then, next)))>>
         \o CompileExpression(context, x.else, next))

CompileLambda(context, x, continuation) ==
  ConstantRib(
    Procedure(CompileArity(Len(x.parameters) - (IF x.rest THEN 1 ELSE 0), x.rest),
              CompileExpression(Reverse(x.parameters) \o <<Unnamed>> \o context, x.body, <<>>)),
    IF HasFreeVariables(context, x)
    THEN CallRib(CompileArity(1, FALSE), Global("close"), continuation)
    ELSE continuation)

CompileSet(context, x, continuation) ==
  CompileExpression(context, x.value,
    <<Instruction(SetTagOf, Resolve(<<Unnamed>> \o context, x.name))>>
      \o CompileUnspecified(continuation))

CompileExpression(context, x, continuation) ==
  CASE x.e = "constant" -> ConstantRib(Literal(x.value), continuation)
    [] x.e = "variable" ->
         <<Instruction(GetTag, Resolve(context, x.name))>> \o continuation
    [] x.e = "lambda" -> CompileLambda(context, x, continuation)
    [] IsLet(x) ->
         CompileLet(context, context, x.procedure.parameters, x.arguments, x.procedure.body,
                    continuation)
    [] x.e = "call" /\ ~IsLet(x) -> CompileCall(context, x, continuation)
    [] x.e = "if" -> CompileIf(context, x, continuation)
    [] x.e = "begin" -> CompileSequence(context, x.expressions, continuation)
    [] x.e = "set" -> CompileSet(context, x, continuation)

-----------------------------------------------------------------------------
(* The encoder leaves the joins of branches out of what it encodes. *)
RECURSIVE StripNopInstructions(_)
StripNopInstructions(code) ==
  LET IsCode(x) == x.tag # NopTag
      Strip(y) ==
        CASE "branch" \in DOMAIN y -> Branch(StripNopInstructions(y.branch))
          [] "procedure" \in DOMAIN y ->
               Procedure(y.procedure.arity, StripNopInstructions(y.procedure.code))
          [] OTHER -> y
      codes == SelectSeq(code, IsCode)
  IN [i \in DOMAIN codes |-> [codes[i] EXCEPT !.operand = Strip(@)]]

(* The code of a program, which is compiled in an empty context.           *)
Compile(x) == StripNopInstructions(CompileExpression(<<>>, x, <<>>))

=============================================================================
