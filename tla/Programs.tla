-------------------------------- MODULE Programs -------------------------------
(***************************************************************************)
(* What a program means, whatever runs it, and programs for the            *)
(* interpreter, compiled as compile.scm does, with the global variables    *)
(* they use and their meaning.                                             *)
(*                                                                         *)
(* The expressions of Compiler are evaluated with environments that map    *)
(* names to locations of a store, and continuations that are values.  The  *)
(* arguments of a call are evaluated from left to right, after a procedure *)
(* that is an expression and before one that is a variable; R7RS leaves    *)
(* the order open.                                                         *)
(***************************************************************************)
EXTENDS Compiler

CONSTANTS
  Operators,  \* the forms of the operator of a call: "variable", "expression"
  Fuel        \* bound on the steps of an evaluation

-----------------------------------------------------------------------------
(* Evaluation. *)

(* Values *)
Closure(x, env) ==
  [closure |-> [parameters |-> x.parameters, rest |-> x.rest, body |-> x.body, env |-> env]]
Reified(k) == [continuation |-> k]
Builtin(x) == [primitive |-> x]
ListValue(xs) == [list |-> xs]
FalseValue == [symbol |-> "#f"]
TrueValue == [symbol |-> "#t"]

(* A state s evaluates s.x in s.env, or when s.x is Done returns s.v, to   *)
(* the frames s.k.                                                         *)
Done == [e |-> "done"]

Return(s, v) == [s EXCEPT !.x = Done, !.v = v]
Evaluate(s, x, env) == [s EXCEPT !.x = x, !.env = env]
Raise(s) == [s EXCEPT !.x = Done, !.k = <<>>, !.v = [error |-> TRUE]]

PushK(s, frame) == [s EXCEPT !.k = <<frame>> \o @]

Bind(s, names, values, env) ==
  LET base == Len(s.store)
  IN [s EXCEPT !.store = @ \o values,
               !.env = [x \in DOMAIN env \cup Range(names) |->
                          IF x \in Range(names)
                          THEN base + (CHOOSE i \in DOMAIN names : names[i] = x)
                          ELSE env[x]]]

Accepts(closure, count) ==
  IF closure.rest THEN count >= Len(closure.parameters) - 1
                  ELSE count = Len(closure.parameters)

RestAsList(closure, values) ==
  LET n == Len(closure.parameters) - 1
  IN IF closure.rest
     THEN Append(SubSeq(values, 1, n), ListValue(SubSeq(values, n + 1, Len(values))))
     ELSE values

(* The call of a value.  An error goes to the handler, if there is one.    *)
RECURSIVE Invoke(_, _, _)
Invoke(s, f, values) ==
  LET Error == IF s.handler = <<>> THEN Raise(s)
               ELSE Invoke(s, s.handler[1], <<ListValue(<<>>)>>)
  IN CASE "closure" \in DOMAIN f ->
            IF Accepts(f.closure, Len(values))
            THEN LET t == Bind(s, f.closure.parameters, RestAsList(f.closure, values),
                               f.closure.env)
                 IN [t EXCEPT !.x = f.closure.body]
            ELSE Error
       [] "continuation" \in DOMAIN f ->
            IF Len(values) = 1
            THEN Return([s EXCEPT !.k = f.continuation], values[1])
            ELSE Error
       [] f = Builtin("call/cc") ->
            IF Len(values) = 1 THEN Invoke(s, values[1], <<Reified(s.k)>>) ELSE Error
       [] f = Builtin("eq?") ->
            Return(s, IF values[1] = values[2] THEN TrueValue ELSE FalseValue)
       [] f = Builtin("+") ->
            Return(s, [number |-> values[1].number + values[2].number])
       [] f = Builtin("set-error-handler!") ->
            Return([s EXCEPT !.handler = <<values[1]>>], values[1])
       [] OTHER -> Error

(* The values of a call are all there.                                     *)
InvokeCall(s, frame, values) ==
  LET arguments ==
        IF frame.apply
        THEN SubSeq(values, 1, Len(values) - 1) \o Last(values).list
        ELSE values
  IN Invoke(s, IF frame.procedure = <<>>
               THEN s.store[frame.env[frame.name]]
               ELSE frame.procedure[1], arguments)

NextArgument(s, frame) ==
  IF frame.todo = <<>>
  THEN InvokeCall(s, frame, frame.done)
  ELSE Evaluate(PushK(s, [frame EXCEPT !.todo = Tail(@)]), Head(frame.todo), frame.env)

CallFrame(x, env) ==
  [f |-> "call", name |-> IF x.procedure.e = "variable" THEN x.procedure.name ELSE Operator,
   procedure |-> <<>>, todo |-> x.arguments, done |-> <<>>, apply |-> x.apply, env |-> env]

(* One step of evaluating an expression, *)
StepExpression(s) ==
  LET x == s.x
  IN CASE x.e = "constant" -> Return(s, x.value)
       [] x.e = "variable" -> Return(s, s.store[s.env[x.name]])
       [] x.e = "lambda" -> Return(s, Closure(x, s.env))
       [] x.e = "call" ->
            IF x.procedure.e = "variable"
            THEN NextArgument(s, CallFrame(x, s.env))
            ELSE Evaluate(PushK(s, [f |-> "procedure", frame |-> CallFrame(x, s.env)]),
                          x.procedure, s.env)
       [] x.e = "if" ->
            Evaluate(PushK(s, [f |-> "if", then |-> x.then, else |-> x.else, env |-> s.env]),
                     x.test, s.env)
       [] x.e = "begin" ->
            IF Len(x.expressions) = 1
            THEN Evaluate(s, x.expressions[1], s.env)
            ELSE Evaluate(PushK(s, [f |-> "begin", rest |-> Tail(x.expressions), env |-> s.env]),
                          Head(x.expressions), s.env)
       [] x.e = "set" ->
            Evaluate(PushK(s, [f |-> "set", name |-> x.name, env |-> s.env]), x.value, s.env)

(* and one of returning a value to a frame.                                *)
StepReturn(s) ==
  LET frame == Head(s.k)
      t == [s EXCEPT !.k = Tail(@)]
  IN CASE frame.f = "call" -> NextArgument(t, [frame EXCEPT !.done = Append(@, s.v)])
       [] frame.f = "procedure" ->
            NextArgument(t, [frame.frame EXCEPT !.procedure = <<s.v>>])
       [] frame.f = "if" ->
            Evaluate(t, IF s.v = FalseValue THEN frame.else ELSE frame.then, frame.env)
       [] frame.f = "begin" -> Evaluate(t, Begin(frame.rest), frame.env)
       [] frame.f = "set" ->
            Return([t EXCEPT !.store[frame.env[frame.name]] = s.v], FalseValue)

RECURSIVE Run(_, _)
Run(s, fuel) ==
  CASE s.x = Done /\ s.k = <<>> -> s.v
    [] fuel = 0 -> [endless |-> TRUE]
    [] OTHER -> Run(IF s.x = Done THEN StepReturn(s) ELSE StepExpression(s), fuel - 1)

(* The value of a program; names and values are those of its globals.      *)
ValueOf(x, names, values, fuel) ==
  Run([Bind([x |-> x, v |-> FalseValue, env |-> <<>>, k |-> <<>>, store |-> <<>>,
             handler |-> <<>>],
            names, values, <<>>) EXCEPT !.x = x],
      fuel)

-----------------------------------------------------------------------------
V(x) == Variable(x)
Thunk(body) == Lambda(<<>>, body)
F == Quote("#f")
T == Quote("#t")

-----------------------------------------------------------------------------
(* The part of prelude.scm that continuations and errors are made of.      *)

(* (cddr (close dummy-procedure)): the frame of the procedure it is in.    *)
FrameExpression ==
  Call(V("cdr"), <<Call(V("cdr"), <<Call(V("close"), <<V("dummy-procedure")>>)>>)>>)

CallCC ==
  Lambda(<<"receiver">>,
    Let(<<"continuation">>, <<Call(V("car"), <<FrameExpression>>)>>,
      Call(V("receiver"),
        <<Lambda(<<"argument">>,
            Begin(<<Call(V("set-car!"), <<FrameExpression, V("continuation")>>),
                    V("argument")>>))>>)))

SetErrorHandler ==
  Lambda(<<"handler">>, Call(V("set-cdr!"), <<Quote("()"), V("handler")>>))

ProcedureOf(x) == Head(Compile(x)).operand

Primitives == [x \in {"close", "unbind", "car", "cdr", "set-car!", "set-cdr!", "eq?", "+"} |->
  CASE x = "close" -> 1 [] x = "unbind" -> 2 [] x = "car" -> 4 [] x = "cdr" -> 5
    [] x = "set-car!" -> 7 [] x = "set-cdr!" -> 8 [] x = "eq?" -> 9 [] x = "+" -> 11]

ReferenceNames ==
  <<"eq?", "+", "call/cc", "set-error-handler!", "g", "h", "f", "keep", "identity", "maker">>
ReferenceValues ==
  [i \in DOMAIN ReferenceNames |-> IF i <= 4 THEN Builtin(ReferenceNames[i]) ELSE FalseValue]

Defined == {ReferenceNames[i] : i \in 5 .. Len(ReferenceNames)}

Globals ==
  [x \in DOMAIN Primitives |-> [primitive |-> Primitives[x]]]
    @@ [x \in Defined |-> Literal(FalseValue)]
    @@ ("call/cc" :> ProcedureOf(CallCC))
    @@ ("dummy-procedure" :> ProcedureOf(Thunk(F)))
    @@ ("set-error-handler!" :> ProcedureOf(SetErrorHandler))

-----------------------------------------------------------------------------
(* The programs. *)

(* Definitions that the programs share: keep stores its argument in g, and *)
(* maker returns keep, identity or whatever f is.                          *)
Prelude(body) ==
  Begin(<<Set("keep", Lambda(<<"x">>, Begin(<<Set("g", V("x")), T>>))),
          Set("identity", Lambda(<<"x">>, V("x"))),
          Set("maker", Thunk(V("f"))),
          body>>)

(* The operator of a call: the variable f, or a call that returns it.      *)
Operator_(form) == IF form = "variable" THEN V("f") ELSE Call(V("maker"), <<>>)

(* A closure over a local variable is given to an operator, which keeps    *)
(* it, and called after the value of that call has been used.              *)
Capture(form, use) ==
  Begin(<<Set("f", V("keep")),
          Set("h", Lambda(<<"x">>, use)),
          Call(V("h"), <<Constant(5)>>),
          Call(V("g"), <<>>)>>)
Given(form) == Call(Operator_(form), <<Thunk(V("x"))>>)

(* A continuation is captured in an argument and entered once more.        *)
Reenter(form) ==
  Begin(<<Set("f", V("identity")),
          Let(<<"n">>, <<Constant(0)>>,
            Begin(<<Call(Operator_(form),
                         <<Call(V("call/cc"), <<Lambda(<<"k">>, Begin(<<Set("h", V("k")), F>>))>>)>>),
                    Set("n", Call(V("+"), <<V("n"), Constant(1)>>)),
                    If(Call(V("eq?"), <<V("n"), Constant(2)>>),
                       V("n"),
                       Call(V("h"), <<F>>))>>))>>)

Families ==
  [x \in {"test", "argument", "binding", "sequence", "reenter"} \X Operators |->
     CASE x[1] = "test" -> Capture(x[2], If(Given(x[2]), Call(V("g"), <<>>), F))
       [] x[1] = "argument" -> Capture(x[2], Call(V("eq?"), <<Given(x[2]), F>>))
       [] x[1] = "binding" -> Capture(x[2], Let(<<"y">>, <<Given(x[2])>>, V("y")))
       [] x[1] = "sequence" -> Capture(x[2], Begin(<<Given(x[2]), V("x")>>))
       [] x[1] = "reenter" -> Reenter(x[2])]

Singles ==
  [ (* variables of closures are shared, and innermost ones win *)
    counter |->
      Let(<<"n">>, <<Constant(0)>>,
        Begin(<<Set("g", Thunk(Set("n", Call(V("+"), <<V("n"), Constant(1)>>)))),
                Call(V("g"), <<>>), Call(V("g"), <<>>), V("n")>>)),
    shadow |->
      Let(<<"x", "y">>, <<Constant(1), Constant(2)>>,
        Call(V("+"), <<Let(<<"x">>, <<V("y")>>, V("x")), V("x")>>)),
    (* a closure in the environment of a closure *)
    curry |->
      Let(<<"add">>, <<Lambda(<<"x">>, Lambda(<<"y">>, Call(V("+"), <<V("x"), V("y")>>)))>>,
        Begin(<<Set("f", Call(V("add"), <<Constant(1)>>)),
                Set("g", Call(V("add"), <<Constant(2)>>)),
                Call(V("f"), <<Call(V("g"), <<Constant(3)>>)>>)>>)),
    (* a closure over a binding that is a test *)
    bound |->
      Begin(<<If(Let(<<"y">>, <<Constant(5)>>, Begin(<<Set("g", Thunk(V("y"))), T>>)),
                 Call(V("g"), <<>>), F)>>),
    (* nested branches in tail position and not *)
    branches |->
      Begin(<<Set("f", Lambda(<<"x">>, If(V("x"), If(F, Constant(1), Constant(2)), Constant(3)))),
              Call(V("+"), <<Call(V("f"), <<T>>),
                             If(Call(V("f"), <<F>>), Call(V("f"), <<F>>), Constant(9))>>)>>),
    (* a loop that counts to 3 *)
    loop |->
      Begin(<<Set("f", Lambda(<<"n">>, If(Call(V("eq?"), <<V("n"), Constant(3)>>),
                                          V("n"),
                                          Call(V("f"), <<Call(V("+"), <<V("n"), Constant(1)>>)>>)))),
              Call(V("f"), <<Constant(0)>>)>>),
    (* recursion that is not in tail position *)
    recursion |->
      Begin(<<Set("f", Lambda(<<"n">>, If(Call(V("eq?"), <<V("n"), Constant(3)>>),
                                          Constant(0),
                                          Call(V("+"), <<V("n"), Call(V("f"),
                                             <<Call(V("+"), <<V("n"), Constant(1)>>)>>)>>)))),
              Call(V("f"), <<Constant(0)>>)>>),
    (* a list of arguments that takes a turn through a rest parameter, a    *)
    (* procedure and a primitive *)
    spread |->
      Begin(<<Set("f", RestLambda(<<"x", "xs">>, Apply(V("g"), <<V("x"), V("xs")>>))),
              Set("g", RestLambda(<<"xs">>, Apply(V("+"), <<V("xs")>>))),
              Call(V("f"), <<Constant(1), Constant(2)>>)>>),
    (* a continuation that leaves a call half way *)
    escape |->
      Call(V("call/cc"),
        <<Lambda(<<"k">>, Call(V("+"), <<Constant(1), Call(V("k"), <<Constant(7)>>)>>))>>),
    (* one that is kept by a closure and entered from another procedure *)
    outside |->
      Let(<<"n">>, <<Constant(0)>>,
        Begin(<<Set("n", Call(V("+"), <<V("n"), Call(V("call/cc"),
                           <<Lambda(<<"k">>, Begin(<<Set("h", V("k")), Constant(1)>>))>>)>>)),
                If(Call(V("eq?"), <<V("n"), Constant(1)>>),
                   Call(V("identity"), <<Call(V("h"), <<Constant(5)>>)>>),
                   V("n"))>>)),
    (* errors, with and without a handler *)
    argumentCount |-> Call(V("identity"), <<>>),
    procedureExpected |-> Call(V("identity"), <<Call(V("g"), <<Constant(1)>>)>>),
    handled |->
      Call(V("+"),
        <<Constant(1),
          Call(V("call/cc"),
            <<Lambda(<<"k">>,
                Begin(<<Call(V("set-error-handler!"),
                             <<Lambda(<<"message">>, Call(V("k"), <<Constant(4)>>))>>),
                        Call(V("+"), <<Constant(1), Call(V("identity"), <<>>)>>)>>))>>)>>),
    handledTwice |->
      Begin(<<Set("f", Lambda(<<"thunk">>,
                Call(V("call/cc"),
                  <<Lambda(<<"k">>,
                      Begin(<<Call(V("set-error-handler!"),
                                   <<Lambda(<<"message">>, Call(V("k"), <<Constant(4)>>))>>),
                              Call(V("thunk"), <<>>)>>))>>))),
              Call(V("+"), <<Call(V("f"), <<Thunk(Call(F, <<>>))>>),
                             Call(V("f"), <<Thunk(Call(V("maker"), <<Constant(0)>>))>>)>>)>>)
  ]

(* Programs that call for ever, always in tail position, or by way of a    *)
(* continuation.                                                           *)
Forever(body) == Begin(<<Set("f", body), Call(V("f"), <<T, F>>)>>)

Loops ==
  [ self |-> Forever(Lambda(<<"x", "y">>, Call(V("f"), <<V("y"), V("x")>>))),
    branch |-> Forever(Lambda(<<"x", "y">>,
      If(V("x"), Call(V("f"), <<V("y"), V("x")>>), Begin(<<F, Call(V("f"), <<T, F>>)>>)))),
    body |-> Forever(Lambda(<<"x", "y">>,
      Let(<<"z">>, <<Thunk(V("x"))>>, Call(V("f"), <<Call(V("z"), <<>>), V("y")>>)))),
    mutual |-> Forever(Lambda(<<"x", "y">>,
      Begin(<<Set("h", Thunk(Call(V("f"), <<T, V("x")>>))), Call(V("h"), <<>>)>>))),
    operator |-> Forever(Lambda(<<"x", "y">>,
      Call(Call(V("maker"), <<>>), <<V("y"), V("x")>>))),
    rest |-> Forever(RestLambda(<<"xs">>, Apply(V("f"), <<V("xs")>>))),
    receiver |-> Forever(Lambda(<<"x", "y">>,
      Call(V("call/cc"), <<Lambda(<<"k">>, Call(V("f"), <<V("k"), F>>))>>))),
    again |-> Forever(Lambda(<<"x", "y">>,
      Begin(<<Call(V("call/cc"), <<Lambda(<<"k">>, Set("h", V("k")))>>),
              Call(V("h"), <<V("x")>>)>>))),
    failure |-> Forever(Lambda(<<"x", "y">>,
      Begin(<<Call(V("call/cc"),
                <<Lambda(<<"k">>,
                    Begin(<<Call(V("set-error-handler!"), <<V("k")>>),
                            Call(V("x"), <<>>)>>))>>),
              Call(V("f"), <<V("x"), V("y")>>)>>)))
  ]

Body(p) ==
  CASE p \in DOMAIN Families -> Families[p]
    [] p[1] \in DOMAIN Singles -> Singles[p[1]]
    [] p[1] \in DOMAIN Loops -> Loops[p[1]]
Expression(p) == Prelude(Body(p))

EndingProgram == DOMAIN Families \cup {<<x>> : x \in DOMAIN Singles}
EndlessProgram == {<<x>> : x \in DOMAIN Loops}

ImageOf ==
  [p \in EndingProgram \cup EndlessProgram |-> [code |-> Compile(Expression(p)), globals |-> Globals]]

(* The value of a program, an error if it ends in one. *)
Expected ==
  [p \in EndingProgram |->
     LET v == ValueOf(Expression(p), ReferenceNames, ReferenceValues, Fuel)
     IN IF {"number", "symbol", "error"} \cap DOMAIN v # {} THEN v ELSE [other |-> TRUE]]

=============================================================================
