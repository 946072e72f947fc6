------------------------------- MODULE Exceptions -------------------------------
(***************************************************************************)
(* A program with continuations, dynamic-wind, parameters and exceptions:  *)
(* Winds, and (stak exception) of prelude.scm.  The parameter              *)
(* current-exception-handler has the number of handlers around that of the *)
(* library, which is 0.  A handler is a procedure of the program: it may   *)
(* return, raise, and leave through a continuation, as those of guard do.  *)
(* What a handler is parameterized to is a lambda expression or a variable,*)
(* and runs nothing; current-exception-handler keeps what it converts.     *)
(***************************************************************************)
EXTENDS Winds

CONSTANT MaxHandlers  \* bound on the handlers around a call

Handler == "current-exception-handler"

ASSUME ExceptionsAssumption ==
  /\ Handler \in Parameter
  /\ MaxHandlers \in Nat

(* convert-exception-handler waits for a handler.  "raised" is auxiliary, *)
(* where the call of raise or raise-continuable was.                       *)
Handling(continuable) == [f |-> "handling", continuable |-> continuable]
Raised(continuable) == [f |-> "raised", continuable |-> continuable]

(* The continuation of the library: the procedure that is passed to unwind *)
(* writes the message and halts.                                           *)
unwind == [stack |-> <<>>, point |-> Root, at |-> "halted"]

WithExceptionHandler ==
  /\ value[Handler] < MaxHandlers
  /\ Parameterize(Handler, value[Handler] + 1)

(* Mutant: a handler runs with itself. *)
CallHandlerInside(continuable, waits) ==
  IF value[Handler] = 0
  THEN CallContinuation(unwind)
  ELSE DynamicWind(<<Handler, value[Handler], value[Handler]>>, <<Handling(continuable)>>,
                   <<Raised(continuable)>> \o waits)

(* Mutant: the program is halted where the exception was raised. *)
CallHandlerHalt(continuable, waits) ==
  IF value[Handler] = 0
  THEN /\ at' = "halted"
       /\ UNCHANGED <<pointVars, value, stack, travelVars, continuations, extent>>
  ELSE DynamicWind(<<Handler, value[Handler] - 1, value[Handler]>>, <<Handling(continuable)>>,
                   <<Raised(continuable)>> \o waits)

(* A handler runs with the handler around it. *)
CallHandler(continuable, waits) ==
  IF value[Handler] = 0
  THEN CallContinuation(unwind)
  ELSE DynamicWind(<<Handler, value[Handler] - 1, value[Handler]>>, <<Handling(continuable)>>,
                   <<Raised(continuable)>> \o waits)

(* raise, raise-continuable, error and errors of primitives.  One in a     *)
(* before or after procedure may leave it through unwind.                  *)
Raise(continuable) ==
  /\ at = "run"
  /\ Escapes \/ ~InThunk
  /\ InBounds
  /\ CallHandler(continuable, stack)

ReturnHandled ==
  /\ Returns("handling") /\ Head(stack).continuable
  /\ stack' = Tail(stack)
  /\ UNCHANGED <<pointVars, value, at, travelVars, continuations, extent>>

(* Mutant: a handler may return to raise. *)
ReturnUnhandledIgnored ==
  /\ Returns("handling") /\ ~Head(stack).continuable
  /\ stack' = Tail(stack)
  /\ UNCHANGED <<pointVars, value, at, travelVars, continuations, extent>>

(* A handler has returned to raise: an error, for the handler around it.   *)
ReturnUnhandled ==
  /\ Returns("handling") /\ ~Head(stack).continuable
  /\ CallHandler(FALSE, <<Handling(TRUE)>> \o Tail(stack))

ReturnRaised ==
  /\ Returns("raised")
  /\ at' = "run"
  /\ stack' = Tail(stack)
  /\ UNCHANGED <<pointVars, value, travelVars, continuations, extent>>

Handle == ReturnHandled \/ ReturnUnhandled \/ ReturnRaised
WindReturns == ReturnEntering \/ ReturnInside \/ ReturnLeaving

Next ==
  \/ Return
  \/ Wind
  \/ \E p \in Parameter \ {Handler} : Parameterize(p, Computed)
  \/ WithExceptionHandler
  \/ \E continuable \in BOOLEAN : Raise(continuable)
  \/ WindReturns
  \/ CallCC
  \/ \E i \in DOMAIN continuations : EscapeTo(continuations[i])
  \/ Travel
  \/ Handle

(* Whatever is called returns, and travel-to-point! goes on. *)
Fairness == WF_vars(Return) /\ WF_vars(Travel \/ WindReturns \/ Handle)

Spec == Init /\ [][Next]_vars /\ Fairness

-----------------------------------------------------------------------------
(* Properties. *)

(* Wherever a procedure of the program runs, the handler is the innermost  *)
(* one around it of those that are not running: a handler sees the         *)
(* handlers outside of it, never itself, however deep exceptions are       *)
(* raised in it and also after a continuation has been called.             *)
HandlerOfCaller ==
  LET installed == {i \in DOMAIN stack :
                      /\ stack[i].f = "inside"
                      /\ LET bind == points[stack[i].point].bind
                         IN bind # <<>> /\ bind[1] = Handler /\ bind[2] > bind[3]}
      running == {i \in DOMAIN stack : stack[i].f = "handling"}
  IN at = "run" /\ ~InThunk => value[Handler] = Cardinality(installed) - Cardinality(running)

(* Nothing returns from raise, however many handlers return. *)
NeverReturns == Returns("raised") => Head(stack).continuable

(* A program that ends with an error has left every extent it was in. *)
HaltsUnwound == at = "halted" => extent = <<>> /\ value[Handler] = 0

=================================================================================
