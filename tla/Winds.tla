--------------------------------- MODULE Winds ---------------------------------
(***************************************************************************)
(* Continuations, dynamic-wind and parameterize of prelude.scm, (stak      *)
(* continue).  The procedures of a program are not known: wherever one     *)
(* runs, it may do any of these operations or return.                      *)
(*                                                                         *)
(* stack has what waits for the running procedure to return, innermost     *)
(* first; a captured continuation is a stack and the point it was captured *)
(* at.  extent is auxiliary: the points whose before procedure has         *)
(* returned and whose after procedure has not been called since.           *)
(***************************************************************************)
EXTENDS Integers, Sequences, SequencesExt, FiniteSetsExt

CONSTANTS
  Parameter,
  Escapes,           \* may before and after procedures make and call continuations?
  MaxPoints, MaxStack, MaxContinuations  \* bounds

ASSUME WindsAssumption ==
  /\ Escapes \in BOOLEAN
  /\ {MaxPoints, MaxStack, MaxContinuations} \subseteq Nat

VARIABLES
  points,         \* the points made so far, the first at index 1
  currentPoint,
  value,          \* for each parameter, what gave it its value
  stack,
  at,             \* "run": a procedure of the program runs; "return": it has
                  \* returned to the top of the stack; "travel": from a point to
                  \* one; "halted": the program has ended
  from, to,       \* the arguments of travel-to-point!
  continuations,  \* the continuations that the program has
  extent

pointVars == <<points, currentPoint>>
travelVars == <<from, to>>
vars == <<pointVars, value, stack, at, travelVars, continuations, extent>>

(* make-point.  The points of parameterize bind a parameter, to the value  *)
(* of a constant or to what a procedure of the program computes anew at    *)
(* each entry, and restore the value it had.  A computed value is known by *)
(* the point whose before procedure computed it and the first value of a   *)
(* parameter by 0, however often they have been converted.                 *)
Computed == -1
Point(depth, bind, parent) == [depth |-> depth, bind |-> bind, parent |-> parent]
Root == 1

(* What waits for a return: the before procedure of a new point, its thunk, *)
(* its after procedure; in travel-to-point!, the travel to the parent of a  *)
(* point and the after procedure of a point; the travel before a jump.      *)
(* "entered" is auxiliary, the before procedure called last in travel.  A   *)
(* thunk is a procedure of the program with what waits for it, if anything. *)
Entering(bind, thunk) == [f |-> "entering", bind |-> bind, thunk |-> thunk]
Inside(point, saved) == [f |-> "inside", point |-> point, saved |-> saved]
Leaving == [f |-> "leaving"]
Enter(p) == [f |-> "enter", to |-> p]
Entered(p) == [f |-> "entered", point |-> p]
Leave(p, q) == [f |-> "leave", from |-> p, to |-> q]
Jump(k) == [f |-> "jump", continuation |-> k]

(* An extent without the innermost of a point.                             *)
Without(e, p) ==
  LET places == {i \in DOMAIN e : e[i] = p}
  IN IF places = {} THEN e ELSE RemoveAt(e, Max(places))

(* A before or after procedure runs: not the value expression of a         *)
(* parameterize that is called, only of one that is entered again.         *)
InThunk ==
  \E i \in DOMAIN stack :
    \/ stack[i].f \in {"leaving", "entered", "leave"}
    \/ stack[i].f = "entering" /\ stack[i].bind = <<>>

-----------------------------------------------------------------------------
(* parameterize.  Its before procedure runs the program to compute a value *)
(* and sets the parameter when it returns, its after procedure only sets   *)
(* it.  Converters only convert: they call nothing of Winds.               *)

RunsProgram(bind) == bind = <<>> \/ bind[2] = Computed
Given(bind, p) == IF bind[2] = Computed THEN p ELSE bind[2]

SetParameter(p, v) == value' = [value EXCEPT ![p] = v]

CallBefore(bind) ==
  /\ at' = (IF RunsProgram(bind) THEN "run" ELSE "return")
  /\ UNCHANGED value

(* The before procedure of point p has returned.                           *)
ReturnBefore(bind, p) ==
  IF bind = <<>> THEN UNCHANGED value ELSE SetParameter(bind[1], Given(bind, p))

(* Mutant: the parameter keeps the value of the extent that is left. *)
CallAfterKeep(bind) ==
  IF bind = <<>>
  THEN at' = "run" /\ UNCHANGED value
  ELSE at' = "return" /\ UNCHANGED value

CallAfter(bind) ==
  IF bind = <<>>
  THEN at' = "run" /\ UNCHANGED value
  ELSE at' = "return" /\ SetParameter(bind[1], bind[3])

Init ==
  /\ points = <<Point(0, <<>>, 0)>>
  /\ currentPoint = Root
  /\ value = [p \in Parameter |-> 0]
  /\ stack = <<>>
  /\ at = "run"
  /\ from = Root /\ to = Root
  /\ continuations = <<>>
  /\ extent = <<>>

Return ==
  /\ at = "run"
  /\ stack # <<>>
  /\ at' = "return"
  /\ UNCHANGED <<pointVars, value, stack, travelVars, continuations, extent>>

Returns(f) == at = "return" /\ Head(stack).f = f

(* dynamic-wind, with the points that the calls in progress are to make in  *)
(* the bound.                                                              *)
InBounds ==
  /\ Len(points) + Cardinality({i \in DOMAIN stack : stack[i].f = "entering"}) < MaxPoints
  /\ Len(stack) < MaxStack

DynamicWind(bind, thunk, waits) ==
  /\ stack' = <<Entering(bind, thunk)>> \o waits
  /\ CallBefore(bind)
  /\ UNCHANGED <<pointVars, travelVars, continuations, extent>>

Wind == at = "run" /\ InBounds /\ DynamicWind(<<>>, <<>>, stack)
Parameterize(p, given) ==
  at = "run" /\ InBounds /\ DynamicWind(<<p, given, value[p]>>, <<>>, stack)

ReturnEntering ==
  /\ Returns("entering")
  /\ LET p == Len(points) + 1
     IN /\ points' = Append(points, Point(points[currentPoint].depth + 1, Head(stack).bind,
                                          currentPoint))
        /\ currentPoint' = p
        /\ stack' = Head(stack).thunk \o <<Inside(p, currentPoint)>> \o Tail(stack)
        /\ extent' = Append(extent, p)
        /\ ReturnBefore(Head(stack).bind, p)
  /\ at' = "run"
  /\ UNCHANGED <<travelVars, continuations>>

(* Mutant: the point is left after the after procedure. *)
ReturnInsideLate ==
  /\ Returns("inside")
  /\ LET p == Head(stack).point
     IN /\ stack' = <<Leaving>> \o Tail(stack)
        /\ CallAfter(points[p].bind)
        /\ extent' = Without(extent, p)
  /\ UNCHANGED <<pointVars, travelVars, continuations>>

ReturnInside ==
  /\ Returns("inside")
  /\ LET p == Head(stack).point
     IN /\ currentPoint' = Head(stack).saved
        /\ stack' = <<Leaving>> \o Tail(stack)
        /\ CallAfter(points[p].bind)
        /\ extent' = Without(extent, p)
  /\ UNCHANGED <<points, travelVars, continuations>>

ReturnLeaving ==
  /\ Returns("leaving")
  /\ at' = "run"
  /\ stack' = Tail(stack)
  /\ UNCHANGED <<pointVars, value, travelVars, continuations, extent>>

-----------------------------------------------------------------------------
(* call/cc, and the procedure it passes to its receiver.  What waits below  *)
(* a jump is never returned to.                                            *)

Continuation == [stack |-> stack, point |-> currentPoint, at |-> "run"]

CallCC ==
  /\ at = "run"
  /\ Escapes \/ ~InThunk
  /\ Len(continuations) < MaxContinuations
  /\ ~\E i \in DOMAIN continuations : continuations[i] = Continuation
  /\ continuations' = Append(continuations, Continuation)
  /\ UNCHANGED <<pointVars, value, stack, at, travelVars, extent>>

(* Mutant: the travel goes from the point of the continuation. *)
CallContinuationBack(k) ==
  /\ stack' = <<Jump(k)>>
  /\ at' = "travel"
  /\ from' = k.point
  /\ to' = currentPoint
  /\ UNCHANGED <<pointVars, value, continuations, extent>>

CallContinuation(k) ==
  /\ stack' = <<Jump(k)>>
  /\ at' = "travel"
  /\ from' = currentPoint
  /\ to' = k.point
  /\ UNCHANGED <<pointVars, value, continuations, extent>>

ReturnJump ==
  /\ Returns("jump")
  /\ LET k == Head(stack).continuation
     IN currentPoint' = k.point /\ stack' = k.stack /\ at' = k.at
  /\ UNCHANGED <<points, value, travelVars, continuations, extent>>

EscapeTo(k) ==
  /\ at = "run"
  /\ Escapes \/ ~InThunk
  /\ Len(points) <= MaxPoints
  /\ CallContinuation(k)

(* travel-to-point!.  A before procedure is called in tail position. *)
IsDeeper == points[from].depth < points[to].depth

TravelArrived ==
  /\ at = "travel"
  /\ from = to
  /\ at' = "return"
  /\ UNCHANGED <<pointVars, value, stack, travelVars, continuations, extent>>

TravelIn ==
  /\ at = "travel"
  /\ from # to /\ IsDeeper
  /\ stack' = <<Enter(to)>> \o stack
  /\ to' = points[to].parent
  /\ UNCHANGED <<pointVars, value, at, from, continuations, extent>>

ReturnEnter ==
  /\ Returns("enter")
  /\ LET p == Head(stack).to
     IN /\ stack' = <<Entered(p)>> \o Tail(stack)
        /\ CallBefore(points[p].bind)
  /\ UNCHANGED <<pointVars, travelVars, continuations, extent>>

ReturnEntered ==
  /\ Returns("entered")
  /\ LET p == Head(stack).point
     IN extent' = Append(extent, p) /\ ReturnBefore(points[p].bind, p)
  /\ stack' = Tail(stack)
  /\ UNCHANGED <<pointVars, at, travelVars, continuations>>

TravelOut ==
  /\ at = "travel"
  /\ from # to /\ ~IsDeeper
  /\ stack' = <<Leave(from, to)>> \o stack
  /\ CallAfter(points[from].bind)
  /\ extent' = Without(extent, from)
  /\ UNCHANGED <<pointVars, travelVars, continuations>>

(* Mutant: the travel goes on from the point that was left. *)
ReturnLeaveStay ==
  /\ Returns("leave")
  /\ at' = "travel"
  /\ from' = Head(stack).from
  /\ to' = Head(stack).to
  /\ stack' = Tail(stack)
  /\ UNCHANGED <<pointVars, value, continuations, extent>>

ReturnLeave ==
  /\ Returns("leave")
  /\ at' = "travel"
  /\ from' = points[Head(stack).from].parent
  /\ to' = Head(stack).to
  /\ stack' = Tail(stack)
  /\ UNCHANGED <<pointVars, value, continuations, extent>>

Travel ==
  \/ TravelArrived \/ TravelIn \/ TravelOut
  \/ ReturnEnter \/ ReturnEntered \/ ReturnLeave \/ ReturnJump

-----------------------------------------------------------------------------
(* Properties. *)

(* From the root to a point, the root left out. *)
PathIn(ps, p) ==
  LET path[q \in DOMAIN ps] ==
        IF q = Root THEN <<>> ELSE Append(path[ps[q].parent], q)
  IN path[p]

Path(p) == PathIn(points, p)

(* However a program leaves the extent of a dynamic-wind and comes back,   *)
(* where it runs current-point is the extent that it is in.                *)
PointIsExtent == at = "run" /\ ~InThunk => extent = Path(currentPoint)

(* A before procedure is called just inside its parent, an after procedure *)
(* in the innermost extent: each entry of an extent has one exit, in the   *)
(* order of nesting, and a continuation into an extent calls the before    *)
(* procedures from the outside in.                                         *)
CallsBefore(p) == Returns("enter") /\ Head(stack).to = p
CallsAfter(p) ==
  \/ Returns("inside") /\ Head(stack).point = p
  \/ at = "travel" /\ from # to /\ ~IsDeeper /\ from = p

Alternate ==
  \A p \in DOMAIN points :
    /\ CallsBefore(p) => extent = Path(points[p].parent)
    /\ CallsAfter(p) => extent # <<>> /\ Last(extent) = p

(* What gives a parameter its value in an extent: the innermost point that *)
(* binds it.                                                               *)
BoundIn(ps, e, p) ==
  LET binds == {i \in DOMAIN e : LET bind == ps[e[i]].bind
                                 IN bind # <<>> /\ bind[1] = p}
      q == e[Max(binds)]
  IN IF binds = {} THEN 0 ELSE Given(ps[q].bind, q)

Bound(p) == BoundIn(points, extent, p)

(* A parameter has a value that the innermost parameterize whose extent    *)
(* the program is in has computed, in before and after procedures as well, *)
(* and in the value expression of another parameterize.  Which of the      *)
(* values it has computed this is, that of an earlier entry of the extent  *)
(* perhaps, and how often it has been converted, is not said:              *)
(* parameterize computes a value at each entry (prelude.scm:2531) and      *)
(* converts an old one when it restores it (prelude.scm:2533).             *)
ParameterScoped == at = "run" => \A p \in Parameter : value[p] = Bound(p)

(* A jump arrives, if the procedures it calls on the way return.           *)
JumpsArrive == at = "travel" ~> (at = "run" /\ ~InThunk) \/ at = "halted"

=============================================================================
