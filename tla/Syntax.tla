-------------------------------- MODULE Syntax --------------------------------
(***************************************************************************)
(* Expressions of the front end of compile.scm: symbols, pairs and what    *)
(* else Scheme reads.  A renamed symbol is another one of the same name    *)
(* (rename-variable makes it of the name and a "#").                       *)
(***************************************************************************)
EXTENDS Integers, Sequences, SequencesExt

Symbol(name) == [symbol |-> name, rename |-> 0]
Pair(x, y) == [car |-> x, cdr |-> y]
Nil == [null |-> TRUE]
Datum(x) == [datum |-> x]
False == Datum("#f")

IsSymbol(x) == "symbol" \in DOMAIN x
IsPair(x) == "car" \in DOMAIN x

(* A list, and one with a tail. *)
ListTo(xs, tail) == FoldRight(Pair, xs, tail)
List(xs) == ListTo(xs, Nil)

Second(x) == x.cdr.car
Third(x) == x.cdr.cdr.car

(* The elements of a list before its tail, and the tail. *)
RECURSIVE Elements(_), LastTail(_)
Elements(x) == IF IsPair(x) THEN <<x.car>> \o Elements(x.cdr) ELSE <<>>
LastTail(x) == IF IsPair(x) THEN LastTail(x.cdr) ELSE x

(* parameter-names *)
ParameterNames(x) == Elements(x) \o IF IsSymbol(LastTail(x)) THEN <<LastTail(x)>> ELSE <<>>

(* relaxed-deep-map *)
RECURSIVE DeepMap(_, _)
DeepMap(F(_), x) == IF IsPair(x) THEN Pair(DeepMap(F, x.car), DeepMap(F, x.cdr)) ELSE F(x)

(* Whether an expression of the core, with lambda and quote alone to bind   *)
(* and to protect symbols, is another one with other names for the same     *)
(* parameters: names pairs the parameters around them, innermost first.     *)
RECURSIVE SameMeaning(_, _, _)
SameMeaning(x, y, names) ==
  LET xs == ParameterNames(Second(x))
      ys == ParameterNames(Second(y))
      parameters == [i \in DOMAIN xs |-> <<xs[i], ys[i]>>]
      \* What a symbol is, as one of the first or of the second expression.
      Index(s, side) == SelectInSeq(names, LAMBDA pair : pair[side] = s)
  IN CASE IsSymbol(x) /\ IsSymbol(y) ->
            /\ Index(x, 1) = Index(y, 2)
            /\ (Index(x, 1) = 0 => x = y)
       [] IsPair(x) /\ IsPair(y) ->
            IF x.car = Symbol("$$lambda") /\ y.car = x.car
            THEN /\ Len(xs) = Len(ys)
                 /\ IsSymbol(LastTail(Second(x))) = IsSymbol(LastTail(Second(y)))
                 /\ SameMeaning(Third(x), Third(y), Reverse(parameters) \o names)
            ELSE IF x.car = Symbol("$$quote")
            THEN x = y
            ELSE SameMeaning(x.car, y.car, names) /\ SameMeaning(x.cdr, y.cdr, names)
       [] OTHER -> x = y

=============================================================================
