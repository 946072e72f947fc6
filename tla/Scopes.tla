-------------------------------- MODULE Scopes --------------------------------
(***************************************************************************)
(* What macros mean, as sets of scopes (Flatt 2016): a symbol has scopes,   *)
(* a form that binds names adds one to its body, the use of a macro adds    *)
(* one to what comes from the use and another one to what comes from the    *)
(* template, and a symbol refers to the binding with the most of its        *)
(* scopes.  No name is renamed and no environment is passed: the bindings   *)
(* are one set.                                                            *)
(***************************************************************************)
EXTENDS Syntax

Scoped(name, scopes) == [symbol |-> name, scopes |-> scopes]
Bare(x) == DeepMap(LAMBDA y : IF IsSymbol(y) THEN Scoped(y.symbol, {}) ELSE y, x)
AddScope(scope, x) ==
  DeepMap(LAMBDA y : IF IsSymbol(y) THEN [y EXCEPT !.scopes = @ \cup {scope}] ELSE y, x)
Quoted(x) == DeepMap(LAMBDA y : IF IsSymbol(y) THEN Symbol(y.symbol) ELSE y, x)

(* A binding is of a symbol to a variable or to a transformer. *)
Variable(name, n) == [symbol |-> name.symbol, scopes |-> name.scopes, binder |-> n]
IsTransformer(meaning) == "transformer" \in DOMAIN meaning

NoBindings ==
  [locals |-> {}, globals |-> <<>>, count |-> 0, failed |-> FALSE]

(* What a symbol refers to: the variable or the transformer of a form       *)
(* around it, or a name at the top level.                                   *)
Refers(bindings, s) ==
  LET candidates == {b \in bindings.locals : b.name.symbol = s.symbol
                                             /\ b.name.scopes \subseteq s.scopes}
      closest == CHOOSE b \in candidates :
                   \A c \in candidates : Cardinality(c.name.scopes) <= Cardinality(b.name.scopes)
  IN IF candidates = {} THEN Symbol(s.symbol) ELSE closest.meaning

(* The same, with macros of the top level. *)
Means(bindings, s) ==
  LET reference == Refers(bindings, s)
  IN IF reference \in DOMAIN bindings.globals THEN bindings.globals[reference] ELSE reference

SameName(bindings, s, t) == IsSymbol(t) /\ Refers(bindings, s) = Refers(bindings, t)

-----------------------------------------------------------------------------
(* Rules by their sources: ellipsis is a symbol, literals are symbols. *)
Repeats(bindings, ellipsis, p) == IsPair(p.cdr) /\ SameName(bindings, ellipsis, Second(p))
Escapes(bindings, ellipsis, p) == IsPair(p.cdr) /\ SameName(bindings, ellipsis, p.car)

RECURSIVE VariablesOf(_, _, _)
VariablesOf(bindings, rules, p) ==
  CASE IsPair(p) -> VariablesOf(bindings, rules, p.car) \cup VariablesOf(bindings, rules, p.cdr)
    [] IsSymbol(p) /\ ~SameName(bindings, rules.ellipsis, p)
         /\ ~(\E l \in rules.literals : SameName(bindings, l, p)) -> {p}
    [] OTHER -> {}

(* The ways x matches p: what each variable stands for, an expression or,   *)
(* under an ellipsis, a sequence of what it stands for in each element.     *)
RECURSIVE Matches(_, _, _, _)
Matches(bindings, rules, p, x) ==
  LET last == Len(Elements(x)) - Len(Elements(p.cdr.cdr))
      ways == [i \in 1 .. last |-> Matches(bindings, rules, p.car, Elements(x)[i])]
      rest == ListTo(SubSeq(Elements(x), last + 1, Len(Elements(x))), LastTail(x))
  IN CASE IsSymbol(p) ->
            IF VariablesOf(bindings, rules, p) = {}
            THEN IF SameName(bindings, p, x) THEN {<<>>} ELSE {}
            ELSE {p :> [is |-> x]}
       [] IsPair(p) ->
            IF Repeats(bindings, rules.ellipsis, p)
            THEN {[v \in VariablesOf(bindings, rules, p.car) |->
                     [each |-> [i \in 1 .. last |-> (CHOOSE way \in ways[i] : TRUE)[v]]]] @@ m :
                  m \in IF last >= 0 /\ \A i \in 1 .. last : ways[i] # {}
                        THEN Matches(bindings, rules, p.cdr.cdr, rest)
                        ELSE {}}
            ELSE IF IsPair(x)
            THEN {m @@ n : m \in Matches(bindings, rules, p.car, x.car),
                           n \in Matches(bindings, rules, p.cdr, x.cdr)}
            ELSE {}
       [] OTHER -> IF p = x THEN {<<>>} ELSE {}

(* What a template stands for, its own symbols in a scope of their own. *)
RECURSIVE Fill(_, _, _, _, _)
Fill(bindings, rules, match, scope, t) ==
  LET repeated == {v \in VariablesOf(bindings, rules, t.car) \cap DOMAIN match :
                     "each" \in DOMAIN match[v]}
      length == Len(match[CHOOSE v \in repeated : TRUE].each)
      copies == [i \in 1 .. length |->
                   Fill(bindings, rules, [v \in repeated |-> match[v].each[i]] @@ match, scope,
                        t.car)]
  IN CASE IsSymbol(t) -> IF t \in DOMAIN match THEN match[t].is ELSE AddScope(scope, t)
       [] IsPair(t) ->
            IF Escapes(bindings, rules.ellipsis, t)
            THEN Fill(bindings, [rules EXCEPT !.ellipsis = Scoped("no ellipsis", {})], match, scope,
                      Second(t))
            ELSE IF Repeats(bindings, rules.ellipsis, t)
            THEN ListTo(copies, Fill(bindings, rules, match, scope, t.cdr.cdr))
            ELSE Pair(Fill(bindings, rules, match, scope, t.car),
                      Fill(bindings, rules, match, scope, t.cdr))
       [] OTHER -> t

(* The expressions that the use of a macro may become: the first rule that  *)
(* matches, its keyword as any other variable.                              *)
Uses(bindings, transformer, x) ==
  LET names == [ellipsis |-> Second(transformer),
                literals |-> ToSet(Elements(Third(transformer)))]
      use == AddScope(bindings.count + 1, x)
      fitting == SelectSeq(Elements(transformer.cdr.cdr.cdr),
                           LAMBDA rule : Matches(bindings, names, rule.car, use) # {})
      first == IF fitting = <<>> THEN {} ELSE {Head(fitting)}
  IN UNION {{Fill(bindings, names, match, bindings.count + 2, Second(rule)) :
               match \in Matches(bindings, names, rule.car, use)} : rule \in first}

-----------------------------------------------------------------------------
Meaning(x, bindings) == [expression |-> x, state |-> bindings]
Invalid(bindings) == Meaning(False, [bindings EXCEPT !.failed = TRUE])
Bind(bindings, new) == [bindings EXCEPT !.locals = @ \cup new, !.count = @ + 1]

(* The expression of the core that x means. *)
RECURSIVE MeaningOf(_, _), MeaningOfUse(_, _), MeaningOfList(_, _)
MeaningOf(bindings, x) ==
  LET form == IF IsSymbol(x.car) THEN Means(bindings, x.car) ELSE Symbol("")
      scope == bindings.count + 1
      inside == AddScope(scope, x.cdr)
      names == ParameterNames(inside.car)
      variables == {[name |-> name, meaning |-> Variable(name, scope)] : name \in ToSet(names)}
      body == MeaningOf(Bind(bindings, variables), Second(inside))
      syntaxes ==
        {[name |-> pair[1].car,
          meaning |-> [transformer |-> Second(IF form = Symbol("$$let-syntax") THEN pair[2] ELSE pair[1])]] :
           pair \in {<<Elements(inside.car)[i], Elements(Second(x))[i]>> :
                       i \in DOMAIN Elements(inside.car)}}
      set == MeaningOfList([bindings EXCEPT !.globals = [n \in DOMAIN @ \ {Symbol(Second(x).symbol)} |-> @[n]]],
                           x.cdr)
  IN IF bindings.failed THEN Meaning(x, bindings)
     ELSE IF IsSymbol(x)
     THEN IF IsTransformer(Means(bindings, x)) THEN Invalid(bindings)
          ELSE Meaning(Means(bindings, x), bindings)
     ELSE IF ~IsPair(x) THEN Meaning(x, bindings)
     ELSE CASE form = Symbol("$$define") ->
                 Meaning(Pair(Symbol("$$set!"), set.expression), set.state)
            [] form = Symbol("$$define-syntax") ->
                 Meaning(False, [bindings EXCEPT !.globals =
                                   (Symbol(Second(x).symbol) :> [transformer |-> Third(x)]) @@ @])
            [] form = Symbol("$$lambda") ->
                 Meaning(List(<<form,
                                DeepMap(LAMBDA y : IF IsSymbol(y) THEN Variable(y, scope) ELSE y,
                                        inside.car),
                                body.expression>>),
                         body.state)
            [] form \in {Symbol("$$let-syntax"), Symbol("$$letrec-syntax")} ->
                 MeaningOf(Bind(bindings, syntaxes), Second(inside))
            [] form = Symbol("$$quote") -> Meaning(Pair(form, Quoted(x.cdr)), bindings)
            [] form = Symbol("$$syntax-error") -> Invalid(bindings)
            [] IsTransformer(form) ->
                 MeaningOfUse(bindings, Uses(bindings, form.transformer, x))
            [] OTHER -> MeaningOfList(bindings, x)

MeaningOfUse(bindings, uses) ==
  IF uses = {}
  THEN Invalid(bindings)
  ELSE MeaningOf([bindings EXCEPT !.count = @ + 2], CHOOSE y \in uses : TRUE)

MeaningOfList(bindings, x) ==
  IF ~IsPair(x)
  THEN Meaning(x, bindings)
  ELSE LET first == MeaningOf(bindings, x.car)
           rest == MeaningOfList(first.state, x.cdr)
       IN Meaning(Pair(first.expression, rest.expression), rest.state)

=============================================================================
