------------------------------- MODULE Expander -------------------------------
(***************************************************************************)
(* The macro system of compile.scm, after "Macros That Work" (Clinger and  *)
(* Rees 1991): a context gives denotations to names, a macro is expanded   *)
(* with the names of its template renamed.                                 *)
(*                                                                         *)
(* A denotation is a symbol or a macro.  locals is a function on symbols;  *)
(* state is the record of macro-state and the number of names made.        *)
(***************************************************************************)
EXTENDS Syntax

NoLocals == <<>>

(* A macro is a transformer and the context of its definition.  The names  *)
(* that letrec-syntax binds are in that context, with these transformers.  *)
Macro(transformer, locals, recursive) ==
  [transformer |-> transformer, locals |-> locals, recursive |-> recursive]
IsMacro(denotation) == "transformer" \in DOMAIN denotation

MacroLocals(macro) ==
  [name \in DOMAIN macro.recursive |->
     Macro(macro.recursive[name], macro.locals, macro.recursive)] @@ macro.locals

InitialState ==
  [globals |-> <<>>,      \* denotations of names defined at the top level
   literals |-> <<>>,     \* the transformers of such macros, resolved
   static |-> {}, dynamic |-> {},  \* names defined, and names used
   renames |-> 0,
   failed |-> FALSE]

(* resolve-denotation *)
Resolve(locals, x) == IF x \in DOMAIN locals THEN locals[x] ELSE x

(* resolve-denotation-value *)
ResolveValue(locals, state, x) ==
  LET denotation == Resolve(locals, x)
  IN IF IsSymbol(denotation) /\ denotation \in DOMAIN state.globals
     THEN state.globals[denotation]
     ELSE denotation

-----------------------------------------------------------------------------
(* Patterns and templates, compiled. *)

LiteralPattern(denotation) == [literal |-> denotation]
EllipsisPattern(element, variables) == [element |-> element, variables |-> variables]
IsLiteral(x) == "literal" \in DOMAIN x
IsEllipsis(x) == "element" \in DOMAIN x

(* find-pattern-variables *)
RECURSIVE PatternVariables(_, _)
PatternVariables(excluded, p) ==
  CASE IsPair(p) -> PatternVariables(excluded, p.car) \o PatternVariables(excluded, p.cdr)
    [] IsEllipsis(p) -> PatternVariables(excluded, p.element)
    [] IsSymbol(p) /\ p \notin excluded -> <<p>>
    [] OTHER -> <<>>

(* compile-pattern *)
RECURSIVE CompilePattern(_, _, _, _)
CompilePattern(locals, ellipsis, literals, p) ==
  LET Compile(q) == CompilePattern(locals, ellipsis, literals, q)
      element == Compile(p.car)
  IN CASE IsSymbol(p) /\ Resolve(locals, p) \in literals -> LiteralPattern(Resolve(locals, p))
       [] ~IsPair(p) -> p
       [] IsPair(p) /\ Resolve(locals, p.car) = ellipsis -> Second(p)
       [] IsPair(p) /\ IsPair(p.cdr) /\ Resolve(locals, p.car) # ellipsis
            /\ Resolve(locals, Second(p)) = ellipsis ->
            Compile(Pair(EllipsisPattern(element, PatternVariables({}, element)), p.cdr.cdr))
       [] OTHER -> Pair(element, Compile(p.cdr))

(* match-pattern, as the set of its results: pairs of a variable and its    *)
(* value, or for a variable under an ellipsis, [matches |-> such values].   *)
IsMatches(x) == "matches" \in DOMAIN x

RECURSIVE MatchPattern(_, _, _), MatchEllipsis(_, _, _), MatchAll(_, _, _)

(* match-ellipsis-pattern, of the elements of a list *)
MatchEllipsis(locals, p, xs) ==
  {[i \in DOMAIN p.variables |->
      <<p.variables[i], [matches |-> [j \in DOMAIN ms |-> ms[j][i][2]]]>>] :
     ms \in MatchAll(locals, p.element, xs)}
MatchAll(locals, p, xs) ==
  IF xs = <<>>
  THEN {<<>>}
  ELSE {<<m>> \o ms : m \in MatchPattern(locals, p, Head(xs)),
                      ms \in MatchAll(locals, p, Tail(xs))}

MatchPattern(locals, p, x) ==
  CASE IsSymbol(p) -> {<<<<p, x>>>>}
    [] IsPair(p) /\ IsEllipsis(p.car) ->
         LET xs == Elements(x)
             n == Len(xs) - Len(Elements(p.cdr))
         IN IF n < 0
            THEN {}
            ELSE {m \o r : m \in MatchEllipsis(locals, p.car, SubSeq(xs, 1, n)),
                           r \in MatchPattern(locals, p.cdr,
                                   ListTo(SubSeq(xs, n + 1, Len(xs)), LastTail(x)))}
    [] IsPair(p) /\ ~IsEllipsis(p.car) /\ IsPair(x) ->
         {m \o r : m \in MatchPattern(locals, p.car, x.car),
                   r \in MatchPattern(locals, p.cdr, x.cdr)}
    [] IsLiteral(p) -> IF Resolve(locals, x) = p.literal THEN {<<>>} ELSE {}
    [] OTHER -> IF p = x THEN {<<>>} ELSE {}

-----------------------------------------------------------------------------
Assigned(matches, name) == \E i \in DOMAIN matches : matches[i][1] = name
Assq(matches, name) == SelectSeq(matches, LAMBDA pair : pair[1] = name)[1][2]

(* fill-template: the expressions that a template becomes *)
RECURSIVE FillTemplate(_, _)

(* fill-ellipsis-template *)
FillEllipsis(matches, t) ==
  LET used == SelectSeq(matches, LAMBDA pair : Contains(t.variables, pair[1]))
      single == SelectSeq(used, LAMBDA pair : ~IsMatches(pair[2]))
      many == SelectSeq(used, LAMBDA pair : IsMatches(pair[2]))
      length == Min({Len(many[i][2].matches) : i \in DOMAIN many})
  IN FlattenSeq([j \in 1 .. length |->
       FillTemplate([i \in DOMAIN many |-> <<many[i][1], many[i][2].matches[j]>>] \o single,
                    t.element)])

FillTemplate(matches, t) ==
  CASE IsSymbol(t) /\ Assigned(matches, t) -> <<Assq(matches, t)>>
    [] IsPair(t) -> <<ListTo(FillTemplate(matches, t.car), FillTemplate(matches, t.cdr)[1])>>
    [] IsLiteral(t) -> <<t.literal>>
    [] IsEllipsis(t) -> FillEllipsis(matches, t)
    [] OTHER -> <<t>>

-----------------------------------------------------------------------------
(* The rules of a transformer, compiled: pattern, template, and the names   *)
(* of the template that are to be renamed.                                  *)
Rules(macro) ==
  LET locals == MacroLocals(macro)
      transformer == macro.transformer
      ellipsis == Resolve(locals, Second(transformer))
      literals == {Resolve(locals, x) : x \in ToSet(Elements(Third(transformer)))}
      Rule(x) ==
        LET rule == CompilePattern(locals, ellipsis, literals, x)
        IN [pattern |-> rule.car,
            template |-> Second(rule),
            names |-> PatternVariables(ToSet(PatternVariables({}, rule.car)), Second(rule))]
      rules == Elements(transformer.cdr.cdr.cdr)
  IN [i \in DOMAIN rules |-> Rule(rules[i])]

(* rename-variable *)
Rename(name, n) == [symbol |-> name.symbol, rename |-> n]

(* Names and what they are renamed to, no two the same. *)
Renames(names, state) ==
  [name \in ToSet(names) |->
     Rename(name, state.renames + CHOOSE i \in DOMAIN names : names[i] = name)]

(* The use of a macro by one of its rules: the expression it becomes, in    *)
(* which the renamed names denote what they do where the macro is defined.  *)
Apply(macro, locals, state, rule, matches) ==
  LET new == Renames(rule.names, state)
      renames == [i \in DOMAIN rule.names |-> <<rule.names[i], new[rule.names[i]]>>]
      denotations ==
        [name \in ToSet([i \in DOMAIN renames |-> renames[i][2]]) |->
           Resolve(MacroLocals(macro), CHOOSE old \in DOMAIN new : new[old] = name)]
  IN [expression |-> FillTemplate(renames \o matches, rule.template)[1],
      locals |-> denotations @@ locals,
      state |-> [state EXCEPT !.renames = @ + Len(rule.names)]]

(* The use of a macro, by the first rule that matches; no result if there   *)
(* is none.                                                                *)
Transform(macro, locals, state, x) ==
  LET fitting == SelectSeq(Rules(macro),
                           LAMBDA rule : MatchPattern(locals, rule.pattern, x) # {})
      first == IF fitting = <<>> THEN {} ELSE {Head(fitting)}
  IN UNION {{Apply(macro, locals, state, rule, matches) :
               matches \in MatchPattern(locals, rule.pattern, x)} : rule \in first}

Result(x, state) == [expression |-> x, state |-> state]
Fail(state) == Result(False, [state EXCEPT !.failed = TRUE])

(* $$define, before it is $$set! *)
Define(state, name) ==
  [state EXCEPT !.globals = (name :> name) @@ @, !.static = @ \cup {name}]

(* Mutant: the transformer is kept for eval with the renamed names of the   *)
(* templates it comes from.                                                *)
DefineSyntaxRenamed(locals, state, name, transformer) ==
  [state EXCEPT
     !.globals = (name :> Macro(transformer, locals, <<>>)) @@ @,
     !.literals = (name :> transformer) @@ @,
     !.static = @ \cup {name}]

(* $$define-syntax *)
DefineSyntax(locals, state, name, transformer) ==
  [state EXCEPT
     !.globals = (name :> Macro(transformer, locals, <<>>)) @@ @,
     !.literals = (name :> DeepMap(LAMBDA x : Resolve(locals, x), transformer)) @@ @,
     !.static = @ \cup {name}]

(* Mutant: a macro bound by letrec-syntax does not know the others. *)
BindSyntaxFlat(form, bindings, locals) ==
  [name \in DOMAIN bindings |-> Macro(bindings[name], locals, <<>>)]

(* What $$let-syntax and $$letrec-syntax bind. *)
BindSyntax(form, bindings, locals) ==
  [name \in DOMAIN bindings |->
     Macro(bindings[name], locals,
           IF form = Symbol("$$letrec-syntax") THEN bindings ELSE <<>>)]

(* expand-macro *)
RECURSIVE Expand(_, _, _), ExpandUse(_, _), ExpandList(_, _, _)
Expand(locals, state, x) ==
  LET form == ResolveValue(locals, state, x.car)
      value == ResolveValue(locals, state, x)
      names == ParameterNames(Second(x))
      new == Renames(names, state)
      body == Expand(new @@ locals, [state EXCEPT !.renames = @ + Len(names)], Third(x))
      pairs == ToSet(Elements(Second(x)))
      bindings == [name \in {pair.car : pair \in pairs} |->
                     Second(CHOOSE pair \in pairs : pair.car = name)]
  IN IF state.failed THEN Result(x, state)
     ELSE IF IsSymbol(x)
     THEN IF IsMacro(value)
          THEN Fail(state)
          ELSE Result(value, IF IsSymbol(value) /\ x \notin DOMAIN locals
                             THEN [state EXCEPT !.dynamic = @ \cup {x}]
                             ELSE state)
     ELSE IF ~IsPair(x) THEN Result(x, state)
     ELSE CASE form = Symbol("$$define") ->
                 Expand(locals, Define(state, Second(x)), Pair(Symbol("$$set!"), x.cdr))
            [] form = Symbol("$$define-syntax") ->
                 Result(False, DefineSyntax(locals, state, Second(x), Third(x)))
            [] form = Symbol("$$lambda") ->
                 Result(List(<<Symbol("$$lambda"),
                               DeepMap(LAMBDA name : Resolve(new, name), Second(x)),
                               body.expression>>),
                        body.state)
            [] form \in {Symbol("$$let-syntax"), Symbol("$$letrec-syntax")} ->
                 Expand(BindSyntax(form, bindings, locals) @@ locals, state, Third(x))
            [] form = Symbol("$$quote") ->
                 Result(Pair(Symbol("$$quote"),
                             DeepMap(LAMBDA y : IF IsSymbol(y) THEN Symbol(y.symbol) ELSE y,
                                     x.cdr)),
                        state)
            [] form = Symbol("$$syntax-error") -> Fail(state)
            [] IsMacro(form) -> ExpandUse(Transform(form, locals, state, x), state)
            [] OTHER -> ExpandList(locals, state, x)

(* What the use of a macro becomes, expanded in turn. *)
ExpandUse(uses, state) ==
  LET use == CHOOSE use \in uses : TRUE
  IN IF uses = {} THEN Fail(state) ELSE Expand(use.locals, use.state, use.expression)

(* The elements of a list, one after the other. *)
ExpandList(locals, state, x) ==
  IF ~IsPair(x)
  THEN Result(x, state)
  ELSE LET first == Expand(locals, state, x.car)
           rest == ExpandList(locals, first.state, x.cdr)
       IN Result(Pair(first.expression, rest.expression), rest.state)

=============================================================================
