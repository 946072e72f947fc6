-------------------------------- MODULE Passes --------------------------------
(***************************************************************************)
(* The passes of compile.scm before code generation: the library system,   *)
(* by which libraries become one expression in which the names of each are *)
(* symbols of its own; optimization; and tree shaking, which leaves out    *)
(* definitions of libraries that a program does not need, and macros that  *)
(* eval does not need.                                                     *)
(*                                                                         *)
(* A library definition has a name, import sets, exports (pairs of the     *)
(* name outside and the name inside) and a body.  A context has libraries  *)
(* by name and the names of those whose bodies are in the expression.  An  *)
(* optimizer is a sequence of rules: pattern and template, compiled.       *)
(***************************************************************************)
EXTENDS Expander

CONSTANT BuiltIn  \* built-in-symbol?: the symbols that begin with "$$"

(* A symbol that is not imported becomes another one, of a name with a "%". *)
LibrarySymbol(name, library) == [symbol |-> name.symbol, rename |-> 0, library |-> library]
IsLibrarySymbol(x) == IsSymbol(x) /\ "library" \in DOMAIN x

NoLibraries == [libraries |-> <<>>, imported |-> {}]

(* parse-import-set: the library of a set, and the name that a name which   *)
(* the library exports has in the set, or NoName.                           *)
NoName == Nil

RECURSIVE ImportedLibrary(_), Qualify(_, _)
ImportedLibrary(set) == IF "library" \in DOMAIN set THEN set.library ELSE ImportedLibrary(set.of)

Qualify(set, exported) ==
  LET name == Qualify(set.of, exported)
  IN CASE "library" \in DOMAIN set -> exported
       [] "library" \notin DOMAIN set /\ name = NoName -> NoName
       [] OTHER ->
            CASE set.form = "except" -> IF name \in set.names THEN NoName ELSE name
              [] set.form = "only" -> IF name \in set.names THEN name ELSE NoName
              [] set.form = "prefix" -> Symbol(set.prefix \o name.symbol)
              [] set.form = "rename" ->
                   IF Assigned(set.names, name) THEN Assq(set.names, name) ELSE name

(* collect-imported-names: pairs of a name and the symbol it stands for *)
ImportedNames(context, sets) ==
  LET NamesOf(set) ==
        LET exports == context.libraries[ImportedLibrary(set)].exports
            names == [i \in DOMAIN exports |-> <<Qualify(set, exports[i][1]), exports[i][2]>>]
        IN SelectSeq(names, LAMBDA pair : pair[1] # NoName)
  IN FlattenSeq([i \in DOMAIN sets |-> NamesOf(sets[i])])

(* resolve-environment-symbols, for an expression of a program: what is not *)
(* imported keeps its name.                                                *)
ResolveSymbols(names, x) ==
  DeepMap(LAMBDA y : IF IsSymbol(y) /\ Assigned(names, y) THEN Assq(names, y) ELSE y, x)

(* Mutant: two libraries share the symbols they do not import. *)
ResolveLibrarySymbolShared(names, library, s) ==
  CASE s \in BuiltIn -> s
    [] s \notin BuiltIn /\ Assigned(names, s) -> Assq(names, s)
    [] OTHER -> LibrarySymbol(s, "")

(* resolve-symbol of add-library-definition! *)
ResolveLibrarySymbol(names, library, s) ==
  CASE s \in BuiltIn -> s
    [] s \notin BuiltIn /\ Assigned(names, s) -> Assq(names, s)
    [] OTHER -> LibrarySymbol(s, library)

(* add-library-definition! *)
AddLibrary(context, definition) ==
  LET names == ImportedNames(context, definition.imports)
      ResolveHere(s) == ResolveLibrarySymbol(names, definition.name, s)
      library ==
        [exports |-> [i \in DOMAIN definition.exports |->
                        <<definition.exports[i][1], ResolveHere(definition.exports[i][2])>>],
         imports |-> [i \in DOMAIN definition.imports |-> ImportedLibrary(definition.imports[i])],
         body |-> [i \in DOMAIN definition.body |->
                     DeepMap(LAMBDA y : IF IsSymbol(y) THEN ResolveHere(y) ELSE y,
                             definition.body[i])]]
  IN [context EXCEPT !.libraries = (definition.name :> library) @@ @]

(* expand-library-bodies *)
RECURSIVE ExpandBodies(_, _)
ExpandBodies(context, names) ==
  LET name == Head(names)
      first == IF name \in context.imported
               THEN [body |-> <<>>, context |-> context]
               ELSE ExpandBodies([context EXCEPT !.imported = @ \cup {name}],
                                 context.libraries[name].imports)
      own == IF name \in context.imported THEN <<>> ELSE context.libraries[name].body
      rest == ExpandBodies(first.context, Tail(names))
  IN IF names = <<>>
     THEN [body |-> <<>>, context |-> context]
     ELSE [body |-> first.body \o own \o rest.body, context |-> rest.context]

(* expand-libraries: one expression, and the exports of each library in it *)
ExpandLibraries(program) ==
  LET context == FoldLeft(AddLibrary, NoLibraries, program.libraries)
      libraries == [i \in DOMAIN program.imports |-> ImportedLibrary(program.imports[i])]
      bodies == ExpandBodies(context, libraries)
      names == ImportedNames(context, program.imports)
  IN [expression |->
        List(<<Symbol("$$begin"), False>> \o bodies.body
               \o [i \in DOMAIN program.body |-> ResolveSymbols(names, program.body[i])]),
      libraries |-> [name \in bodies.context.imported |-> context.libraries[name].exports]]

-----------------------------------------------------------------------------
(* Optimization. *)

(* make-optimizer *)
MakeOptimizer(transformer) ==
  LET literals == ToSet(Elements(Third(transformer)))
      rules == Elements(transformer.cdr.cdr.cdr)
      Compiled(x) == CompilePattern(NoLocals, Second(transformer), literals, x)
  IN [i \in DOMAIN rules |-> <<Compiled(rules[i].car), Compiled(Second(rules[i]))>>]

(* The first rule that matches, or the expression as it is.  *)
ApplyOptimizer(rules, x) ==
  LET fitting == SelectSeq(rules, LAMBDA rule : MatchPattern(NoLocals, rule[1], x) # {})
  IN IF fitting = <<>>
     THEN x
     ELSE FillTemplate(CHOOSE m \in MatchPattern(NoLocals, fitting[1][1], x) : TRUE,
                       fitting[1][2])[1]

Optimized(x, optimizers) == [expression |-> x, optimizers |-> optimizers]

(* optimize-custom-expression: the elements, from left to right, and then   *)
(* the expression, whose result is optimized again.                         *)
RECURSIVE OptimizeCustom(_, _), OptimizeElements(_, _), OptimizeNode(_)
OptimizeCustom(optimizers, x) ==
  IF ~IsPair(x) \/ x.car = Symbol("$$quote")
  THEN Optimized(x, optimizers)
  ELSE OptimizeNode(OptimizeElements(optimizers, x))

OptimizeElements(optimizers, x) ==
  LET first == OptimizeCustom(optimizers, x.car)
      rest == OptimizeElements(first.optimizers, x.cdr)
  IN IF IsPair(x)
     THEN Optimized(Pair(first.expression, rest.expression), rest.optimizers)
     ELSE OptimizeCustom(optimizers, x)

OptimizeNode(elements) ==
  LET x == elements.expression
      optimizers == elements.optimizers
      result == ApplyOptimizer(optimizers[x.car], x)
  IN CASE x.car = Symbol("$$define-optimizer") ->
            Optimized(False, (Second(x) :> MakeOptimizer(Third(x))) @@ optimizers)
       [] x.car \in DOMAIN optimizers ->
            IF result = x THEN elements ELSE OptimizeCustom(optimizers, result)
       [] OTHER -> elements

(* The expressions of a begin that have an effect, and the last one.  *)
RECURSIVE Sequence(_)
Sequence(xs) ==
  CASE Len(xs) = 1 -> xs
    [] Len(xs) > 1 /\ ~IsPair(Head(xs)) -> Sequence(Tail(xs))
    [] Len(xs) > 1 /\ IsPair(Head(xs)) ->
         IF Head(xs).car = Symbol("$$begin")
         THEN Sequence(Elements(Head(xs).cdr) \o Tail(xs))
         ELSE <<Head(xs)>> \o Sequence(Tail(xs))

(* optimize-begin *)
RECURSIVE OptimizeBegin(_), OptimizeBegins(_)
OptimizeBegin(x) ==
  LET elements == OptimizeBegins(x)
  IN CASE ~IsPair(x) -> x
       [] IsPair(x) /\ x.car = Symbol("$$quote") -> x
       [] IsPair(x) /\ x.car = Symbol("$$begin") ->
            Pair(x.car, List(Sequence(Elements(elements.cdr))))
       [] OTHER -> elements
OptimizeBegins(x) ==
  IF IsPair(x) THEN Pair(OptimizeBegin(x.car), OptimizeBegins(x.cdr)) ELSE x

-----------------------------------------------------------------------------
(* find-library-symbols, of an expression or of the rest of one *)
RECURSIVE LibrarySymbols(_, _)
LibrarySymbols(locals, x) ==
  CASE IsPair(x) /\ x.car = Symbol("$$lambda") ->
         LibrarySymbols(locals \cup ToSet(ParameterNames(Second(x))), x.cdr.cdr)
    [] IsPair(x) /\ x.car # Symbol("$$lambda") ->
         LibrarySymbols(locals, x.car) \cup LibrarySymbols(locals, x.cdr)
    [] IsSymbol(x) -> IF IsLibrarySymbol(x) THEN {x} \ locals ELSE {}
    [] OTHER -> {}

(* merge-multi-maps *)
Merged(m, n) ==
  [key \in DOMAIN m \cup DOMAIN n |->
     (IF key \in DOMAIN m THEN m[key] ELSE {}) \cup (IF key \in DOMAIN n THEN n[key] ELSE {})]

(* find-symbol-dependencies; what is always required depends on Always. *)
Always == Nil

RECURSIVE Dependencies(_)

(* Mutant: every definition is required. *)
DependenciesOfAll(x) ==
  LET elements == Elements(x.cdr)
  IN CASE IsPair(x) /\ x.car = Symbol("$$begin") ->
            FoldLeft(Merged, <<>>, [i \in DOMAIN elements |-> Dependencies(elements[i])])
       [] OTHER -> Always :> LibrarySymbols({}, x)

Dependencies(x) ==
  LET elements == Elements(x.cdr)
      needed == LibrarySymbols({}, x)
  IN CASE IsPair(x) /\ x.car = Symbol("$$begin") ->
            FoldLeft(Merged, <<>>, [i \in DOMAIN elements |-> Dependencies(elements[i])])
       [] IsPair(x) /\ x.car = Symbol("$$set!") ->
            Merged(Second(x) :> LibrarySymbols({}, Third(x)),
                   IF IsLibrarySymbol(Second(x)) THEN <<>> ELSE Always :> {Second(x)})
       [] OTHER -> Always :> needed

(* tree-shake-context-append!: the symbols and all that they depend on *)
RECURSIVE Required(_, _)
Required(dependencies, symbols) ==
  LET more == symbols \cup UNION {dependencies[s] : s \in symbols \cap DOMAIN dependencies}
  IN IF more = symbols THEN symbols ELSE Required(dependencies, more)

(* shake-expression *)
RECURSIVE ShakeExpression(_, _, _), ShakeSequence(_, _, _)
ShakeExpression(required, locals, x) ==
  CASE ~IsPair(x) -> x
    [] IsPair(x) /\ x.car = Symbol("$$lambda") ->
         Pair(x.car, Pair(Second(x),
                          ShakeSequence(required, locals \cup ToSet(ParameterNames(Second(x))),
                                        x.cdr.cdr)))
    [] IsPair(x) /\ x.car = Symbol("$$quote") -> x
    [] IsPair(x) /\ x.car = Symbol("$$set!") ->
         IF Second(x) \in locals \cup required THEN x ELSE False
    [] OTHER -> ShakeSequence(required, locals, x)
ShakeSequence(required, locals, x) ==
  IF IsPair(x)
  THEN Pair(ShakeExpression(required, locals, x.car), ShakeSequence(required, locals, x.cdr))
  ELSE x

(* detect-features, of the one that keeps a program from being shaken *)
RECURSIVE UsesLibraries(_)
UsesLibraries(x) ==
  \/ x = List(<<Symbol("$$libraries")>>)
  \/ \E y \in ToSet(Elements(x)) : UsesLibraries(y)

(* shake-tree *)
ShakeTree(x) ==
  LET dependencies == Merged(Always :> {}, Dependencies(x))
  IN IF UsesLibraries(x)
     THEN x
     ELSE ShakeExpression(Required(dependencies, dependencies[Always]), {}, x)

(* The symbols of a transformer that are not of its patterns. *)
TemplateSymbols(transformer) ==
  LET rules == Elements(transformer.cdr.cdr.cdr)
      literals == {Second(transformer)} \cup ToSet(Elements(Third(transformer)))
      SymbolsOf(x) == LibrarySymbols({}, x)
  IN UNION {LibrarySymbols(SymbolsOf(rules[i].car) \cup literals, Second(rules[i])) :
              i \in DOMAIN rules}

(* Mutant: a macro that no library exports is left out, also if others need  *)
(* it.                                                                      *)
ShakeSyntaxTreeFlat(libraries, macros) ==
  [name \in DOMAIN macros \cap UNION {{libraries[l][i][2] : i \in DOMAIN libraries[l]} :
                                       l \in DOMAIN libraries} |-> macros[name]]

(* shake-syntax-tree: the macros that those exported by libraries need *)
ShakeSyntaxTree(libraries, macros) ==
  LET exported == UNION {{libraries[name][i][2] : i \in DOMAIN libraries[name]} :
                           name \in DOMAIN libraries}
      dependencies == [name \in DOMAIN macros |-> TemplateSymbols(macros[name])]
  IN [name \in DOMAIN macros \cap Required(dependencies, exported) |-> macros[name]]

=============================================================================
