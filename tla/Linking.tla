-------------------------------- MODULE Linking --------------------------------
(***************************************************************************)
(* What a program of libraries means, as R7RS defines it: an import set is *)
(* a function from names to locations, a library is instantiated once,     *)
(* after those it imports, and has an environment of its own.  Macros mean  *)
(* what Scopes says.  Then, what an expression of the core does.           *)
(***************************************************************************)
EXTENDS Scopes

CONSTANT BuiltIn

Definition(program, name) ==
  program.libraries[CHOOSE i \in DOMAIN program.libraries : program.libraries[i].name = name]

Union(functions) ==
  [x \in UNION {DOMAIN f : f \in functions} |-> (CHOOSE f \in functions : x \in DOMAIN f)[x]]

(* The locations of the names of an import set, of several, and of those    *)
(* within a library.                                                       *)
RECURSIVE ImportSet(_, _), Location(_, _, _)
Environment(program, sets) == Union({ImportSet(program, sets[i]) : i \in DOMAIN sets})

Location(program, name, s) ==
  LET environment == Environment(program, Definition(program, name).imports)
  IN CASE s \in BuiltIn -> s
       [] s \notin BuiltIn /\ s \in DOMAIN environment -> environment[s]
       [] OTHER -> Symbol(name \o "." \o s.symbol)

Exports(program, name) ==
  LET exports == ToSet(Definition(program, name).exports)
  IN [external \in {pair[1] : pair \in exports} |->
        Location(program, name, (CHOOSE pair \in exports : pair[1] = external)[2])]

ImportSet(program, set) ==
  LET names == ImportSet(program, set.of)
      renamed(s) == IF \E i \in DOMAIN set.names : set.names[i][1] = s
                    THEN set.names[CHOOSE i \in DOMAIN set.names : set.names[i][1] = s][2]
                    ELSE s
      prefixed(s) == Symbol(set.prefix \o s.symbol)
      Mapped(F(_)) == [s \in {F(old) : old \in DOMAIN names} |->
                         names[CHOOSE old \in DOMAIN names : F(old) = s]]
  IN IF "library" \in DOMAIN set
     THEN Exports(program, set.library)
     ELSE CASE set.form = "only" -> [s \in DOMAIN names \cap set.names |-> names[s]]
            [] set.form = "except" -> [s \in DOMAIN names \ set.names |-> names[s]]
            [] set.form = "prefix" -> Mapped(prefixed)
            [] set.form = "rename" -> Mapped(renamed)

(* A form with its names as locations; what is quoted is not a name. *)
RECURSIVE Located(_, _)
Located(F(_), x) ==
  CASE IsSymbol(x) -> F(x)
    [] IsPair(x) -> IF x.car = Symbol("$$quote") THEN x
                    ELSE Pair(Located(F, x.car), Located(F, x.cdr))
    [] OTHER -> x

(* The libraries of import sets in the order of their instances. *)
RECURSIVE LibraryOf(_), Instances(_, _, _)
LibraryOf(set) == IF "library" \in DOMAIN set THEN set.library ELSE LibraryOf(set.of)
Instances(program, sets, before) ==
  IF sets = <<>>
  THEN before
  ELSE LET name == LibraryOf(Head(sets))
           imported == Instances(program, Definition(program, name).imports, before)
       IN Instances(program, Tail(sets),
                    IF name \in ToSet(before) THEN before ELSE Append(imported, name))

(* The forms of a library, and one of the program itself. *)
BodyOf(program, name) ==
  LET LocationHere(s) == Location(program, name, s)
      body == Definition(program, name).body
  IN [i \in DOMAIN body |-> Located(LocationHere, body[i])]

LocatedIn(program, sets, x) ==
  LET environment == Environment(program, sets)
      LocationHere(s) == IF s \in DOMAIN environment THEN environment[s] ELSE s
  IN Located(LocationHere, x)

-----------------------------------------------------------------------------
(* What an expression of the core does: a machine has the values of global  *)
(* variables and the output so far, and has failed or not.                  *)
Machine == [globals |-> <<>>, output |-> <<>>, failed |-> FALSE]
Done(value, machine) == [value |-> value, machine |-> machine]
Failure(machine) == Done(False, [machine EXCEPT !.failed = TRUE])

RECURSIVE Run(_, _, _), RunList(_, _, _), Call(_, _)
Run(locals, machine, x) ==
  CASE machine.failed -> Done(False, machine)
    [] ~machine.failed /\ IsSymbol(x) ->
         CASE x \in DOMAIN locals -> Done(locals[x], machine)
           [] x \notin DOMAIN locals /\ x \in DOMAIN machine.globals ->
                Done(machine.globals[x], machine)
           [] x = Symbol("$$write") -> Done([primitive |-> "write"], machine)
           [] OTHER -> Failure(machine)
    [] ~machine.failed /\ ~IsSymbol(x) /\ ~IsPair(x) -> Done(x, machine)
    [] OTHER ->
         CASE x.car = Symbol("$$quote") -> Done(Second(x), machine)
           \* An optimizer makes no difference to what is done.
           [] x.car = Symbol("$$define-optimizer") -> Done(False, machine)
           [] x.car = Symbol("$$lambda") ->
                Done([closure |-> [parameters |-> Elements(Second(x)), body |-> Third(x),
                                   locals |-> locals]], machine)
           [] x.car = Symbol("$$set!") ->
                LET result == Run(locals, machine, Third(x))
                IN Done(False, [result.machine EXCEPT
                                  !.globals = (Second(x) :> result.value) @@ @])
           [] x.car = Symbol("$$if") ->
                LET test == Run(locals, machine, Second(x))
                IN Run(locals, test.machine,
                       IF test.value = False THEN Third(x.cdr) ELSE Third(x))
           [] x.car = Symbol("$$begin") ->
                LET results == RunList(locals, machine, x.cdr)
                IN Done(Last(results.value), results.machine)
           [] OTHER ->
                LET results == RunList(locals, machine, x)
                IN Call(results.machine, results.value)

RunList(locals, machine, xs) ==
  LET first == Run(locals, machine, xs.car)
      rest == RunList(locals, first.machine, xs.cdr)
  IN IF IsPair(xs) THEN Done(<<first.value>> \o rest.value, rest.machine) ELSE Done(<<>>, machine)

Call(machine, values) ==
  LET f == Head(values)
      parameters == f.closure.parameters
      arguments == [name \in ToSet(parameters) |->
                      values[1 + CHOOSE i \in DOMAIN parameters : parameters[i] = name]]
  IN CASE machine.failed -> Done(False, machine)
       [] ~machine.failed /\ "primitive" \in DOMAIN f ->
            Done(values[2], [machine EXCEPT !.output = Append(@, values[2])])
       [] ~machine.failed /\ "closure" \in DOMAIN f /\ Len(parameters) = Len(values) - 1 ->
            Run(arguments @@ f.closure.locals, machine, f.closure.body)
       [] OTHER -> Failure(machine)

(* What a program does: its forms one after the other, with the macros so   *)
(* far and the libraries that have an instance.                            *)
RunForm(s, x) ==
  LET meant == MeaningOf(s.bindings, Bare(x))
  IN [s EXCEPT !.bindings = meant.state, !.machine = Run(<<>>, @, meant.expression).machine]

Import(s, program, sets) ==
  LET instances == Instances(program, sets, s.instances)
      new == SubSeq(instances, Len(s.instances) + 1, Len(instances))
  IN FoldLeft(RunForm, [s EXCEPT !.instances = instances],
              FlattenSeq([i \in DOMAIN new |-> BodyOf(program, new[i])]))

RunProgram(program) ==
  FoldLeft(RunForm,
           Import([bindings |-> NoBindings, machine |-> Machine, instances |-> <<>>],
                  program, program.imports),
           [i \in DOMAIN program.body |-> LocatedIn(program, program.imports, program.body[i])])

=============================================================================
