------------------------------- MODULE FrontEnd -------------------------------
(***************************************************************************)
(* The passes of main of compile.scm over a program of libraries, the run  *)
(* of what is left, and the compile of (stak compile), by which eval makes *)
(* expressions, imports and libraries part of a program that runs.         *)
(***************************************************************************)
EXTENDS Passes

CONSTANTS
  Program,    \* programs
  Evaluated,  \* what a program may give to eval
  MaxEvals    \* bound on how often it does

VARIABLES
  program, pass,
  expression,   \* the program so far
  context,      \* the libraries: of the compiler, then of eval
  macros,       \* the macros for eval, then the macro system of eval
  optimizers,   \* the optimizers, also those of eval
  imports,      \* the import sets of the environment that is given to eval
  machine,      \* auxiliary: what the program has done
  meant,        \* auxiliary: what it should have done
  evals         \* auxiliary: how often eval was called

vars == <<program, pass, expression, context, macros, optimizers, imports, machine, meant, evals>>

Reference == INSTANCE Linking

Init ==
  /\ program \in Program
  /\ pass = "source"
  /\ expression = Nil
  /\ context = NoLibraries
  /\ macros = InitialState
  /\ optimizers = <<>>
  /\ imports = <<>>
  /\ machine = Reference!Machine
  /\ meant = Reference!RunProgram(program)
  /\ evals = 0

(* expand-libraries; what is kept of a library for eval has no body *)
LibrariesPass ==
  /\ pass = "source"
  /\ LET expanded == ExpandLibraries(program)
     IN /\ expression' = expanded.expression
        /\ context' = [libraries |-> [name \in DOMAIN expanded.libraries |->
                                        [exports |-> expanded.libraries[name],
                                         imports |-> <<>>, body |-> <<>>]],
                       imported |-> {}]
  /\ pass' = "libraries"
  /\ UNCHANGED <<program, macros, optimizers, imports, machine, meant, evals>>

(* expand-macros *)
MacrosPass ==
  /\ pass = "libraries"
  /\ LET expanded == Expand(NoLocals, InitialState, expression)
     IN /\ expression' = expanded.expression
        /\ macros' = expanded.state
  /\ pass' = "macros"
  /\ UNCHANGED <<program, context, optimizers, imports, machine, meant, evals>>

(* optimize-custom *)
OptimizePass ==
  /\ pass = "macros"
  /\ LET optimized == OptimizeCustom(<<>>, expression)
     IN /\ expression' = optimized.expression
        /\ optimizers' = optimized.optimizers
  /\ pass' = "optimized"
  /\ UNCHANGED <<program, context, macros, imports, machine, meant, evals>>

(* What eval keeps of a macro system: it does not record what is defined.   *)
ForEval(state, globals) ==
  [InitialState EXCEPT !.globals = globals, !.renames = state.renames]

(* shake-tree and shake-syntax-tree; the macros are then those of eval *)
ShakePass ==
  /\ pass = "optimized"
  /\ expression' = ShakeTree(expression)
  /\ LET exports == [name \in DOMAIN context.libraries |-> context.libraries[name].exports]
         literals == [name \in {s \in DOMAIN macros.literals : IsLibrarySymbol(s)} |->
                        macros.literals[name]]
         shaken == ShakeSyntaxTree(exports, literals)
     IN macros' = ForEval(macros, [name \in DOMAIN shaken |->
                                     Macro(shaken[name], NoLocals, <<>>)])
  /\ pass' = "shaken"
  /\ UNCHANGED <<program, context, optimizers, imports, machine, meant, evals>>

(* optimize-begin *)
BeginPass ==
  /\ pass = "shaken"
  /\ expression' = OptimizeBegin(expression)
  /\ pass' = "compiled"
  /\ UNCHANGED <<program, context, macros, optimizers, imports, machine, meant, evals>>

(* The program, run from its first form to its last. *)
RunProgram ==
  /\ pass = "compiled"
  /\ machine' = Reference!Run(<<>>, machine, expression).machine
  /\ imports' = program.imports
  /\ pass' = "running"
  /\ UNCHANGED <<program, expression, context, macros, optimizers, meant, evals>>

-----------------------------------------------------------------------------
(* A program may use eval if $$libraries stands in it, as in (stak compile). *)
CanEval ==
  /\ pass = "running"
  /\ evals < MaxEvals
  /\ UsesLibraries(expression)
  /\ evals' = evals + 1
  /\ UNCHANGED <<pass, expression>>

(* The passes that eval has, of an expression whose symbols are resolved. *)
EvalExpression(x) ==
  LET expanded == Expand(NoLocals, macros, x)
      optimized == OptimizeCustom(optimizers, expanded.expression)
  IN /\ macros' = ForEval(expanded.state, expanded.state.globals)
     /\ optimizers' = optimized.optimizers
     /\ machine' = Reference!Run(<<>>, machine, OptimizeBegin(optimized.expression)).machine

Eval(x) ==
  /\ CanEval
  /\ EvalExpression(ResolveSymbols(ImportedNames(context, imports), x))
  /\ meant' = Reference!RunForm(meant, Reference!LocatedIn(program, imports, x))
  /\ UNCHANGED <<program, context, imports>>

(* An import: the libraries that are new to eval become an expression.  *)
EvalImport(set) ==
  LET sets == IF set \in ToSet(imports) THEN imports ELSE <<set>> \o imports
      bodies == ExpandBodies(context, [i \in DOMAIN sets |-> ImportedLibrary(sets[i])])
  IN /\ CanEval
     /\ ImportedLibrary(set) \in DOMAIN context.libraries
     /\ imports' = sets
     /\ context' = bodies.context
     /\ EvalExpression(List(<<Symbol("$$begin")>> \o bodies.body \o <<False>>))
     /\ meant' = Reference!Import(meant, program, sets)
     /\ UNCHANGED program

(* A definition of a library. *)
EvalLibrary(definition) ==
  /\ CanEval
  /\ \A i \in DOMAIN definition.imports :
       ImportedLibrary(definition.imports[i]) \in DOMAIN context.libraries
  /\ definition.name \notin DOMAIN context.libraries
  /\ context' = AddLibrary(context, definition)
  /\ program' = [program EXCEPT !.libraries = Append(@, definition)]
  /\ UNCHANGED <<macros, optimizers, imports, machine, meant>>

Next ==
  \/ LibrariesPass \/ MacrosPass \/ OptimizePass \/ ShakePass \/ BeginPass \/ RunProgram
  \/ \E x \in Evaluated.expressions : Eval(x)
  \/ \E set \in Evaluated.imports : EvalImport(set)
  \/ \E definition \in Evaluated.libraries : EvalLibrary(definition)

Spec == Init /\ [][Next]_vars

-----------------------------------------------------------------------------
(* A machine has done what it should have, if that is defined at all. *)
Did(m) == ~meant.machine.failed => ~m.failed /\ m.output = meant.machine.output

(* After every pass, the program does what its source means: each name      *)
(* refers to what its library imports or defines, each library is run once  *)
(* and after those it imports, and what is needed is still there.          *)
PassesKeepMeaning ==
  pass \in {"macros", "optimized", "shaken", "compiled"} =>
    Did(Reference!Run(<<>>, machine, expression).machine)

(* Expressions, imports and libraries given to eval do what they would have *)
(* done as part of the program.                                            *)
EvalKeepsMeaning == pass = "running" => Did(machine)

(* Tree shaking leaves no definitions of libraries that only need each      *)
(* other.                                                                  *)
Definitions == {x \in ToSet(Elements(expression.cdr)) :
                  IsPair(x) /\ x.car = Symbol("$$set!") /\ IsLibrarySymbol(Second(x))}

NothingUnneeded ==
  (pass = "shaken" /\ ~UsesLibraries(expression)) =>
    \A unneeded \in SUBSET Definitions \ {{}} :
      \E x \in ToSet(Elements(expression.cdr)) \ unneeded, y \in unneeded :
        Second(y) \in LibrarySymbols({}, IF x \in Definitions THEN Third(x) ELSE x)

=============================================================================
