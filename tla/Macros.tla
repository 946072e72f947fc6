-------------------------------- MODULE Macros --------------------------------
(***************************************************************************)
(* A program of top-level forms, one after the other expanded by the macro *)
(* system of compile.scm, and what each of them means.                     *)
(***************************************************************************)
EXTENDS Expander

CONSTANTS
  Form,     \* the forms there are
  Probe,    \* expressions in which a macro may be used, also at run time
  MaxForms  \* bound on the forms of a program

VARIABLES
  state,       \* what the macro system keeps from form to form
  bindings,    \* auxiliary: what is bound so far
  forms        \* auxiliary: how many forms there were

vars == <<state, bindings, forms>>

Reference == INSTANCE Scopes

Init ==
  /\ state = InitialState
  /\ bindings = Reference!NoBindings
  /\ forms = 0

(* expand-macros, of one form *)
ExpandForm(x) ==
  /\ forms < MaxForms
  /\ ~state.failed
  /\ state' = Expand(NoLocals, state, x).state
  /\ bindings' = Reference!MeaningOf(bindings, Reference!Bare(x)).state
  /\ forms' = forms + 1

Next == \E x \in Form : ExpandForm(x)

Spec == Init /\ [][Next]_vars

(* The macro system of eval, with the macros that the compiler left in the  *)
(* program.                                                                *)
AtRunTime ==
  [state EXCEPT !.globals =
     [name \in DOMAIN state.literals |-> Macro(state.literals[name], NoLocals, <<>>)]]

-----------------------------------------------------------------------------
(* Two results are both invalid, or mean the same. *)
Agree(one, other) ==
  /\ one.state.failed = other.state.failed
  /\ ~one.state.failed => SameMeaning(one.expression, other.expression, <<>>)

(* Whatever was defined before, an expression is expanded to what it means: *)
(* each name refers to what is bound where it was written, in the template  *)
(* of a macro or around its use, and only there, whatever names either uses; *)
(* and it is invalid in both or in neither.                                *)
Hygienic ==
  /\ state.failed = bindings.failed
  /\ ~state.failed =>
       \A x \in Probe : Agree(Expand(NoLocals, state, x),
                             Reference!MeaningOf(bindings, Reference!Bare(x)))

(* As long as no macro is redefined as a variable, eval expands an          *)
(* expression to what the compiler would have made of it.  Not of every    *)
(* macro: the Form of the run have no template that makes a macro with a   *)
(* pattern variable from its use, which can coincide with a free name of   *)
(* the template when the pattern is resolved for eval (compile.scm:762).   *)
EvalAgrees ==
  (~state.failed /\ \A name \in DOMAIN state.literals : IsMacro(state.globals[name])) =>
    \A x \in Probe : Agree(Expand(NoLocals, state, x), Expand(NoLocals, AtRunTime, x))

=============================================================================
