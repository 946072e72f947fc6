------------------------------- MODULE MCMacros -------------------------------
(***************************************************************************)
(* Checks Macros with transformers that bind names, refer to names, take    *)
(* names to bind, match literals, repeat, recur and define macros, in the   *)
(* definitions of two macros, and with uses of both within forms that bind  *)
(* the names that the templates have.                                      *)
(***************************************************************************)
EXTENDS Macros

a == Symbol("a")
b == Symbol("b")
e == Symbol("e")
m == Symbol("m")
n == Symbol("n")
x == Symbol("x")
y == Symbol("y")
Underscore == Symbol("_")
Dots == Symbol("...")
Colons == Symbol(":::")

Lambda(parameters, body) == List(<<Symbol("$$lambda"), List(parameters), body>>)
LetOne(name, value, body) == List(<<Lambda(<<name>>, body), value>>)
Definition(name, value) == List(<<Symbol("$$define"), name, value>>)
SyntaxDefinition(name, transformer) == List(<<Symbol("$$define-syntax"), name, transformer>>)
Rule(pattern, template) == List(<<List(<<Underscore>> \o pattern), template>>)
SyntaxRules(ellipsis, literals, rules) ==
  ListTo(<<Symbol("$$syntax-rules"), ellipsis, List(literals)>>, List(rules))

(* A name of the template around an expression of the use. *)
Binds == SyntaxRules(Dots, <<>>, <<Rule(<<e>>, LetOne(x, y, List(<<e, x>>)))>>)

(* A name of the use around one of the template. *)
Takes ==
  SyntaxRules(Dots, <<>>,
    <<Rule(<<Datum("let"), a, e>>, LetOne(a, x, List(<<e, x, a>>))),
      Rule(<<e>>, List(<<m, Datum("let"), y, List(<<e, y>>)>>))>>)

Chooses ==
  SyntaxRules(Dots, <<x>>,
    <<Rule(<<x>>, Datum("1")),
      Rule(<<e>>, List(<<e, y>>))>>)

Repeats ==
  SyntaxRules(Dots, <<>>,
    <<Rule(<<Datum("lets"), List(<<List(<<a, b>>), Dots>>), e>>,
           ListTo(<<Lambda(<<a, Dots>>, List(<<e, List(<<b, a>>), Dots>>))>>, List(<<b, Dots>>))),
      Rule(<<e>>, List(<<m, Datum("lets"), List(<<List(<<x, e>>), List(<<y, x>>)>>), List(<<x, y>>)>>))>>)

Recurs ==
  SyntaxRules(Dots, <<>>,
    <<Rule(<<>>, False),
      Rule(<<a, b, Dots>>, List(<<Symbol("$$if"), a, List(<<m, b, Dots>>), x>>))>>)

(* Nested ellipses, and an ellipsis before the end of a list. *)
Nests ==
  SyntaxRules(Dots, <<>>,
    <<Rule(<<List(<<a, Dots>>), Dots, e>>,
           List(<<List(<<x, a, Dots, e>>), Dots, List(<<Symbol("$$quote"), List(<<x, e>>)>>)>>))>>)

Defines ==
  SyntaxRules(Colons, <<>>,
    <<Rule(<<Datum("define"), a>>,
           SyntaxDefinition(a, SyntaxRules(Dots, <<>>, <<Rule(<<e>>, Lambda(<<y>>, List(<<e, x, y>>)))>>)))>>)

Transformers == {Binds, Takes, Chooses, Repeats, Recurs, Nests, Defines}

MCForm ==
  {SyntaxDefinition(name, t) : name \in {m, n}, t \in Transformers}
    \cup {List(<<m, Datum("define"), n>>), Definition(x, y), Definition(m, x)}

Uses ==
  {List(<<m, x>>), List(<<m, Datum("let"), x, List(<<n, x>>)>>), List(<<n, y>>),
   List(<<n, List(<<m, x>>)>>), List(<<m, List(<<n, x>>), y>>), m}

MCProbe ==
  Uses
    \cup {Lambda(<<name>>, use) : name \in {x, y, m}, use \in Uses}
    \cup {List(<<form, List(<<List(<<m, t>>)>>), Lambda(<<x>>, use)>>) :
            form \in {Symbol("$$let-syntax"), Symbol("$$letrec-syntax")},
            t \in Transformers, use \in Uses}

=============================================================================
