------------------------------ MODULE MCFrontEnd ------------------------------
(***************************************************************************)
(* Checks FrontEnd with a library of procedures, a macro and an optimizer,  *)
(* one that imports it in many ways, and programs that import either or     *)
(* both, with private names the same in all of them.                       *)
(***************************************************************************)
EXTENDS FrontEnd

MCBuiltIn ==
  {Symbol(name) : name \in {"$$define", "$$set!", "$$lambda", "$$quote", "$$if", "$$begin",
                            "$$write", "$$define-syntax", "$$syntax-rules",
                            "$$define-optimizer", "$$libraries"}}

h == Symbol("h")
i == Symbol("i")
x == Symbol("x")
y == Symbol("y")
m == Symbol("m")
z == Symbol("z")
w == Symbol("w")
p == Symbol("p")

Lambda(parameters, body) == List(<<Symbol("$$lambda"), List(parameters), body>>)
Define_(name, value) == List(<<Symbol("$$define"), name, value>>)
Write(value) == List(<<Symbol("$$write"), value>>)
Begin(xs) == List(<<Symbol("$$begin")>> \o xs)
SyntaxRules(pattern, template) ==
  List(<<Symbol("$$syntax-rules"), Symbol("..."), Nil, List(<<pattern, template>>)>>)
DefineSyntax_(name, transformer) == List(<<Symbol("$$define-syntax"), name, transformer>>)
Quote(datum) == List(<<Symbol("$$quote"), datum>>)
Rule(template) == SyntaxRules(List(<<Symbol("_"), p>>), template)

Library(library) == [library |-> library]
Set(form, names, set) == [form |-> form, names |-> names, of |-> set]
Only(names, set) == Set("only", names, set)
Except(names, set) == Set("except", names, set)
Renamed(names, set) == Set("rename", names, set)
Prefixed(prefix, set) == [form |-> "prefix", prefix |-> prefix, of |-> set]

Direct == <<<<x, x>>, <<y, y>>, <<m, m>>>>
Swapped == <<<<x, y>>, <<y, x>>, <<m, m>>>>

(* h and the macro i are private, y is optimized to x, and the macro m refers *)
(* to all of these.                                                         *)
LibraryA(exports) ==
  [name |-> "a", imports |-> <<>>, exports |-> exports,
   body |-> <<Define_(h, Lambda(<<p>>, Begin(<<Write(Quote(x)), p>>))),
              Define_(x, Lambda(<<p>>, Write(List(<<h, p>>)))),
              Define_(y, Lambda(<<p>>, List(<<x, p>>))),
              DefineSyntax_(i, Rule(List(<<h, p>>))),
              DefineSyntax_(m, Rule(List(<<Symbol("$$if"), List(<<i, p>>), List(<<y, p>>), p>>))),
              List(<<Symbol("$$define-optimizer"), y, Rule(List(<<x, p>>))>>)>>]

(* The names that import sets give to x and y of a library. *)
ImportSets(library) ==
  {Library(library), Except({m}, Library(library)),
   Only({Symbol("p-x"), Symbol("p-m")}, Prefixed("p-", Library(library))),
   Renamed(<<<<x, y>>, <<y, x>>>>, Library(library)),
   Prefixed("p-", Only({x}, Library(library))),
   Renamed(<<<<x, z>>>>, Except({y}, Library(library)))}

NamesOf(set) ==
  DOMAIN Reference!Environment([libraries |-> <<LibraryA(Direct)>>], <<set>>)

(* w is a procedure that uses what is imported, m is exported once more if   *)
(* it is, and h is private here, too.                                      *)
Use(name) == List(<<name, Datum("1")>>)
Uses(names) == SetToSeq({Use(name) : name \in names})

LibraryB(set, effect) ==
  [name |-> "b", imports |-> <<set>>,
   exports |-> <<<<h, w>>>>
                 \o IF m \in NamesOf(set) THEN <<<<Symbol("n"), m>>>> ELSE <<>>,
   body |-> <<Define_(h, Lambda(<<>>, Write(Datum("h of b")))),
              Define_(Symbol("k"),
                      Lambda(<<p>>, Begin(<<p>> \o Uses(NamesOf(set)) \o <<List(<<h>>)>>))),
              Define_(w, Lambda(<<p>>, Begin(<<List(<<Symbol("k"), p>>), Begin(<<h, p>>)>>)))>>
            \o IF effect THEN <<Begin(<<Use(w)>>)>> ELSE <<>>]

Compile ==
  [name |-> "compile", imports |-> <<>>, exports |-> <<>>,
   body |-> <<Define_(h, Lambda(<<>>, List(<<Symbol("$$libraries")>>)))>>]

OfA == {<<set>> : set \in ImportSets("a")}
OfB ==
  {<<Library("b")>>, <<Prefixed("b-", Library("b")), Library("a")>>}
    \cup {<<Prefixed("q-", set), Library("b")>> : set \in ImportSets("a")}

MainNames(main) == DOMAIN Reference!Environment(main, main.imports)

MCProgram ==
  LET Of(libraries, sets, used, eval) ==
        LET main == [libraries |-> libraries \o <<Compile>>,
                     imports |-> sets \o IF eval THEN <<Library("compile")>> ELSE <<>>,
                     body |-> <<>>]
            names == MainNames(main)
        IN [main EXCEPT !.body =
              <<Define_(Symbol("mine"), Datum("0"))>>
                \o IF used THEN Uses(names) \o <<Write(Symbol("mine"))>> ELSE <<>>]
      OfSet(set, choices) ==
        {Of(<<LibraryA(exports), LibraryB(set, exports = Direct)>>, sets, used, eval) :
           exports \in {Direct, Swapped}, sets \in choices, used \in BOOLEAN, eval \in BOOLEAN}
  IN OfSet(Library("a"), OfA) \cup UNION {OfSet(set, OfB) : set \in ImportSets("a")}

MCEvaluated ==
  [expressions |-> {Use(x), Use(Symbol("n")), Use(h), Use(Symbol("c-h"))},
   imports |-> {Library("a"), Only({h}, Library("b")), Prefixed("c-", Library("c"))},
   libraries |-> {[name |-> "c", imports |-> <<Library("a")>>, exports |-> <<<<h, h>>>>,
                   body |-> <<Define_(h, Lambda(<<p>>, List(<<m, p>>))), Use(y)>>]}]

=============================================================================
