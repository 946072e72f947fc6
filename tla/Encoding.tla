-------------------------------- MODULE Encoding --------------------------------
(***************************************************************************)
(* encode of compile.scm: from ribs to bytes, a rib after what is in it.   *)
(* A rib that is used again is kept in a dictionary, the last used first,  *)
(* as long as it is: its uses are counted beforehand.                      *)
(***************************************************************************)
EXTENDS Code, Integers, Sequences, SequencesExt

CONSTANTS
  Names,         \* the names of the symbols that keep them
  VectorFactor   \* vector-factor: how many elements a node of a vector has

-----------------------------------------------------------------------------
(* marshal of compile.scm: constants and code become ribs, numbers and     *)
(* pairs with a tag.  A value that is marshalled twice is one rib if it    *)
(* has an identity in the running program (symbols, booleans, the empty    *)
(* list, and with them characters and strings) and if it is the code after *)
(* a branch, which both branches continue with.                            *)

(* Values of the compiler. *)
Number(n) == [number |-> n]
Float(m, e) == [mantissa |-> m, exponent |-> e]
Null == [null |-> TRUE]
Boolean(b) == [boolean |-> b]
Symbol(x) == [symbol |-> x]
Character(c) == [character |-> c]
String(xs) == [string |-> xs]
Pair(x, y) == [car |-> x, cdr |-> y]
Vector(xs) == [vector |-> xs]
Bytevector(xs) == [bytevector |-> xs]
Procedure(arity, code) == [procedure |-> arity, code |-> code]
Primitive(n) == [primitive |-> n]

(* Code: an instruction before other code, and a mark of code that is      *)
(* continued with from several places.  Marks are told apart.              *)
Instruction(tag, operand, next) == [instruction |-> tag, operand |-> operand, next |-> next]
Nop(i, next) == [nop |-> i, next |-> next]

ConstantTag == 0
SetTag == 2
IfTag == 3
CallTag == 4
NopTag == 65535

PairType == 0
NullType == 1
BooleanType == 2
ProcedureType == 3
SymbolType == 4
StringType == 5
CharacterType == 6
VectorType == 7
BytevectorType == 8

Is(kind, x) == kind \in DOMAIN x
IsNumber(x) == Is("number", x) \/ Is("mantissa", x)

List(xs) == FoldRight(LAMBDA x, y : Pair(x, y), xs, Null)

Groups(xs) ==
  [i \in 1 .. (Len(xs) + VectorFactor - 1) \div VectorFactor |->
     List(SubSeq(xs, VectorFactor * (i - 1) + 1,
                 IF VectorFactor * i < Len(xs) THEN VectorFactor * i ELSE Len(xs)))]

(* list->vector-nodes: a tree of lists. *)
RECURSIVE Nodes(_)
Nodes(xs) ==
  LET groups == Groups(xs)
  IN CASE Len(groups) = 0 -> Null
       [] Len(groups) = 1 -> groups[1]
       [] OTHER -> Nodes(groups)

(* build-primitives, and the pair that main makes: false, and the code.    *)
(* Each primitive is bound to its name before the program runs.            *)
BuildPrimitive(primitive, next) ==
  Instruction(ConstantTag, Primitive(primitive.id),
    Instruction(SetTag, Symbol(primitive.name), next))

Main(primitives, codes) ==
  Instruction(PairType, Boolean(FALSE), FoldRight(BuildPrimitive, primitives, codes))

Rib(tag, car, cdr) == [tag |-> tag, car |-> car, cdr |-> cdr]

(* The rib of a value or of code, before what is in it is marshalled. *)
RibOf(x) ==
  CASE Is("null", x) -> Rib(NullType, Number(0), Pair(Number(0), Number(0)))
    [] Is("boolean", x) ->
         IF x.boolean
         THEN Rib(BooleanType, Number(0), Null)
         ELSE Rib(BooleanType, Null, Boolean(TRUE))
    [] Is("symbol", x) ->
         Rib(SymbolType, Boolean(FALSE),
             String(IF x.symbol \in DOMAIN Names THEN Names[x.symbol] ELSE <<>>))
    [] Is("character", x) -> Rib(CharacterType, Number(x.character), Null)
    [] Is("string", x) ->
         Rib(StringType, Number(Len(x.string)),
             List([i \in DOMAIN x.string |-> Number(x.string[i])]))
    [] Is("car", x) -> Rib(PairType, x.car, x.cdr)
    [] Is("vector", x) -> Rib(VectorType, Number(Len(x.vector)), Nodes(x.vector))
    [] Is("bytevector", x) -> Rib(BytevectorType, Number(Len(x.bytevector)), Nodes(x.bytevector))
    [] Is("procedure", x) ->
         Rib(ProcedureType, Instruction(PairType, Number(x.procedure), x.code), Null)
    [] Is("primitive", x) -> Rib(ProcedureType, Number(x.primitive), Null)
    [] Is("instruction", x) -> Rib(x.instruction, x.operand, x.next)
    [] Is("nop", x) -> Rib(NopTag, Number(0), x.next)

(* Mutant: symbols have no identity. *)
IdentityOfConstant(x) ==
  IF Is("nop", x) THEN {Nop(x.nop, Null)}
  ELSE IF \E kind \in {"null", "boolean", "character", "string"} : Is(kind, x) THEN {x}
  ELSE {}

(* What is one rib however often it is marshalled: constants that are      *)
(* equal, and a mark.                                                      *)
Identity(x) ==
  IF Is("nop", x) THEN {Nop(x.nop, Null)}
  ELSE IF \E kind \in {"null", "boolean", "symbol", "character", "string"} : Is(kind, x) THEN {x}
  ELSE {}

(* marshal-rib: the marshalled value, and the ribs made so far with those  *)
(* that have an identity.                                                  *)
RECURSIVE MarshalRib(_, _)
MarshalRib(context, x) ==
  IF IsNumber(x)
  THEN [value |-> x, context |-> context]
  ELSE IF Identity(x) \cap DOMAIN context.known # {}
  THEN [value |-> context.known[CHOOSE k \in Identity(x) : TRUE], context |-> context]
  ELSE LET rib == RibOf(x)
           car == MarshalRib(context, rib.car)
           cdr == MarshalRib(car.context, rib.cdr)
           ribs == cdr.context.ribs
           value == [rib |-> Len(ribs) + 1]
       IN [value |-> value,
           context |->
             [ribs |-> Append(ribs, Rib(rib.tag, car.value, cdr.value)),
              known |-> [k \in DOMAIN cdr.context.known \cup Identity(x) |->
                           IF k \in Identity(x) THEN value ELSE cdr.context.known[k]]]]

Marshal(codes) == MarshalRib([ribs |-> <<>>, known |-> << >>], codes)

-----------------------------------------------------------------------------
(* encode *)

IsRib(x) == Is("rib", x)

(* shared-value? *)
SharedTags == {NopTag, BooleanType, CharacterType, NullType, StringType, SymbolType}

(* strip-nop-instructions *)
RECURSIVE Strip(_, _)
Strip(ribs, x) ==
  IF IsRib(x) /\ ribs[x.rib].tag = NopTag THEN Strip(ribs, ribs[x.rib].cdr) ELSE x

Increment(counts, x) ==
  [y \in DOMAIN counts \cup {x} |->
     (IF y \in DOMAIN counts THEN counts[y] ELSE 0) + (IF y = x THEN 1 ELSE 0)]

(* Mutant: the first use of a continuation is not counted. *)
CountContinuationAgain(counts, x) ==
  IF x \in DOMAIN counts THEN Increment(counts, x) ELSE [y \in DOMAIN counts \cup {x} |-> 0]

CountContinuation(counts, x) == Increment(counts, x)

RECURSIVE CountData(_, _, _, _), CountCode(_, _, _, _)

CountData(ribs, null, counts, x) ==
  LET rib == ribs[x.rib]
      shared == rib.tag \in SharedTags
      car == IF rib.tag = ProcedureType
             THEN CountCode(ribs, null, counts, rib.car)
             ELSE CountData(ribs, null, counts, rib.car)
      inside == IF shared /\ x \in DOMAIN counts
                THEN counts
                ELSE CountData(ribs, null, car, rib.cdr)
  IN CASE ~IsRib(x) -> counts
       [] IsRib(x) /\ shared -> Increment(inside, x)
       [] OTHER -> inside

CountCode(ribs, null, counts, x) ==
  LET rib == ribs[x.rib]
      next == Strip(ribs, x)
      counted == CountContinuation(counts, next)
      car == IF rib.tag = IfTag
             THEN CountCode(ribs, null, counts, rib.car)
             ELSE CountData(ribs, null, counts, rib.car)
  IN CASE ~IsRib(x) -> counts
       [] x = null -> CountData(ribs, null, counts, x)
       [] IsRib(x) /\ x # null /\ rib.tag = NopTag ->
            IF next \in DOMAIN counts THEN counted ELSE CountCode(ribs, null, counted, next)
       [] OTHER -> CountCode(ribs, null, car, rib.cdr)

(* count-ribs!, and the filter of encode: ribs that are used more than once. *)
Counts(ribs, codes) ==
  LET null == ribs[ribs[codes.rib].car.rib].car
      counts == CountCode(ribs, null, << >>, codes)
  IN [x \in {y \in DOMAIN counts : counts[y] > 1} |-> counts[x]]

(* encode-rib *)
Decrement(context, x) == [context EXCEPT !.counts[x] = @ - 1]
Write(context, bytes) == [context EXCEPT !.bytes = @ \o bytes]

EncodeShared(context, x) ==
  LET index == (CHOOSE i \in DOMAIN context.dictionary : context.dictionary[i] = x) - 1
      removed == context.counts[x] = 1
      integer == 2 * index + (IF removed THEN 0 ELSE 1)
  IN Write([Decrement(context, x) EXCEPT !.dictionary = MoveToFront(@, index, removed)],
           <<ShareByte(integer)>> \o Digits(integer \div ShareBase))

EncodeTag(context, tag) == Write(context, <<RibByte(tag)>> \o Digits(tag \div TagBase))

EncodeInteger(context, x) ==
  LET integer == EncodeNumber(x)
  IN Write(context, <<NumberByte(integer)>> \o Digits(integer \div NumberBase))

KeepShared(context, x) ==
  IF x \in DOMAIN context.counts
  THEN Write([Decrement(context, x) EXCEPT !.dictionary = <<x>> \o @], <<PushByte>>)
  ELSE context

RECURSIVE EncodeRib(_, _, _)
EncodeRib(ribs, context, value) ==
  LET x == Strip(ribs, value)
  IN CASE ~IsRib(x) -> EncodeInteger(context, x)
       [] IsRib(x) /\ x \in ToSet(context.dictionary) -> EncodeShared(context, x)
       [] OTHER ->
            LET rib == ribs[x.rib]
                car == EncodeRib(ribs, context, rib.car)
                cdr == EncodeRib(ribs, car, rib.cdr)
            IN KeepShared(EncodeTag(cdr, rib.tag), x)

Encode(ribs, codes) ==
  EncodeRib(ribs, [bytes |-> <<>>, dictionary |-> <<>>, counts |-> Counts(ribs, codes)], codes)

=============================================================================
