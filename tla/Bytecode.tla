-------------------------------- MODULE Bytecode --------------------------------
(***************************************************************************)
(* From the code that the compiler makes to the conses that the virtual    *)
(* machine runs: marshal, encode and the compressor of compile.scm, the    *)
(* decompressor of lzss, decode_ribs of the virtual machine.  Next to it,  *)
(* the compressor of lzss in front of the same decompressor.  The programs *)
(* and the texts for TLC are at the end.                                   *)
(***************************************************************************)
EXTENDS Encoding, StreamCompression, Decoding, TLC

CONSTANTS
  Programs,  \* what the compiler makes of programs, in a sequence
  Texts      \* other texts, for the compressor

VARIABLE source  \* which program it is, or a text for one of the compressors

SchemeText == 0
RustText == -1
IsProgram == source > 0

bytecodeVars == <<vars, decoderVars, source, rustVars>>

(* What encode does for a program. *)
Encoded ==
  [p \in DOMAIN Programs |->
     LET marshalled == Marshal(Programs[p])
     IN Encode(marshalled.context.ribs, marshalled.value)]

BytecodeInit ==
  /\ \/ \E p \in DOMAIN Programs : source = p /\ text = Encoded[p].bytes
     \/ source \in {SchemeText, RustText} /\ text \in Texts
  /\ Init
  /\ Rust!Init
  /\ DecoderInit

(* The compressor writes a file, which is run later. *)
Compressed == input = <<>> /\ current = 0
Decompressed == Compressed /\ compressed = <<>> /\ length = 0

BytecodeNext ==
  \/ /\ source # RustText
     /\ Compress
     /\ UNCHANGED <<decoderVars, source, rustVars>>
  \/ /\ source = RustText
     /\ Rust!Compress
     /\ UNCHANGED <<compressorVars, decoderVars, source>>
  \/ /\ IsProgram => Compressed /\ NeedsByte
     /\ Decompress
     /\ UNCHANGED <<compressorVars, decoderVars, source, rustVars>>
  \/ IsProgram /\ Decode /\ UNCHANGED <<vars, source, rustVars>>
  \/ IsProgram /\ Decompressed /\ DecodeEnd /\ UNCHANGED <<vars, source, rustVars>>

BytecodeSpec ==
  /\ BytecodeInit
  /\ [][BytecodeNext]_bytecodeVars
  /\ WF_bytecodeVars(BytecodeNext)

-----------------------------------------------------------------------------
(* Properties. *)

(* The assertions at the end of encode: every use that was counted has     *)
(* been encoded, as the dictionary expects.                                *)
UsesCounted ==
  IsProgram =>
    LET context == Encoded[source]
    IN context.dictionary = <<>> /\ \A x \in DOMAIN context.counts : context.counts[x] = 0

(* What the pairs of a value and what it was decoded to lead to. *)
Steps(pairs) ==
  UNION {LET rib == RibOf(p[1])
         IN IF Is("nop", p[1]) THEN {<<p[1].next, p[2]>>}
            ELSE {<<rib.car, Car(p[2])>>, <<rib.cdr, Cdr(p[2])>>} :
           p \in {q \in pairs : ~IsNumber(q[1]) /\ IsCons(q[2])}}

RECURSIVE Reach(_)
Reach(pairs) ==
  LET more == pairs \cup Steps(pairs)
  IN IF more = pairs THEN pairs ELSE Reach(more)

(* The conses are the program: its structure, with its tags, and its       *)
(* identities.  Equal symbols, booleans and empty lists are one cons, and  *)
(* others are not; code that several branches continue with is one.  On    *)
(* the way there, every operation finds its operands.                      *)
SameStructure(pairs) ==
  \A p \in pairs :
    IF IsNumber(p[1]) THEN p[2] = p[1]
    ELSE IsCons(p[2]) /\ (~Is("nop", p[1]) =>
                            LET tag == RibOf(p[1]).tag
                            IN conses[p[2].cons].tag = tag)

(* Values that a program tells apart with eq?. *)
Comparable(x) == \E kind \in {"null", "boolean", "symbol"} : Is(kind, x)

SameIdentities(pairs) ==
  /\ \A p, q \in {r \in pairs : Comparable(r[1])} : p[1] = q[1] <=> p[2] = q[2]
  /\ \A p, q \in {r \in pairs : Is("nop", r[1])} : p[1].nop = q[1].nop => p[2] = q[2]

ProgramKept ==
  /\ IsProgram => OperandsDecoded
  /\ program # <<>> =>
       LET pairs == Reach({<<Programs[source], program>>})
       IN SameStructure(pairs) /\ SameIdentities(pairs)

(* Every program arrives. *)
ProgramArrives == <>(IsProgram => program # <<>>)

-----------------------------------------------------------------------------
(* Values of the constants for TLC: every text of at most MaxText bytes of *)
(* 0 and 1, and programs in which values and continuations meet in several *)
(* ways.                                                                   *)

CONSTANT MaxText  \* bound on the bytes of a text

MCTexts == BoundedSeq({0, 1}, MaxText)

MCByte == 0 .. 127

MCNames == "a" :> <<97>>

(* Constants of programs: some that are equal, some that only look the    *)
(* same, and numbers whose integers have one digit or more.                *)
Operands ==
  << Number(0), Number(-3), Number(40), Float(-3, 2), Float(1, -1),
     Symbol("a"), Symbol("b"), Symbol("c"), Boolean(TRUE), Null,
     Character(97), String(<<97>>), Pair(Symbol("b"), Pair(Symbol("c"), Number(1))),
     Vector(<<Number(1), Symbol("b"), Number(3), Null, Number(5)>>),
     Bytevector(<<Number(1), Number(2)>>), Primitive(7) >>

Constant(x, next) == Instruction(ConstantTag, x, next)
Branch(x, y) == Instruction(IfTag, x, y)

Straight(x, y, z) == Constant(x, Constant(y, Constant(z, Null)))
Joined(x, y, z) ==
  LET next == Nop(1, Constant(z, Null))
  IN Branch(Constant(x, next), Constant(y, next))
JoinedTwice(x, y, z) ==
  LET outer == Nop(1, Constant(z, Null))
      inner == Nop(2, outer)
  IN Branch(Branch(Constant(x, inner), inner), Constant(y, outer))
Nested(x, y, z) ==
  LET next == Nop(1, Constant(x, Null))
  IN Constant(Procedure(3, Branch(next, Constant(y, next))),
              Instruction(CallTag + 40, z, Null))

Shapes(x, y, z) == <<Straight(x, y, z), Joined(x, y, z), JoinedTwice(x, y, z), Nested(x, y, z)>>

(* Every operand in every shape. *)
MCPrograms ==
  [i \in 1 .. 4 * Len(Operands) |->
     LET n == (i - 1) \div 4
         x == Operands[n + 1]
         y == Operands[((5 * n) % Len(Operands)) + 1]
     IN Main(<<[name |-> "close", id |-> 1]>>, Shapes(x, y, Symbol("b"))[((i - 1) % 4) + 1])]

=============================================================================
