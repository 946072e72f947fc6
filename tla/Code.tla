---------------------------------- MODULE Code ----------------------------------
(***************************************************************************)
(* Bytes of the bytecode: what the encoder of compile.scm and the decoder  *)
(* of vm/src/vm.rs agree on.  An integer is a head, which shares a byte    *)
(* with what the integer is for, and a tail of bytes; each part tells      *)
(* whether another follows.                                                *)
(***************************************************************************)
EXTENDS Integers, Sequences, SequencesExt

CONSTANTS IntegerBase, NumberBase, TagBase, ShareBase

(* A byte of the bytecode has 7 bits: LZSS takes the eighth. *)
ASSUME CodeAssumption ==
  /\ IntegerBase \in 2 .. 64
  /\ NumberBase \in 2 .. 16
  /\ TagBase \in 2 .. 16
  /\ ShareBase \in 2 .. 31

(* encode-integer-part, of the lowest digit of an integer. *)
IntegerPart(x, base) == (IF x < base THEN 0 ELSE 1) + 2 * (x % base)

(* The first byte of a reference to a shared value, a rib and a number.    *)
(* The byte 0 shares the value that has been decoded last.                 *)
PushByte == 0
ShareByte(x) == 2 * (1 + IntegerPart(x, ShareBase))
RibByte(tag) == 1 + 4 * IntegerPart(tag, TagBase)
NumberByte(x) == 3 + 4 * IntegerPart(x, NumberBase)

(* encode-integer-tail *)
Digits(x) ==
  LET digits[n \in 0 .. x] ==
        IF n = 0 THEN <<>> ELSE <<IntegerPart(n, IntegerBase)>> \o digits[n \div IntegerBase]
  IN digits[x]

(* decode_integer_tail: an item, of the part x in its first byte, and an   *)
(* item with another part.                                                 *)
Item(operation, x, base) ==
  [operation |-> operation, integer |-> x \div 2, more |-> x % 2 = 1, base |-> base]

WithPart(item, x) ==
  [item EXCEPT !.integer = @ + (x \div 2) * item.base,
               !.base = @ * IntegerBase,
               !.more = x % 2 = 1]

(* A float is a mantissa times a power of 2. *)
ExponentBias == 1023
ExponentLimit == 2048

(* encode-number *)
EncodeNumber(x) ==
  IF "number" \in DOMAIN x
  THEN IF x.number < 0 THEN 1 + 4 * (-x.number) ELSE 2 * x.number
  ELSE LET sign == IF x.mantissa < 0 THEN 1 ELSE 0
           magnitude == IF x.mantissa < 0 THEN -x.mantissa ELSE x.mantissa
       IN 3 + 4 * (sign + 2 * (x.exponent + ExponentBias) + 2 * ExponentLimit * magnitude)

(* 1u64 << exponent, as a build without overflow checks computes it. *)
WordBits == 64
Shift(exponent) ==
  IF exponent < 0 THEN 0 - ((0 - exponent) % WordBits) ELSE exponent % WordBits

(* decode_number *)
DecodeNumber(n) ==
  CASE n % 2 = 0 -> [number |-> n \div 2]
    [] n % 4 = 1 -> [number |-> -(n \div 4)]
    [] OTHER ->
         LET x == n \div 4
             magnitude == x \div (2 * ExponentLimit)
         IN [mantissa |-> IF x % 2 = 0 THEN magnitude ELSE -magnitude,
             exponent |-> Shift(((x \div 2) % ExponentLimit) - ExponentBias)]

(* What a reference to a shared value does to the dictionary, which begins *)
(* with the value used last: encode-context-push! and                      *)
(* encode-context-remove!.                                                 *)
MoveToFront(dictionary, index, removed) ==
  (IF removed THEN <<>> ELSE <<dictionary[index + 1]>>) \o RemoveAt(dictionary, index + 1)

=============================================================================
