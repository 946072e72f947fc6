--------------------------------- MODULE Utf8 ---------------------------------
(***************************************************************************)
(* Characters as bytes: write-char and parse-char-bytes of prelude.scm,    *)
(* (stak io).  A character is its code point.                              *)
(***************************************************************************)
EXTENDS Integers, Sequences, SequencesExt

(* write-trailing-bytes *)
TrailingBytes(integer) ==
  LET bytes[n \in 0 .. integer] ==
        (IF n \div 64 = 0 THEN <<>> ELSE bytes[n \div 64]) \o <<128 + (n % 64)>>
  IN bytes[integer]

(* The rounds of the loop of write-char: how many values the first byte is *)
(* for, what it is divided by, and the mark it has.                        *)
HeadSize == <<32, 16, 8>>
Offset == <<64, 64 * 64, 64 * 64 * 64>>
Mask == <<192, 192 + 32, 192 + 32 + 16>>

(* write-char *)
CharBytes(x) ==
  LET k == CHOOSE i \in 1 .. 3 :
             /\ x \div (HeadSize[i] * Offset[i]) = 0
             /\ \A j \in 1 .. i - 1 : x \div (HeadSize[j] * Offset[j]) # 0
  IN IF x \div 128 = 0
     THEN <<x>>
     ELSE <<Mask[k] + x \div Offset[k]>> \o TrailingBytes(x % Offset[k])

(* Mutant: three bytes are taken for two. *)
FollowingShort(byte) == IF byte \div 16 = 14 THEN 1 ELSE 3

(* How many bytes read-char-bytes reads after a first one. *)
Following(byte) ==
  IF byte \div 128 = 0 THEN 0
  ELSE IF byte \div 32 = 6 THEN 1
  ELSE IF byte \div 16 = 14 THEN 2
  ELSE 3

(* parse-char-bytes, of one byte and more *)
ParseChar(bytes) ==
  LET loop[i \in 1 .. Len(bytes)] ==
        IF i = 1
        THEN [code |-> bytes[1], size |-> 64]
        ELSE [code |-> 64 * loop[i - 1].code + (bytes[i] - 128), size |-> loop[i - 1].size * 32]
      end == loop[Len(bytes)]
  IN IF Len(bytes) = 1 THEN bytes[1] ELSE end.code % end.size

(* What UTF-8 is. *)
Utf8(x) ==
  IF x < 128 THEN <<x>>
  ELSE IF x < 2048 THEN <<192 + x \div 64, 128 + (x % 64)>>
  ELSE IF x < 65536 THEN <<224 + x \div 4096, 128 + ((x \div 64) % 64), 128 + (x % 64)>>
  ELSE <<240 + x \div 262144, 128 + ((x \div 4096) % 64), 128 + ((x \div 64) % 64),
         128 + (x % 64)>>

=============================================================================
