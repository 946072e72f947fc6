---------------------------- MODULE Compression ----------------------------
(***************************************************************************)
(* The LZSS compressor of lzss/src/compress.rs in front of the             *)
(* decompressor.  It keeps the last Window bytes it compressed and up to   *)
(* MaxLength bytes it has read ahead in one ring buffer: reading ahead     *)
(* overwrites what is too old for a match.                                 *)
(***************************************************************************)
EXTENDS Decompression

VARIABLES
  input,   \* iterator: the bytes of the text not read yet
  buffer,  \* the bytes compressed last and those read ahead
  ahead,   \* how many bytes of the buffer are read ahead
  next     \* the second byte of a match, to be returned next, or none

compressorVars == <<input, buffer, ahead, next>>
vars == <<text, compressed, decompressorVars, compressorVars>>

None == 256  \* not a byte

(* Mutant: no room for the bytes read ahead. *)
BufferSizeShort == Window

(* B of LzssCompressionIterator<B, I>. *)
BufferSize == Window + MaxLength

Init ==
  /\ DecompressorInit
  /\ compressed = <<>>
  /\ input = text
  /\ buffer = Ring(BufferSize)
  /\ ahead = 0
  /\ next = None

(* peek(index): read ahead as far as index, which is one byte at most       *)
(* because a match grows by one.                                           *)
Peek(s, index) ==
  IF index < s.ahead \/ s.input = <<>>
  THEN s
  ELSE [s EXCEPT !.input = Tail(@),
                 !.buffer = RingPush(@, Head(s.input)),
                 !.ahead = @ + 1]

(* The byte j after the next one to compress, and the one i + 1 before it. *)
Ahead(s, j) == RingAt(s.buffer, BufferSize - s.ahead + j)
Back(s, i, j) == RingAt(s.buffer, 2 * BufferSize - s.ahead - 1 - i + j)

(* One round of the loop that grows a match: it stops at the first byte    *)
(* that differs or is not there.                                           *)
Grow(s, i, j) ==
  LET t == Peek(s, j)
  IN IF s.length < j THEN s
     ELSE IF j < t.ahead /\ Ahead(t, j) = Back(t, i, j)
     THEN [t EXCEPT !.length = j + 1]
     ELSE t

(* The match that begins i + 1 bytes back, as length; it may run into the  *)
(* bytes it is a match for.  The rounds map a set of one state, which TLC  *)
(* evaluates once.                                                         *)
MatchesAt(s, i) ==
  LET grown[j \in 0 .. MaxLength] ==
        IF j = 0
        THEN {[s EXCEPT !.length = 0]}
        ELSE {Grow(t, i, j - 1) : t \in grown[j - 1]}
  IN grown[MaxLength]

Longer(s, best, i) ==
  IF s.length >= best.length
  THEN [s EXCEPT !.back = i]
  ELSE [s EXCEPT !.length = best.length]

(* The longest match, the nearest of those, tried from the furthest on.    *)
LongestMatches ==
  LET best[k \in 0 .. Window] ==
        IF k = 0
        THEN {[input |-> input, buffer |-> buffer, ahead |-> ahead,
               length |-> 0, back |-> 0]}
        ELSE UNION {{Longer(s, b, Window - k) : s \in MatchesAt(b, Window - k)} :
                      b \in best[k - 1]}
  IN best[Window]

WriteMatchEnd ==
  /\ next # None
  /\ compressed' = Append(compressed, next)
  /\ next' = None
  /\ UNCHANGED <<input, buffer, ahead>>

WriteMatch ==
  /\ next = None
  /\ \E m \in LongestMatches :
       /\ m.length > MinLength
       /\ compressed' = Append(compressed, MatchBytes(m.length, m.back)[1])
       /\ next' = MatchBytes(m.length, m.back)[2]
       /\ input' = m.input
       /\ buffer' = m.buffer
       /\ ahead' = m.ahead - m.length

WriteLiteral ==
  /\ next = None
  /\ \E m \in LongestMatches :
       /\ m.length <= MinLength
       /\ m.ahead > 0
       /\ compressed' = Append(compressed, LiteralByte(Ahead(m, 0)))
       /\ input' = m.input
       /\ buffer' = m.buffer
       /\ ahead' = m.ahead - 1
  /\ UNCHANGED next

Compress ==
  /\ WriteMatchEnd \/ WriteMatch \/ WriteLiteral
  /\ UNCHANGED <<text, decompressorVars>>

Next == Compress \/ (Decompress /\ UNCHANGED compressorVars)

Spec == Init /\ [][Next]_vars

-----------------------------------------------------------------------------
(* Properties. *)

(* The bytes compressed so far. *)
Consumed == Len(text) - Len(input) - ahead

(* Reading ahead never overwrites a byte the next match may begin at: the  *)
(* last Window bytes are the ones the decompressor will have, zeros before *)
(* the first.                                                              *)
WindowIntact ==
  \A k \in 0 .. Window - 1 :
    RingAt(buffer, BufferSize - ahead - 1 - k)
      = IF k < Consumed THEN text[Consumed - k] ELSE 0

=============================================================================
