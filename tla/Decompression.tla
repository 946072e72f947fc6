--------------------------- MODULE Decompression ---------------------------
(***************************************************************************)
(* The LZSS decompressor of lzss/src/decompress.rs, which the virtual      *)
(* machine reads its bytecode through, and the queue of bytes between it   *)
(* and a compressor.  Bytes of a text have 7 bits.  A literal x is one     *)
(* byte 2 * x; a match of m bytes that begins n + 1 bytes back is two,     *)
(* 2 * (m - 1) + 1 and n.                                                  *)
(***************************************************************************)
EXTENDS Naturals, Sequences

CONSTANTS
  Byte,       \* bytes of a text, 0 .. 127 in the code
  Window,     \* MAX_WINDOW_SIZE: how far back a match begins
  MaxLength   \* MAX_LENGTH: the longest match

(* Both fit in the byte that encodes them.  0 is the byte of a new buffer. *)
ASSUME LzssAssumption ==
  /\ Byte \subseteq 0 .. 127 /\ 0 \in Byte
  /\ Window \in 1 .. 256
  /\ MaxLength \in 3 .. 128

VARIABLES
  text,        \* the bytes to compress
  compressed,  \* compressed bytes not read yet
  window,      \* buffer: the last Window bytes returned
  offset, length,  \* the match being copied
  output       \* the bytes returned

decompressorVars == <<window, offset, length, output>>

-----------------------------------------------------------------------------
(* RingBuffer<N> of lzss/src/ring_buffer.rs.  Index 0 is the oldest byte,  *)
(* N - 1 the newest; a new buffer holds zeros.                             *)

Ring(n) == [size |-> n, offset |-> 0, buffer |-> [i \in 0 .. n - 1 |-> 0]]

RingIndex(ring, index) == (ring.offset + index) % ring.size

RingPush(ring, byte) ==
  [ring EXCEPT !.buffer[ring.offset] = byte, !.offset = RingIndex(ring, 1)]

RingAt(ring, index) == ring.buffer[RingIndex(ring, index)]

-----------------------------------------------------------------------------
(* MIN_LENGTH: a match must be longer. *)
MinLength == 2

LiteralByte(x) == (2 * x) % 256
MatchBytes(m, n) == <<(2 * (m - 1) + 1) % 256, n % 256>>

DecompressorInit ==
  /\ window = Ring(Window)
  /\ offset = 0
  /\ length = 0
  /\ output = <<>>

Return(x) ==
  /\ window' = RingPush(window, x)
  /\ output' = Append(output, x)

(* One more byte of the current match. *)
CopyNext ==
  /\ length > 0
  /\ Return(RingAt(window, Window - 1 - offset))
  /\ length' = length - 1
  /\ UNCHANGED <<text, compressed, offset>>

ReadLiteral ==
  /\ length = 0
  /\ compressed # <<>>
  /\ Head(compressed) % 2 = 0
  /\ Return(Head(compressed) \div 2)
  /\ compressed' = Tail(compressed)
  /\ UNCHANGED <<text, offset, length>>

(* The two bytes of a match are read together with its first byte. *)
ReadMatch ==
  /\ length = 0
  /\ Len(compressed) >= 2
  /\ Head(compressed) % 2 = 1
  /\ Return(RingAt(window, Window - 1 - compressed[2]))
  /\ length' = Head(compressed) \div 2
  /\ offset' = compressed[2]
  /\ compressed' = Tail(Tail(compressed))
  /\ UNCHANGED text

Decompress == CopyNext \/ ReadLiteral \/ ReadMatch

-----------------------------------------------------------------------------
(* Decompression delivers the text. *)
Delivery == INSTANCE Pipe

=============================================================================
