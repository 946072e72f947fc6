-------------------------- MODULE StreamCompression --------------------------
(***************************************************************************)
(* The LZSS compressor of the bytecode compiler (compile.scm), in front of *)
(* the decompressor of the virtual machine.  The encoder hands it one byte *)
(* at a time; it keeps the last Window compressed bytes and the bytes to   *)
(* compress in one list, with a pointer to the first of the latter, and    *)
(* compresses as soon as it holds more than the longest match.  Next to it *)
(* stands the compressor of lzss, in front of the same decompressor.       *)
(***************************************************************************)
EXTENDS Decompression, FiniteSetsExt

VARIABLES
  input,    \* the bytes of the text not handed over yet
  buffer,   \* compressor-buffer
  current,  \* compressor-current: where in the buffer, 0 for the empty list
  back,     \* compressor-back: how many bytes of the buffer are before it
  ahead     \* compressor-ahead: how many are not

compressorVars == <<input, buffer, current, back, ahead>>
vars == <<text, compressed, decompressorVars, compressorVars>>

Init ==
  /\ DecompressorInit
  /\ compressed = <<>>
  /\ input = text
  /\ buffer = <<>>
  /\ current = 0
  /\ back = 0
  /\ ahead = 0

State ==
  [buffer |-> buffer, current |-> current, back |-> back, ahead |-> ahead, bytes |-> <<>>]

(* compressor-push!: a byte goes to the end of the list.  The pointer is   *)
(* set only when the list was empty; at the end of a list it stays there.  *)
Push(s, x) ==
  [s EXCEPT !.buffer = Append(@, x),
            !.current = IF s.buffer = <<>> THEN 1 ELSE @,
            !.ahead = @ + 1]

(* Mutant: the window is not cut. *)
PopUncut(s, n) ==
  [s EXCEPT !.current = IF s.current + n > Len(s.buffer) THEN 0 ELSE s.current + n,
            !.back = @ + n,
            !.ahead = @ - n]

(* compressor-pop!: n bytes are compressed and those out of the window are *)
(* dropped.                                                                *)
Pop(s, n) ==
  LET past == s.back + n
      drop == IF past > Window THEN past - Window ELSE 0
  IN [s EXCEPT !.buffer = SubSeq(@, drop + 1, Len(@)),
               !.current = IF s.current + n > Len(s.buffer) THEN 0 ELSE s.current + n - drop,
               !.back = past - drop,
               !.ahead = @ - n]

(* How many bytes from position i + 1 of the list on are as from current on. *)
MatchLength(s, i) ==
  Max({n \in 0 .. Min({MaxLength, Len(s.buffer) - s.current + 1}) :
         \A k \in 0 .. n - 1 : s.buffer[i + 1 + k] = s.buffer[s.current + k]})

(* The longest match, and the nearest of those. *)
LongestMatch(s) ==
  CHOOSE m \in {[length |-> MatchLength(s, i), back |-> s.back - i - 1] : i \in 0 .. s.back - 1} :
    \A i \in 0 .. s.back - 1 :
      \/ MatchLength(s, i) < m.length
      \/ MatchLength(s, i) = m.length /\ m.back <= s.back - i - 1

WriteMatch(s, m) == [Pop(s, m.length) EXCEPT !.bytes = MatchBytes(m.length, m.back)]
WriteLiteral(s) == [Pop(s, 1) EXCEPT !.bytes = <<LiteralByte(s.buffer[s.current])>>]

(* compressor-write-next: the states it may end in, which is one. *)
WriteNext(s) ==
  IF s.back = 0
  THEN {WriteLiteral(s)}
  ELSE {IF m.length > MinLength THEN WriteMatch(s, m) ELSE WriteLiteral(s) :
          m \in {LongestMatch(s)}}

Update(s) ==
  /\ buffer' = s.buffer
  /\ current' = s.current
  /\ back' = s.back
  /\ ahead' = s.ahead
  /\ compressed' = compressed \o s.bytes

(* Mutant: compresses when what is ahead may be one match. *)
CompressorWriteEarly ==
  /\ input # <<>>
  /\ \E s \in {Push(State, Head(input))} :
       \E t \in IF s.ahead >= MaxLength THEN WriteNext(s) ELSE {s} : Update(t)
  /\ input' = Tail(input)

(* compressor-write: one byte of the text. *)
CompressorWrite ==
  /\ input # <<>>
  /\ \E s \in {Push(State, Head(input))} :
       \E t \in IF s.ahead > MaxLength THEN WriteNext(s) ELSE {s} : Update(t)
  /\ input' = Tail(input)

(* Mutant: the flush is over when one byte is left. *)
CompressorFlushShort ==
  /\ input = <<>>
  /\ ahead > 1
  /\ \E s \in WriteNext(State) : Update(s)
  /\ UNCHANGED input

(* One round of compressor-flush, at the end of the text. *)
CompressorFlush ==
  /\ input = <<>>
  /\ current # 0
  /\ \E s \in WriteNext(State) : Update(s)
  /\ UNCHANGED input

Compress ==
  /\ CompressorWrite \/ CompressorFlush
  /\ UNCHANGED <<text, decompressorVars>>

Next == Compress \/ (Decompress /\ UNCHANGED compressorVars)

Spec == Init /\ [][Next]_vars

-----------------------------------------------------------------------------
(* The compressor of lzss, which has variables of its own. *)

VARIABLES rustInput, rustBuffer, rustAhead, rustNext

rustVars == <<rustInput, rustBuffer, rustAhead, rustNext>>

Rust ==
  INSTANCE Compression WITH
    input <- rustInput, buffer <- rustBuffer, ahead <- rustAhead, next <- rustNext

-----------------------------------------------------------------------------
(* Properties. *)

(* Every text comes back as it was.                                        *)
RoundTrip == Delivery!Spec

(* The counters agree with the list, and while there are bytes to come the *)
(* pointer is not at its end, where a byte pushed would be out of reach.   *)
PointerInStep ==
  /\ Len(buffer) = back + ahead
  /\ back <= Window
  /\ current = IF ahead = 0 THEN 0 ELSE back + 1
  /\ input # <<>> /\ buffer # <<>> => ahead > 0

(* The bytes that the compressor of lzss reads ahead never overwrite its    *)
(* window.                                                                 *)
WindowIntact == Rust!WindowIntact

=============================================================================
