-------------------------------- MODULE Devices --------------------------------
(***************************************************************************)
(* The devices of device/src/device/ and the primitives over them,         *)
(* device/src/primitive_set.rs.  A device is a record of its input, in     *)
(* chunks, with the place it has read to, and its two output buffers with  *)
(* the places it has written to.  The standard streams are such a device   *)
(* whose input is one chunk and whose buffers have no end, but where the   *)
(* operating system may fail.                                              *)
(***************************************************************************)
EXTENDS Naturals, SequencesExt

CONSTANT BufferSize  \* bytes of an output buffer, O and E

Failed(d) == {[value |-> [failure |-> TRUE], device |-> d]}
Gives(value, d) == {[value |-> value, device |-> d]}
GivesByte(byte, d) == Gives([byte |-> byte], d)
Written(d) == Gives([done |-> TRUE], d)

Empty == [i \in 1 .. BufferSize |-> 0]

NewDevice(kind, chunks) ==
  [input |-> IF kind = "buffer" THEN chunks ELSE <<FlattenSeq(chunks)>>, chunk |-> 1, byte |-> 0,
   output |-> [bytes |-> Empty, index |-> 0], error |-> [bytes |-> Empty, index |-> 0]]

(* What is left of the input, and what was written: output() and error(),  *)
(* as_bytes().                                                             *)
Unread(d) ==
  IF d.chunk > Len(d.input)
  THEN <<>>
  ELSE SubSeq(d.input[d.chunk], d.byte + 1, Len(d.input[d.chunk]))
         \o FlattenSeq(SubSeq(d.input, d.chunk + 1, Len(d.input)))

BytesOf(buffer) == SubSeq(buffer.bytes, 1, buffer.index)

-----------------------------------------------------------------------------
EndOfInput(d) == Gives([none |-> TRUE], d)

ReadFixed(d) ==
  IF d.byte < Len(d.input[1])
  THEN GivesByte(d.input[1][d.byte + 1], [d EXCEPT !.byte = @ + 1])
  ELSE EndOfInput(d)

(* Mutant: an empty chunk is the end of the input. *)
ReadBufferShort(d) ==
  CASE d.chunk <= Len(d.input) /\ d.byte < Len(d.input[d.chunk]) ->
         GivesByte(d.input[d.chunk][d.byte + 1], [d EXCEPT !.byte = @ + 1])
    [] d.chunk < Len(d.input) /\ d.byte = Len(d.input[d.chunk]) /\ d.input[d.chunk + 1] # <<>> ->
         GivesByte(d.input[d.chunk + 1][1], [d EXCEPT !.chunk = @ + 1, !.byte = 1])
    [] OTHER -> EndOfInput(d)

(* read_raw: what is left of this chunk, or the next that is not empty.    *)
ReadBuffer(d) ==
  LET full == {i \in d.chunk .. Len(d.input) :
                 IF i = d.chunk THEN d.byte < Len(d.input[i]) ELSE d.input[i] # <<>>}
      next == Min(full)
      place == IF next = d.chunk THEN d.byte + 1 ELSE 1
  IN IF full = {}
     THEN EndOfInput([d EXCEPT !.chunk = Max({@, Len(d.input) + 1}), !.byte = 0])
     ELSE GivesByte(d.input[next][place], [d EXCEPT !.chunk = next, !.byte = place])

(* A byte at the index, unless the buffer ends there. *)
PutFixed(d, stream, byte) ==
  LET buffer == d[stream]
      put == [bytes |-> [buffer.bytes EXCEPT ![buffer.index + 1] = byte], index |-> buffer.index + 1]
  IN IF buffer.index < BufferSize THEN Written([d EXCEPT ![stream] = put]) ELSE Failed(d)

(* write_all of one byte, and a write that must write one. *)
PutStream(d, stream, byte) ==
  LET put == [bytes |-> Append(BytesOf(d[stream]), byte), index |-> d[stream].index + 1]
  IN Written([d EXCEPT ![stream] = put]) \cup Failed(d)

-----------------------------------------------------------------------------
(* The devices, by the primitives that call them. *)

READ == 100
WRITE == 101
WRITE_ERROR == 102

StreamOf(primitive) == IF primitive = WRITE THEN "output" ELSE "error"

FixedDevice(d, primitive, byte) ==
  IF primitive = READ THEN ReadFixed(d) ELSE PutFixed(d, StreamOf(primitive), byte)

BufferDevice(d, primitive, byte) ==
  IF primitive = READ THEN ReadBuffer(d) ELSE PutFixed(d, StreamOf(primitive), byte)

StdDevice(d, primitive, byte) ==
  IF primitive = READ THEN ReadFixed(d) \cup Failed(d) ELSE PutStream(d, StreamOf(primitive), byte)

(* One system call for a byte: what is not a byte read is the end of the   *)
(* input, what is not a byte written a failure.                            *)
LibcDevice(d, primitive, byte) ==
  IF primitive = READ THEN ReadFixed(d) \cup Failed(d) ELSE PutStream(d, StreamOf(primitive), byte)

VoidDevice(d, primitive) == IF primitive = READ THEN EndOfInput(d) ELSE Written(d)

(* The primitives.  Their errors, too, are a program's to handle. *)
OperateDevice(kind, d, primitive, argument) ==
  LET byte == argument % 256
  IN CASE kind = "fixed" -> FixedDevice(d, primitive, byte)
       [] kind = "buffer" -> BufferDevice(d, primitive, byte)
       [] kind = "std" -> StdDevice(d, primitive, byte)
       [] kind = "libc" -> LibcDevice(d, primitive, byte)
       [] kind = "void" -> VoidDevice(d, primitive)

=============================================================================
