-------------------------------- MODULE Pipe --------------------------------
(***************************************************************************)
(* What a compressor and a decompressor promise together: the bytes of a   *)
(* text come out one by one, in order, unchanged, and all of them do.      *)
(***************************************************************************)
EXTENDS Naturals, Sequences

VARIABLES
  text,    \* what the compressor is given
  output   \* what the decompressor has returned

vars == <<text, output>>

Init == output = <<>>

Deliver ==
  /\ Len(output) < Len(text)
  /\ output' = Append(output, text[Len(output) + 1])
  /\ UNCHANGED text

Spec == Init /\ [][Deliver]_vars /\ WF_vars(Deliver)

=============================================================================
