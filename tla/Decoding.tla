-------------------------------- MODULE Decoding --------------------------------
(***************************************************************************)
(* decode_ribs of vm/src/vm.rs: from bytes to conses in the memory.  The   *)
(* stack and the dictionary, which is in the register for code, are lists  *)
(* of conses themselves: the cons of the stack that has the cdr of a rib   *)
(* becomes the rib.  conses has every cons that was allocated; the tag of  *)
(* a cons is in the pointer that is its cdr, and a number has none.        *)
(***************************************************************************)
EXTENDS Code, Decompression, SequencesExt

VARIABLES
  code,    \* the dictionary
  stack,
  conses,
  read,    \* how many of the bytes have been read
  item,    \* the integer that is read, and what for
  program  \* the program that has been decoded

decoderVars == <<code, stack, conses, read, item, program>>

Nothing == [nothing |-> TRUE]  \* null, before there is a program
ConsAt(i) == [cons |-> i]
IsCons(x) == "cons" \in DOMAIN x

DecoderInit ==
  /\ code = Nothing
  /\ stack = Nothing
  /\ conses = <<>>
  /\ read = 0
  /\ item = <<>>
  /\ program = <<>>

Car(x) == conses[x.cons].car
Cdr(x) == conses[x.cons].cdr
RawTag(x, tag) == IF IsCons(x) THEN tag ELSE 0

(* Memory::cons and Memory::push *)
Allocate(car, cdr) == Append(conses, [car |-> car, cdr |-> cdr, tag |-> 0])
PushValue(value) ==
  /\ conses' = Allocate(value, stack)
  /\ stack' = ConsAt(Len(conses) + 1)

(* Memory::tail *)
ListTail(list, index) ==
  LET tail[i \in 0 .. index] == IF i = 0 THEN list ELSE Cdr(tail[i - 1])
  IN tail[index]

-----------------------------------------------------------------------------
NextByte == output[read + 1]

(* decode_ribs asks the decompressor for a byte when it needs one. *)
NeedsByte == read = Len(output) /\ program = <<>> /\ (item # <<>> => item.more)

ReadHead ==
  /\ item = <<>>
  /\ read < Len(output)
  /\ NextByte # PushByte
  /\ item' = IF NextByte % 2 = 0 THEN Item("share", NextByte \div 2 - 1, ShareBase)
             ELSE IF NextByte % 4 = 1 THEN Item("rib", NextByte \div 4, TagBase)
             ELSE Item("number", NextByte \div 4, NumberBase)
  /\ read' = read + 1
  /\ UNCHANGED <<code, stack, conses, program>>

ReadTail ==
  /\ item # <<>> /\ item.more
  /\ read < Len(output)
  /\ item' = WithPart(item, NextByte)
  /\ read' = read + 1
  /\ UNCHANGED <<code, stack, conses, program>>

IsRead(operation) == item # <<>> /\ ~item.more /\ item.operation = operation

(* The top of the stack goes to the dictionary. *)
DecodePush ==
  /\ item = <<>>
  /\ read < Len(output)
  /\ NextByte = PushByte
  /\ conses' = Allocate(Car(stack), code)
  /\ code' = ConsAt(Len(conses) + 1)
  /\ read' = read + 1
  /\ UNCHANGED <<stack, item, program>>

(* Moves an entry of the dictionary to its front. *)
MovedToFront(index) ==
  LET before == ListTail(code, index - 1)
      head == Cdr(before)
  IN IF index = 0
     THEN [conses |-> conses, code |-> code]
     ELSE [conses |-> [conses EXCEPT ![head.cons].cdr = code, ![before.cons].cdr = Cdr(head)],
           code |-> head]

DecodeShare ==
  /\ IsRead("share")
  /\ LET front == MovedToFront(item.integer \div 2)
         entry == front.conses[front.code.cons]
     IN /\ code' = IF item.integer % 2 = 0 THEN entry.cdr ELSE front.code
        /\ conses' = Append(front.conses, [car |-> entry.car, cdr |-> stack, tag |-> 0])
  /\ stack' = ConsAt(Len(conses) + 1)
  /\ item' = <<>>
  /\ UNCHANGED <<read, program>>

DecodeRib ==
  /\ IsRead("rib")
  /\ LET top == Cdr(stack)
     IN /\ conses' = [conses EXCEPT
                        ![stack.cons] = [car |-> Car(top), cdr |-> Car(stack),
                                         tag |-> RawTag(Car(stack), item.integer)],
                        ![top.cons].car = stack]
        /\ stack' = top
  /\ item' = <<>>
  /\ UNCHANGED <<code, read, program>>

DecodeInteger ==
  /\ IsRead("number")
  /\ PushValue(DecodeNumber(item.integer))
  /\ item' = <<>>
  /\ UNCHANGED <<code, read, program>>

(* At the end of the bytes. *)
DecodeEnd ==
  /\ item = <<>>
  /\ read = Len(output)
  /\ program = <<>> /\ stack # Nothing
  /\ program' = Car(stack)
  /\ stack' = Cdr(stack)
  /\ UNCHANGED <<code, conses, read, item>>

Decode == ReadHead \/ ReadTail \/ DecodePush \/ DecodeShare \/ DecodeRib \/ DecodeInteger

-----------------------------------------------------------------------------
(* Each operation finds its operands in the lists.  decode_ribs never      *)
(* looks: it relies on bytes that encode has made.                         *)
OperandsDecoded ==
  /\ item = <<>> /\ read < Len(output) /\ NextByte = PushByte => IsCons(stack)
  /\ IsRead("share") => \A i \in 0 .. item.integer \div 2 : IsCons(ListTail(code, i))
  /\ IsRead("rib") => IsCons(stack) /\ IsCons(Cdr(stack))

=============================================================================
