--------------------------------- MODULE Ports ---------------------------------
(***************************************************************************)
(* Ports of prelude.scm, (stak io): a program writes to a string or a      *)
(* bytevector and then reads what it wrote.  A program that is careful     *)
(* makes only the calls that keep what there is to read; see Next.         *)
(***************************************************************************)
EXTENDS Utf8

CONSTANTS
  Character,  \* the characters of the program, by code point
  Careful,    \* whether the program is careful
  MaxCount,   \* bound on the argument of read-string and read-bytevector
  MaxWritten  \* bound on the characters written

ASSUME PortsAssumption == Careful \in BOOLEAN

VARIABLES
  written,     \* auxiliary: how many characters
  textual,     \* whether it writes to a string
  string,      \* the characters of the output string
  bytes,       \* the bytes of the output bytevector; those of the bytevector
               \* inside the output string, of a character not complete
  reading,     \* whether it reads
  source,      \* what the read procedure of the input port has left
  data,        \* port-data of the input port: bytes read ahead
  open,        \* whether the input port is
  result       \* what the last call returned

outputVars == <<written, textual, string, bytes>>
vars == <<outputVars, reading, source, data, open, result>>

EndOfFile == -1  \* the object, as a byte
Failure == -2    \* an exception
Newline == 10

Init ==
  /\ written = 0
  /\ textual \in BOOLEAN
  /\ string = <<>> /\ bytes = <<>>
  /\ reading = FALSE
  /\ source = <<>> /\ data = <<>>
  /\ open = TRUE
  /\ result = <<>>

-----------------------------------------------------------------------------
(* Reading.  p is the state of a port; a read returns a value and a port.  *)

Port == [data |-> data, source |-> source]
Read(value, p) == [value |-> value, port |-> p]

(* read-u8 *)
ReadByte(p) ==
  CASE p.data # <<>> -> Read(Head(p.data), [p EXCEPT !.data = Tail(@)])
    [] p.data = <<>> /\ p.source # <<>> -> Read(Head(p.source), [p EXCEPT !.source = Tail(@)])
    [] OTHER -> Read(EndOfFile, p)

(* Puts what was read to the end of the bytes read ahead. *)
Unread(xs, p) == [p EXCEPT !.data = @ \o xs]

(* peek-u8 *)
PeekByte(p) == LET r == ReadByte(p) IN Read(r.value, Unread(<<r.value>>, r.port))

(* The bytes after the first one of a character: none at the end of file.  *)
ReadRest(xs, n, p) ==
  LET One(r) ==
        LET s == ReadByte(r.port)
        IN IF r.value = <<>> THEN r
           ELSE Read(IF s.value = EndOfFile THEN <<>> ELSE Append(r.value, s.value), s.port)
      rest[i \in 0 .. n] == IF i = 0 THEN {Read(xs, p)} ELSE {One(r) : r \in rest[i - 1]}
  IN CHOOSE r \in rest[n] : TRUE

(* read-char-bytes *)
ReadCharBytes(p) ==
  LET r == ReadByte(p)
  IN IF r.value = EndOfFile
     THEN Read(<<>>, r.port)
     ELSE ReadRest(<<r.value>>, Following(r.value), r.port)

CharOf(xs) == IF xs = <<>> THEN EndOfFile ELSE ParseChar(xs)

(* read-char *)
ReadOneChar(p) == LET r == ReadCharBytes(p) IN Read(CharOf(r.value), r.port)

(* peek-char *)
PeekOneChar(p) ==
  LET r == ReadCharBytes(p) IN Read(CharOf(r.value), Unread(r.value, r.port))

(* A loop that reads, at most n rounds of it: what it has read, the port,  *)
(* and whether it has ended.                                               *)
Loop(value, p, ended) == [value |-> value, port |-> p, ended |-> ended]

Rounds(Round(_), n, p) ==
  LET rounds[i \in 0 .. n] ==
        IF i = 0
        THEN {Loop(<<>>, p, FALSE)}
        ELSE {IF w.ended THEN w ELSE Round(w) : w \in rounds[i - 1]}
      end == CHOOSE w \in rounds[n] : TRUE
  IN Read(end.value, end.port)

(* read-string and read-bytevector, of count elements *)
CharRound(w, count) ==
  LET r == ReadOneChar(w.port)
  IN IF r.value = EndOfFile \/ Len(w.value) = count
     THEN Loop(w.value, r.port, TRUE)
     ELSE Loop(Append(w.value, r.value), r.port, FALSE)
ByteRound(w, count) ==
  LET r == ReadByte(w.port)
  IN IF r.value = EndOfFile \/ Len(w.value) = count
     THEN Loop(w.value, r.port, TRUE)
     ELSE Loop(Append(w.value, r.value), r.port, FALSE)

ReadChars(count, p) == Rounds(LAMBDA w : CharRound(w, count), count + 1, p)
ReadBytes(count, p) == Rounds(LAMBDA w : ByteRound(w, count), count + 1, p)

(* read-line, after it has looked at the first character *)
LineRound(w) ==
  LET r == ReadOneChar(w.port)
  IN IF r.value \in {EndOfFile, Newline}
     THEN Loop(w.value, r.port, TRUE)
     ELSE Loop(Append(w.value, r.value), r.port, FALSE)

ReadToNewline(p) == Rounds(LineRound, Len(p.data) + Len(p.source) + 1, p)

(* read-bytevector!, of count bytes *)
IntoRound(w, count) ==
  LET r == PeekByte(w.port)
      s == ReadByte(r.port)
  IN IF r.value = EndOfFile \/ Len(w.value) = count
     THEN Loop(w.value, r.port, TRUE)
     ELSE Loop(Append(w.value, s.value), s.port, FALSE)

ReadInto(count, p) == Rounds(LAMBDA w : IntoRound(w, count), count + 1, p)

Return(value, p) ==
  /\ data' = p.data
  /\ source' = p.source
  /\ result' = value
  /\ UNCHANGED <<outputVars, reading, open>>

Reads == reading /\ open

ReadU8 == Reads /\ \E r \in {ReadByte(Port)} : Return(<<r.value>>, r.port)
PeekU8 == Reads /\ \E r \in {PeekByte(Port)} : Return(<<r.value>>, r.port)
ReadChar == Reads /\ \E r \in {ReadOneChar(Port)} : Return(<<r.value>>, r.port)
PeekChar == Reads /\ \E r \in {PeekOneChar(Port)} : Return(<<r.value>>, r.port)
ReadString(count) ==
  Reads /\ \E r \in {ReadChars(count, Port)} : Return(r.value, r.port)
ReadBytevector(count) ==
  Reads /\ \E r \in {ReadBytes(count, Port)} : Return(r.value, r.port)
ReadBytevectorInto(count) ==
  Reads /\ \E r \in {ReadInto(count, Port)} : Return(r.value, r.port)
ReadLine ==
  /\ Reads
  /\ \E r \in {PeekOneChar(Port)} :
       IF r.value = EndOfFile
       THEN Return(<<EndOfFile>>, r.port)
       ELSE \E s \in {ReadToNewline(r.port)} : Return(s.value, s.port)

(* close-port *)
CloseInput ==
  /\ Reads
  /\ open' = FALSE
  /\ data' = <<>> /\ source' = <<>>
  /\ UNCHANGED <<outputVars, reading, result>>

(* Any of them, of a closed port. *)
CallClosed ==
  /\ reading /\ ~open
  /\ result' = <<Failure>>
  /\ UNCHANGED <<outputVars, reading, source, data, open>>

-----------------------------------------------------------------------------
(* Writing. *)

(* The write procedure of open-output-string. *)
WriteString(s, byte) ==
  LET pending == Append(s.bytes, byte)
      r == ReadOneChar([data |-> <<>>, source |-> pending])
  IN IF r.value = EndOfFile
     THEN [s EXCEPT !.bytes = pending]
     ELSE [string |-> Append(s.string, r.value), bytes |-> <<>>]

(* That of open-output-bytevector. *)
WriteByte(s, byte) == [s EXCEPT !.bytes = Append(@, byte)]

(* Writes the bytes of xs one by one. *)
WriteAll(s, xs) ==
  LET after[i \in 0 .. Len(xs)] ==
        IF i = 0 THEN s
        ELSE IF textual THEN WriteString(after[i - 1], xs[i])
        ELSE WriteByte(after[i - 1], xs[i])
  IN after[Len(xs)]

Write(xs) ==
  /\ ~reading
  /\ written < MaxWritten
  /\ \E s \in {WriteAll([string |-> string, bytes |-> bytes], xs)} :
       string' = s.string /\ bytes' = s.bytes
  /\ written' = written + 1
  /\ UNCHANGED <<textual, reading, source, data, open, result>>

WriteChar(c) == Write(CharBytes(c))
WriteBytevector(c) == Write(Utf8(c))

(* The bytes of open-input-string and of open-input-bytevector. *)
StringBytes == FlattenSeq([i \in DOMAIN string |-> CharBytes(string[i])])

OpenInput ==
  /\ ~reading
  /\ reading' = TRUE
  /\ source' = IF textual THEN StringBytes ELSE bytes
  /\ UNCHANGED <<outputVars, data, open, result>>

-----------------------------------------------------------------------------
(* What a port has for its reader.                                         *)

Contents ==
  IF reading
  THEN (IF data = <<EndOfFile>> THEN <<>> ELSE data) \o source
  ELSE FlattenSeq([i \in DOMAIN string |-> Utf8(string[i])]) \o bytes

(* A program reads characters, or looks at them, only where one begins.  A *)
(* careful program looks at a byte only with less than two bytes read      *)
(* ahead, which peek-u8 rotates, as after a peek-char of a character of    *)
(* several bytes; and it asks read-string and read-bytevector for no less  *)
(* than there is left, as they read one element more than they return and  *)
(* lose it.                                                                *)
AtCharacter == Contents = <<>> \/ \E c \in Character : IsPrefix(Utf8(c), Contents)
RotatesNothing == Len(data) <= 1
ReadsAll(count) == count >= Len(Contents)

Next ==
  \/ \E c \in Character : WriteChar(c) \/ WriteBytevector(c)
  \/ OpenInput
  \/ ReadU8
  \/ (Careful => RotatesNothing) /\ PeekU8
  \/ AtCharacter /\ (ReadChar \/ PeekChar \/ ReadLine)
  \/ \E count \in 0 .. MaxCount :
       \/ AtCharacter /\ (Careful => ReadsAll(count)) /\ ReadString(count)
       \/ (Careful => ReadsAll(count)) /\ ReadBytevector(count)
       \/ (Careful => RotatesNothing) /\ ReadBytevectorInto(count)
  \/ CloseInput
  \/ CallClosed

Spec == Init /\ [][Next]_vars

-----------------------------------------------------------------------------
Stream == INSTANCE TextStream WITH unread <- Contents

(* The bytes a careful program writes to a string or a bytevector, by      *)
(* characters or by bytes, are those it reads there, by bytes, characters, *)
(* lines, in place or all at once, each once and in order, whatever it     *)
(* looks at between its reads (port-data holds that): at characters        *)
(* anywhere, at bytes but where peek-u8 rotates.  Nothing is read twice or *)
(* lost, and a closed port fails.  Of a program that is not careful this   *)
(* is false: its ports lose what read-string and read-bytevector read      *)
(* beyond their count (prelude.scm:2266, 2288), and give the bytes that    *)
(* peek-u8 rotates in another order (prelude.scm:2186).                    *)
ImplementsStream == Stream!Spec

=============================================================================
