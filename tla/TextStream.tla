------------------------------ MODULE TextStream ------------------------------
(***************************************************************************)
(* What ports promise: what is written is what is read, a byte, a          *)
(* character, a string or a line at a time, once, in order; looking ahead  *)
(* changes nothing; and a closed port is of no use.                        *)
(***************************************************************************)
EXTENDS Utf8

CONSTANTS
  Character,
  MaxCount  \* bound on the argument of read-string and read-bytevector

VARIABLES
  unread,  \* the bytes written and not read
  open,    \* whether the port to read from is
  result   \* what the last call returned

vars == <<unread, open, result>>

EndOfFile == -1
Failure == -2
Newline == 10

TakeFirst(s, n) == SubSeq(s, 1, IF n < Len(s) THEN n ELSE Len(s))
DropFirst(s, n) == SubSeq(s, n + 1, Len(s))
OrEnd(s) == IF s = <<>> THEN <<EndOfFile>> ELSE s

(* The characters of a sequence of bytes. *)
Characters(bytes) ==
  LET One(r) ==
        LET c == CHOOSE c \in Character : IsPrefix(Utf8(c), r.rest)
        IN IF r.rest = <<>> THEN r
           ELSE [characters |-> Append(r.characters, c), rest |-> DropFirst(r.rest, Len(Utf8(c)))]
      parsed[i \in 0 .. Len(bytes)] ==
        IF i = 0 THEN {[characters |-> <<>>, rest |-> bytes]} ELSE {One(r) : r \in parsed[i - 1]}
  IN (CHOOSE r \in parsed[Len(bytes)] : TRUE).characters
Bytes(cs) == FlattenSeq([i \in DOMAIN cs |-> Utf8(cs[i])])

(* A program reads characters only where one begins. *)
AtCharacter(bytes) == bytes = <<>> \/ \E c \in Character : IsPrefix(Utf8(c), bytes)

Init ==
  /\ unread = <<>>
  /\ open = TRUE
  /\ result = <<>>

Write ==
  /\ \E c \in Character : unread' = unread \o Utf8(c)
  /\ UNCHANGED <<open, result>>

Look == open /\ UNCHANGED <<unread, open>>

PeekU8 == Look /\ result' = OrEnd(TakeFirst(unread, 1))
PeekChar == Look /\ AtCharacter(unread) /\ result' = OrEnd(TakeFirst(Characters(unread), 1))

ReadBytes ==
  /\ open
  /\ \E n \in 0 .. MaxCount :
       /\ result' \in {TakeFirst(unread, n)} \cup {r \in {OrEnd(TakeFirst(unread, n))} : n = 1}
       /\ unread' = DropFirst(unread, n)
  /\ UNCHANGED open

ReadCharacters ==
  /\ open /\ AtCharacter(unread)
  /\ LET cs == Characters(unread)
     IN \E n \in 0 .. MaxCount :
          /\ result' \in {TakeFirst(cs, n)} \cup {r \in {OrEnd(TakeFirst(cs, n))} : n = 1}
          /\ unread' = Bytes(DropFirst(cs, n))
  /\ UNCHANGED open

ReadLine ==
  /\ open /\ AtCharacter(unread)
  /\ LET cs == Characters(unread)
         ends == {i \in DOMAIN cs : cs[i] = Newline}
         end == IF ends = {} THEN Len(cs) + 1 ELSE CHOOSE i \in ends : \A j \in ends : i <= j
     IN /\ result' = IF cs = <<>> THEN <<EndOfFile>> ELSE TakeFirst(cs, end - 1)
        /\ unread' = Bytes(DropFirst(cs, end))
  /\ UNCHANGED open

Close ==
  /\ open
  /\ open' = FALSE
  /\ unread' = <<>>
  /\ UNCHANGED result

Fail ==
  /\ ~open
  /\ result' = <<Failure>>
  /\ UNCHANGED <<unread, open>>

Next ==
  \/ Write \/ PeekU8 \/ PeekChar \/ ReadBytes \/ ReadCharacters \/ ReadLine \/ Close \/ Fail

Spec == Init /\ [][Next]_vars

=============================================================================
