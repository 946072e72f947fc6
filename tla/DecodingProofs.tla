----------------------------- MODULE DecodingProofs -----------------------------
(***************************************************************************)
(* Proofs about Code and Decoding: that the bytes of an integer are read   *)
(* as the integer, and what the lists of conses that decode_ribs keeps are.*)
(***************************************************************************)
EXTENDS Decoding, SequenceTheorems, WellFoundedInduction, TLAPS

-----------------------------------------------------------------------------
(* The bytes, for every choice of the bases. *)

(* A byte of an integer holds a digit and a flag. *)
LEMMA Part ==
  ASSUME NEW x \in Nat, NEW base \in Nat, base > 0
  PROVE  IntegerPart(x, base) \in 0 .. 2 * base - 1
<1>1. x % base \in 0 .. base - 1
  OBVIOUS
<1> QED
  BY <1>1 DEF IntegerPart

LEMMA Parts ==
  ASSUME NEW x \in Nat
  PROVE  /\ IntegerPart(x, IntegerBase) \in 0 .. 2 * IntegerBase - 1
         /\ IntegerPart(x, NumberBase) \in 0 .. 2 * NumberBase - 1
         /\ IntegerPart(x, TagBase) \in 0 .. 2 * TagBase - 1
         /\ IntegerPart(x, ShareBase) \in 0 .. 2 * ShareBase - 1
<1>1. \A base \in {IntegerBase, NumberBase, TagBase, ShareBase} : base \in Nat /\ base > 0
  BY CodeAssumption DEF CodeAssumption
<1>2. \A base \in Nat : base > 0 => IntegerPart(x, base) \in 0 .. 2 * base - 1
  BY Part
<1> QED
  BY <1>1, <1>2

(* Every byte the encoder of compile.scm writes has 7 bits, which is what  *)
(* the compressor leaves of a byte.                                        *)
THEOREM BytesFit ==
  ASSUME NEW x \in Nat
  PROVE  /\ PushByte \in 0 .. 127
         /\ ShareByte(x) \in 0 .. 127
         /\ RibByte(x) \in 0 .. 127
         /\ NumberByte(x) \in 0 .. 127
         /\ IntegerPart(x, IntegerBase) \in 0 .. 127
<1>1. /\ IntegerPart(x, IntegerBase) \in 0 .. 2 * IntegerBase - 1
      /\ IntegerPart(x, NumberBase) \in 0 .. 2 * NumberBase - 1
      /\ IntegerPart(x, TagBase) \in 0 .. 2 * TagBase - 1
      /\ IntegerPart(x, ShareBase) \in 0 .. 2 * ShareBase - 1
  BY Parts
<1> QED
  BY <1>1, CodeAssumption DEF CodeAssumption, PushByte, ShareByte, RibByte, NumberByte

(* The tests of decode_ribs on the first byte of an item tell what the     *)
(* encoder wrote, and what is left of the byte is the part of the integer. *)
THEOREM HeadsApart ==
  ASSUME NEW x \in Nat
  PROVE  /\ /\ ShareByte(x) # PushByte /\ ShareByte(x) % 2 = 0
            /\ ShareByte(x) \div 2 - 1 = IntegerPart(x, ShareBase)
         /\ /\ RibByte(x) % 2 = 1 /\ RibByte(x) % 4 = 1
            /\ RibByte(x) \div 4 = IntegerPart(x, TagBase)
         /\ /\ NumberByte(x) % 2 = 1 /\ NumberByte(x) % 4 # 1
            /\ NumberByte(x) \div 4 = IntegerPart(x, NumberBase)
<1>1. /\ IntegerPart(x, IntegerBase) \in 0 .. 2 * IntegerBase - 1
      /\ IntegerPart(x, NumberBase) \in 0 .. 2 * NumberBase - 1
      /\ IntegerPart(x, TagBase) \in 0 .. 2 * TagBase - 1
      /\ IntegerPart(x, ShareBase) \in 0 .. 2 * ShareBase - 1
  BY Parts
<1>2. /\ ShareByte(x) # PushByte /\ ShareByte(x) % 2 = 0
      /\ ShareByte(x) \div 2 - 1 = IntegerPart(x, ShareBase)
  BY <1>1, CodeAssumption DEF CodeAssumption, PushByte, ShareByte
<1>3. /\ RibByte(x) % 2 = 1 /\ RibByte(x) % 4 = 1
      /\ RibByte(x) \div 4 = IntegerPart(x, TagBase)
  <2>1. IntegerPart(x, TagBase) \in Int
    BY <1>1, CodeAssumption DEF CodeAssumption
  <2> QED
    BY <2>1 DEF RibByte
<1>4. /\ NumberByte(x) % 2 = 1 /\ NumberByte(x) % 4 # 1
      /\ NumberByte(x) \div 4 = IntegerPart(x, NumberBase)
  <2>1. IntegerPart(x, NumberBase) \in Int
    BY <1>1, CodeAssumption DEF CodeAssumption
  <2> QED
    BY <2>1 DEF NumberByte
<1> QED
  BY <1>2, <1>3, <1>4

(* An integer that decode_number makes of what encode-number made of it is *)
(* the integer.                                                            *)
THEOREM IntegersArrive ==
  ASSUME NEW n \in Int
  PROVE  DecodeNumber(EncodeNumber([number |-> n])) = [number |-> n]
<1>1. EncodeNumber([number |-> n]) = IF n < 0 THEN 1 + 4 * (-n) ELSE 2 * n
  BY DEF EncodeNumber
<1>2. CASE n < 0
  BY <1>1, <1>2 DEF DecodeNumber
<1>3. CASE n >= 0
  BY <1>1, <1>3 DEF DecodeNumber
<1> QED
  BY <1>2, <1>3

(* So is a float, as long as the shift of its exponent is within a word.   *)
THEOREM FloatsArrive ==
  ASSUME NEW m \in Int, NEW e \in 1 - WordBits .. WordBits - 1, m # 0
  PROVE  DecodeNumber(EncodeNumber([mantissa |-> m, exponent |-> e])) =
           [mantissa |-> m, exponent |-> e]
<1> DEFINE sign == IF m < 0 THEN 1 ELSE 0
           magnitude == IF m < 0 THEN -m ELSE m
           x == sign + 2 * (e + ExponentBias) + 2 * ExponentLimit * magnitude
<1>1. EncodeNumber([mantissa |-> m, exponent |-> e]) = 3 + 4 * x
  BY DEF EncodeNumber
<1>2. magnitude \in Nat /\ x \in Nat
  BY DEF ExponentBias, ExponentLimit, WordBits
<1>3. x \div (2 * ExponentLimit) = magnitude
  BY DEF ExponentBias, ExponentLimit, WordBits
<1>4. x % 2 = sign
  BY DEF ExponentBias, ExponentLimit, WordBits
<1>5. (x \div 2) % ExponentLimit = e + ExponentBias
  BY DEF ExponentBias, ExponentLimit, WordBits
<1>6. Shift(((x \div 2) % ExponentLimit) - ExponentBias) = e
  BY <1>5 DEF Shift, WordBits, ExponentBias
<1>7. (3 + 4 * x) % 2 = 1 /\ (3 + 4 * x) % 4 = 3 /\ (3 + 4 * x) \div 4 = x
  BY <1>2
<1> HIDE DEF x
<1>8. DecodeNumber(3 + 4 * x) =
        [mantissa |-> IF x % 2 = 0 THEN magnitude ELSE -magnitude, exponent |-> e]
  BY <1>2, <1>3, <1>6, <1>7 DEF DecodeNumber
<1> QED
  BY <1>1, <1>4, <1>8

-----------------------------------------------------------------------------
(* The parts of an integer add up to it: by induction over the integer,    *)
(* whose quotient is less.                                                 *)

LEMMA Upwards ==
  ASSUME NEW n \in Nat, NEW S, 0 \in S,
         \A j \in 1 .. n : (\A i \in 0 .. j - 1 : i \in S) => j \in S
  PROVE  0 .. n \subseteq S
<1> DEFINE Less == {ss \in Nat \X Nat : ss[1] < ss[2]}
           T == {j \in 0 .. n : j \notin S}
<1>1. SUFFICES ASSUME T # {}
               PROVE  FALSE
  OBVIOUS
<1>2. IsWellFoundedOn(Less, Nat)
  BY NatLessThanWellFounded DEF OpToRel
<1>3. T \subseteq Nat
  OBVIOUS
<1>4. PICK least \in T : \A y \in T : <<y, least>> \notin Less
  <2> HIDE DEF Less, T
  <2> QED
    BY <1>1, <1>2, <1>3, WFMin
<1>5. least \in 1 .. n /\ least \notin S
  <2>1. least \in 0 .. n /\ least \notin S
    BY <1>4
  <2> QED
    BY <2>1
<1>6. PICK i \in 0 .. least - 1 : i \notin S
  BY <1>5
<1>7. i \in T /\ <<i, least>> \in Less
  BY <1>5, <1>6
<1> QED
  BY <1>4, <1>7

LEMMA Quotient ==
  ASSUME NEW x \in Nat
  PROVE  /\ x \div IntegerBase \in Nat
         /\ x % IntegerBase \in Nat
         /\ x = IntegerBase * (x \div IntegerBase) + (x % IntegerBase)
         /\ x # 0 => x \div IntegerBase < x
         /\ (x \div IntegerBase = 0) <=> x < IntegerBase
<1> DEFINE b == IntegerBase
           q == x \div b
<1>1. b \in Nat /\ b >= 2
  BY CodeAssumption DEF CodeAssumption
<1>2. q \in Int /\ x % b \in 0 .. b - 1 /\ x = b * q + (x % b)
  BY <1>1
<1>3. q \in Nat
  BY <1>1, <1>2
<1>4. b * q >= 2 * q
  BY <1>1, <1>3
<1>5. q # 0 => b * q >= b
  BY <1>1, <1>3
<1> QED
  BY <1>1, <1>2, <1>3, <1>4, <1>5

(* One part of an integer, opaque for the provers. *)
Rest(n) == n \div IntegerBase
Before(n, digits) == <<IntegerPart(n, IntegerBase)>> \o digits

LEMMA RestIsLess ==
  ASSUME NEW n \in Nat
  PROVE  Rest(n) \in Nat /\ (n # 0 => Rest(n) < n)
BY Quotient DEF Rest

IsDigits(f, n) ==
  f = [i \in 0 .. n |-> IF i = 0 THEN <<>>
                        ELSE Before(i, f[Rest(i)])]

LEMMA DigitsExist ==
  ASSUME NEW n \in Nat
  PROVE  \E f : IsDigits(f, n)
<1> DEFINE S == {j \in 0 .. n : \E f : IsDigits(f, j)}
<1>1. 0 \in S
  <2>1. IsDigits([i \in 0 .. 0 |-> <<>>], 0)
    BY DEF IsDigits
  <2> QED
    BY <2>1
<1>2. ASSUME NEW j \in 1 .. n, j - 1 \in S
      PROVE  j \in S
  <2>1. PICK f : IsDigits(f, j - 1)
    BY <1>2
  <2> DEFINE g == [i \in 0 .. j |-> IF i < j THEN f[i]
                       ELSE Before(j, f[Rest(j)])]
  <2>2. ASSUME NEW i \in 1 .. j
        PROVE  Rest(i) \in 0 .. j - 1 /\ g[Rest(i)] = f[Rest(i)]
    <3>1. Rest(i) \in Nat /\ Rest(i) < i
      BY RestIsLess
    <3> QED
      BY <3>1
  <2>3. ASSUME NEW i \in 0 .. j
        PROVE  g[i] = IF i = 0 THEN <<>>
                      ELSE Before(i, g[Rest(i)])
    <3>1. CASE i = j
      <4>1. g[i] = Before(j, f[Rest(j)])
        BY <3>1
      <4>2. j \in 1 .. j /\ j # 0
        BY <1>2
      <4>3. g[Rest(j)] = f[Rest(j)]
        BY <2>2, <4>2
      <4> HIDE DEF g
      <4> QED
        BY <3>1, <4>1, <4>2, <4>3
    <3>2. CASE i # j
      <4>1. g[i] = f[i] /\ i \in 0 .. j - 1
        BY <3>2
      <4>2. f[i] = IF i = 0 THEN <<>>
                   ELSE Before(i, f[Rest(i)])
        BY <2>1, <4>1 DEF IsDigits
      <4> QED
        BY <2>2, <4>1, <4>2
    <3> QED
      BY <3>1, <3>2
  <2> HIDE DEF g
  <2>4. IsDigits(g, j)
    <3>1. g = [i \in 0 .. j |-> g[i]]
      BY DEF g
    <3> QED
      BY <2>3, <3>1 DEF IsDigits
  <2> QED
    BY <2>4
<1>3. 0 .. n \subseteq S
  <2>1. \A j \in 1 .. n : (\A i \in 0 .. j - 1 : i \in S) => j \in S
    BY <1>2
  <2> HIDE DEF S
  <2> QED
    BY <1>1, <2>1, Upwards
<1> QED
  BY <1>3

LEMMA DigitsAre ==
  ASSUME NEW n \in Nat
  PROVE  \E f : IsDigits(f, n) /\ Digits(n) = f[n]
<1> DEFINE f == CHOOSE g : IsDigits(g, n)
<1>1. IsDigits(f, n)
  BY DigitsExist
<1>2. Digits(n) = f[n]
  BY DEF Digits, IsDigits, Before, Rest
<1> QED
  BY <1>1, <1>2

(* The digits of an integer do not depend on the integer they end. *)
LEMMA DigitsOf ==
  ASSUME NEW n \in Nat, NEW f, IsDigits(f, n), NEW m \in 0 .. n
  PROVE  f[m] = Digits(m)
<1>1. PICK g : IsDigits(g, m) /\ Digits(m) = g[m]
  BY DigitsAre
<1> DEFINE S == {j \in 0 .. m : f[j] = g[j]}
<1>2. 0 \in S
  BY <1>1 DEF IsDigits
<1>3. ASSUME NEW j \in 1 .. m, \A i \in 0 .. j - 1 : i \in S
      PROVE  j \in S
  <2>1. Rest(j) \in 0 .. j - 1
    BY RestIsLess
  <2>2. /\ f[j] = Before(j, f[Rest(j)])
        /\ g[j] = Before(j, g[Rest(j)])
    BY <1>1 DEF IsDigits
  <2> QED
    BY <1>3, <2>1, <2>2
<1>4. 0 .. m \subseteq S
  <2> HIDE DEF S
  <2> QED
    BY <1>2, <1>3, Upwards
<1> QED
  BY <1>1, <1>4

LEMMA DigitsUnfold ==
  ASSUME NEW x \in Nat
  PROVE  Digits(x) = IF x = 0 THEN <<>>
                     ELSE Before(x, Digits(Rest(x)))
<1>1. PICK f : IsDigits(f, x) /\ Digits(x) = f[x]
  BY DigitsAre
<1>2. CASE x = 0
  BY <1>1, <1>2 DEF IsDigits
<1>3. CASE x # 0
  <2>1. Rest(x) \in 0 .. x
    BY <1>3, RestIsLess
  <2>2. f[Rest(x)] = Digits(Rest(x))
    BY <1>1, <2>1, DigitsOf
  <2>3. f[x] = Before(x, f[Rest(x)])
    BY <1>1, <1>3 DEF IsDigits
  <2> QED
    BY <1>1, <1>3, <2>2, <2>3
<1> QED
  BY <1>2, <1>3

LEMMA DigitsType ==
  ASSUME NEW x \in Nat
  PROVE  Digits(x) \in Seq(Nat)
<1> DEFINE S == {j \in 0 .. x : Digits(j) \in Seq(Nat)}
<1>1. 0 \in S
  <2>1. Digits(0) = <<>>
    BY DigitsUnfold
  <2>2. <<>> \in Seq(Nat)
    OBVIOUS
  <2>3. 0 \in 0 .. x
    OBVIOUS
  <2> QED
    BY <2>1, <2>2, <2>3, Zenon
<1>2. ASSUME NEW j \in 1 .. x, \A i \in 0 .. j - 1 : i \in S
      PROVE  j \in S
  <2>1. Rest(j) \in 0 .. j - 1
    BY RestIsLess
  <2>2. Digits(Rest(j)) \in Seq(Nat)
    BY <1>2, <2>1
  <2>3. IntegerPart(j, IntegerBase) \in Nat
    BY Parts, CodeAssumption DEF CodeAssumption
  <2>4. Before(j, Digits(Rest(j))) \in Seq(Nat)
    BY <2>2, <2>3, ConcatProperties DEF Before
  <2>5. Digits(j) = Before(j, Digits(Rest(j)))
    BY DigitsUnfold
  <2> QED
    BY <2>4, <2>5
<1>3. 0 .. x \subseteq S
  <2> HIDE DEF S
  <2> QED
    BY <1>1, <1>2, Upwards
<1> QED
  BY <1>3

Items(operation) == [operation : {operation}, integer : Nat, more : BOOLEAN, base : Nat]

(* Items that are read one after another: an item each time another part.  *)
Reads(items, k, parts) ==
  \A i \in 1 .. Len(parts) : items[k + i] = WithPart(items[k + i - 1], parts[i])

(* What the item is, after the parts of x, and that it asks for no more.   *)
AddsUp(items, k, x) ==
  LET n == Len(Digits(x))
  IN /\ \A i \in 0 .. n - 1 : items[k + i].more
     /\ ~items[k + n].more
     /\ items[k + n].integer = items[k].integer + x * items[k].base
     /\ items[k + n].operation = items[k].operation

LEMMA PartIs ==
  ASSUME NEW x \in Nat, NEW base \in Nat, base > 0
  PROVE  /\ IntegerPart(x, base) \div 2 = x % base
         /\ (IntegerPart(x, base) % 2 = 1) <=> x >= base
<1>1. x % base \in Nat
  OBVIOUS
<1> QED
  BY <1>1 DEF IntegerPart

LEMMA WithPartIs ==
  ASSUME NEW operation, NEW before \in Items(operation), NEW x \in Nat
  PROVE  LET next == WithPart(before, IntegerPart(x, IntegerBase))
         IN /\ next \in Items(operation)
            /\ next.integer = before.integer + (x % IntegerBase) * before.base
            /\ next.base = before.base * IntegerBase
            /\ next.more <=> Rest(x) # 0
            /\ next.operation = before.operation
<1>1. IntegerBase \in Nat /\ IntegerBase > 0
  BY CodeAssumption DEF CodeAssumption
<1>2. /\ IntegerPart(x, IntegerBase) \div 2 = x % IntegerBase
      /\ (IntegerPart(x, IntegerBase) % 2 = 1) <=> x >= IntegerBase
  BY <1>1, PartIs
<1>3. (Rest(x) # 0) <=> x >= IntegerBase
  BY <1>1, Quotient DEF Rest
<1> DEFINE digit == x % IntegerBase
           more == IntegerPart(x, IntegerBase) % 2 = 1
<1>4. digit \in Nat
  BY <1>1
<1>5. WithPart(before, IntegerPart(x, IntegerBase)) =
        [before EXCEPT !.integer = @ + digit * before.base, !.base = @ * IntegerBase, !.more = more]
  BY <1>2 DEF WithPart
<1>6. more \in BOOLEAN /\ (more <=> Rest(x) # 0)
  BY <1>2, <1>3
<1>7. before.integer + digit * before.base \in Nat /\ before.base * IntegerBase \in Nat
  <2>1. before.integer \in Nat /\ before.base \in Nat
    BY DEF Items
  <2> HIDE DEF digit
  <2> QED
    BY <1>1, <1>4, <2>1
<1> HIDE DEF more
<1> QED
  BY <1>5, <1>6, <1>7 DEF Items

LEMMA Distributes ==
  ASSUME NEW d \in Nat, NEW q \in Nat, NEW b \in Nat, NEW c \in Nat
  PROVE  d * c + q * (c * b) = (b * q + d) * c
<1>1. (b * q + d) * c = (b * q) * c + d * c
  OBVIOUS
<1>2. (b * q) * c = q * (c * b)
  OBVIOUS
<1>3. (b * q) * c \in Nat /\ d * c \in Nat
  OBVIOUS
<1> QED
  BY <1>1, <1>2, <1>3

LEMMA TailAddsUp ==
  ASSUME NEW operation, NEW items, NEW x \in Nat
  PROVE  \A k \in Nat :
           /\ items[k] \in Items(operation)
           /\ items[k].more <=> x # 0
           /\ Reads(items, k, Digits(x))
           => AddsUp(items, k, x)
<1> DEFINE Starts(k, y) == /\ items[k] \in Items(operation)
                           /\ items[k].more <=> y # 0
                           /\ Reads(items, k, Digits(y))
           S == {y \in 0 .. x : \A k \in Nat : Starts(k, y) => AddsUp(items, k, y)}
<1>1. 0 \in S
  <2> SUFFICES ASSUME NEW k \in Nat, Starts(k, 0)
               PROVE  AddsUp(items, k, 0)
    OBVIOUS
  <2>1. Digits(0) = <<>> /\ Len(Digits(0)) = 0
    BY DigitsUnfold
  <2>2. ~items[k].more /\ items[k].integer \in Nat /\ items[k].base \in Nat
    BY DEF Items
  <2>3. items[k + 0] = items[k]
    OBVIOUS
  <2>4. 0 * items[k].base = 0 /\ items[k].integer + 0 = items[k].integer
    BY <2>2
  <2> QED
    BY <2>1, <2>2, <2>3, <2>4 DEF AddsUp
<1>2. ASSUME NEW y \in 1 .. x, \A z \in 0 .. y - 1 : z \in S
      PROVE  y \in S
  <2> SUFFICES ASSUME NEW k \in Nat, Starts(k, y)
               PROVE  AddsUp(items, k, y)
    OBVIOUS
  <2> DEFINE q == Rest(y)
             part == IntegerPart(y, IntegerBase)
             d == Digits(y)
             r == Digits(q)
  <2>1. q \in 0 .. y - 1
    BY RestIsLess
  <2>2. d = <<part>> \o r /\ r \in Seq(Nat) /\ part \in Nat
    <3>1. d = Before(y, r)
      BY DigitsUnfold
    <3>2. q \in Nat
      BY <2>1
    <3>3. part \in Nat
      BY Parts, CodeAssumption DEF CodeAssumption
    <3> QED
      BY <3>1, <3>2, <3>3, DigitsType DEF Before
  <2> HIDE DEF q, part, d, r
  <2>3. Len(d) = Len(r) + 1 /\ Len(r) \in Nat /\ d[1] = part
        /\ \A i \in 1 .. Len(r) : d[i + 1] = r[i]
    BY <2>2
  <2>4. items[k] \in Items(operation) /\ items[k].more /\ Reads(items, k, d)
    BY DEF d
  <2>5. items[k + 1] = WithPart(items[k], part)
    <3>1. 1 \in 1 .. Len(d) /\ k + 1 - 1 = k
      BY <2>3
    <3>2. items[k + 1] = WithPart(items[k + 1 - 1], d[1])
      BY <2>4, <3>1 DEF Reads
    <3> QED
      BY <2>3, <3>1, <3>2
  <2>6. /\ items[k + 1] \in Items(operation)
        /\ items[k + 1].integer = items[k].integer + (y % IntegerBase) * items[k].base
        /\ items[k + 1].base = items[k].base * IntegerBase
        /\ items[k + 1].more <=> q # 0
        /\ items[k + 1].operation = items[k].operation
    BY <2>4, <2>5, WithPartIs DEF part, q
  <2>7. Reads(items, k + 1, r)
    <3> SUFFICES ASSUME NEW i \in 1 .. Len(r)
                 PROVE  items[(k + 1) + i] = WithPart(items[(k + 1) + i - 1], r[i])
      BY DEF Reads
    <3>1. i + 1 \in 1 .. Len(d) /\ k + (i + 1) = (k + 1) + i
          /\ k + (i + 1) - 1 = (k + 1) + i - 1
      BY <2>3
    <3>2. items[k + (i + 1)] = WithPart(items[k + (i + 1) - 1], d[i + 1])
      BY <2>4, <3>1 DEF Reads
    <3> QED
      BY <2>3, <3>1, <3>2
  <2>8. AddsUp(items, k + 1, q)
    <3>1. Starts(k + 1, q) /\ k + 1 \in Nat
      BY <2>6, <2>7 DEF r
    <3>2. q \in S
      BY <1>2, <2>1
    <3> HIDE DEF Starts
    <3> QED
      BY <3>1, <3>2
  <2> DEFINE n == Len(d)
             m == Len(r)
  <2>9. /\ \A i \in 0 .. m - 1 : items[k + 1 + i].more
        /\ ~items[k + 1 + m].more
        /\ items[k + 1 + m].integer = items[k + 1].integer + q * items[k + 1].base
        /\ items[k + 1 + m].operation = items[k + 1].operation
    BY <2>8 DEF AddsUp, r
  <2>10. n = m + 1 /\ m \in Nat /\ k + n = k + 1 + m
    BY <2>3
  <2>11. ASSUME NEW i \in 0 .. n - 1
         PROVE  items[k + i].more
    <3>1. CASE i = 0
      <4>1. k + i = k
        BY <3>1
      <4> QED
        BY <2>4, <4>1
    <3>2. CASE i # 0
      <4>1. i - 1 \in 0 .. m - 1 /\ k + 1 + (i - 1) = k + i
        BY <2>10, <3>2
      <4> QED
        BY <2>9, <4>1
    <3> QED
      BY <3>1, <3>2
  <2>12. items[k + n].integer = items[k].integer + y * items[k].base
    <3> DEFINE a == items[k].integer
               c == items[k].base
               e == y % IntegerBase
    <3>1. IntegerBase \in Nat /\ q \in Nat /\ e \in Nat /\ y = IntegerBase * q + e
      BY Quotient, CodeAssumption DEF CodeAssumption, q, Rest
    <3>2. a \in Nat /\ c \in Nat
      BY <2>4 DEF Items
    <3>3. items[k + n].integer = (a + e * c) + q * (c * IntegerBase)
      BY <2>6, <2>9, <2>10
    <3> HIDE DEF a, c, e
    <3>4. e * c + q * (c * IntegerBase) = y * c
      BY <3>1, <3>2, Distributes
    <3>5. e * c \in Nat /\ q * (c * IntegerBase) \in Nat
      <4>1. c * IntegerBase \in Nat
        BY <3>1, <3>2
      <4> QED
        BY <3>1, <3>2, <4>1
    <3>6. (a + e * c) + q * (c * IntegerBase) = a + (e * c + q * (c * IntegerBase))
      <4> DEFINE u == e * c
                 v == q * (c * IntegerBase)
      <4>1. u \in Nat /\ v \in Nat
        BY <3>5
      <4> HIDE DEF u, v
      <4>2. (a + u) + v = a + (u + v)
        BY <3>2, <4>1
      <4> QED
        BY <4>2 DEF u, v
    <3>7. items[k + n].integer = a + y * c
      BY <3>3, <3>4, <3>6, Zenon
    <3> QED
      BY <3>7 DEF a, c
  <2> QED
    BY <2>6, <2>9, <2>10, <2>11, <2>12 DEF AddsUp, d
<1>3. 0 .. x \subseteq S
  <2> HIDE DEF S
  <2> QED
    BY <1>1, <1>2, Upwards
<1> QED
  BY <1>3

(* What decode_integer_tail reads of the bytes of an integer is the        *)
(* integer, whatever the base of its first part: the part that the first   *)
(* byte holds, then its digits, each byte but the last saying that another *)
(* follows.                                                                *)
THEOREM DigitsArrive ==
  ASSUME NEW operation, NEW x \in Nat, NEW base \in Nat \ {0}, NEW items,
         items[0] = Item(operation, IntegerPart(x, base), base),
         Reads(items, 0, Digits(x \div base))
  PROVE  LET n == Len(Digits(x \div base))
         IN /\ \A i \in 0 .. n - 1 : items[i].more
            /\ ~items[n].more
            /\ items[n].integer = x
            /\ items[n].operation = operation
<1> DEFINE q == x \div base
           n == Len(Digits(q))
<1>1. q \in Nat /\ x % base \in Nat /\ x = base * q + (x % base) /\ (q # 0 <=> x >= base)
  <2>1. q \in Int /\ x % base \in 0 .. base - 1 /\ x = base * q + (x % base)
    OBVIOUS
  <2>2. q \in Nat
    BY <2>1
  <2>3. q # 0 => base * q >= base
    BY <2>2
  <2> QED
    BY <2>1, <2>2, <2>3
<1> DEFINE y == IntegerPart(x, base)
           more == y % 2 = 1
<1>2. y \div 2 = x % base /\ (more <=> x >= base) /\ more \in BOOLEAN
  <2>1. base \in Nat /\ base > 0
    OBVIOUS
  <2> QED
    BY <2>1, PartIs
<1>3. /\ items[0] \in Items(operation)
      /\ (items[0].more <=> q # 0)
      /\ items[0].integer = x % base
      /\ items[0].base = base
      /\ items[0].operation = operation
  <2>1. items[0] = [operation |-> operation, integer |-> x % base, more |-> more, base |-> base]
    BY <1>2 DEF Item
  <2> HIDE DEF more, q
  <2>2. x % base \in Nat /\ base \in Nat
    BY <1>1
  <2> QED
    BY <1>1, <1>2, <2>1, <2>2 DEF Items
<1>4. AddsUp(items, 0, q)
  <2> HIDE DEF q
  <2> QED
    BY <1>1, <1>3, TailAddsUp DEF q
<1>5. n \in Nat
  <2> HIDE DEF q
  <2> QED
    BY <1>1, DigitsType
<1>6. (x % base) + q * base = x
  BY <1>1
<1>7. 0 + n = n /\ \A i \in 0 .. n - 1 : 0 + i = i
  BY <1>5
<1>8. /\ \A i \in 0 .. n - 1 : items[0 + i].more
      /\ ~items[0 + n].more
      /\ items[0 + n].integer = items[0].integer + q * items[0].base
      /\ items[0 + n].operation = items[0].operation
  BY <1>4 DEF AddsUp
<1> HIDE DEF q, n, y
<1>9. items[n].integer = x
  BY <1>3, <1>6, <1>7, <1>8 DEF q
<1>10. \A i \in 0 .. n - 1 : items[i].more
  BY <1>7, <1>8
<1>11. ~items[n].more /\ items[n].operation = operation
  BY <1>3, <1>7, <1>8
<1> QED
  BY <1>9, <1>10, <1>11 DEF n, q

-----------------------------------------------------------------------------
(* The lists of the decoder.  Values are pointers to conses of a set, null *)
(* and numbers.                                                            *)

Numbers == {DecodeNumber(n) : n \in Nat}
Pointers(S) == {ConsAt(i) : i \in S}
Values(S) == Pointers(S) \cup {Nothing} \cup Numbers
Record == [car : Values(Nat), cdr : Values(Nat), tag : Nat]

(* The i-th cons of a list, or the null at its end. *)
At(cells, i) == IF i \in 1 .. Len(cells) THEN ConsAt(cells[i]) ELSE Nothing

(* list has the conses cells, in this order. *)
IsList(store, cells, list) ==
  /\ cells \in Seq(1 .. Len(store))
  /\ list = At(cells, 1)
  /\ \A i \in 1 .. Len(cells) : store[cells[i]].cdr = At(cells, i + 1)

(* d are the conses of the dictionary, s those of the stack and R the ribs *)
(* that have been made: no cons is two of these, or is one of them twice.  *)
Apart(d, s, R) ==
  /\ \A i, j \in 1 .. Len(d) : d[i] = d[j] => i = j
  /\ \A i, j \in 1 .. Len(s) : s[i] = s[j] => i = j
  /\ \A i \in 1 .. Len(d), j \in 1 .. Len(s) : d[i] # s[j]
  /\ \A i \in 1 .. Len(d) : d[i] \notin R
  /\ \A i \in 1 .. Len(s) : s[i] \notin R

(* What they hold is ribs and numbers. *)
Holds(store, cells, R) == \A i \in 1 .. Len(cells) : store[cells[i]].car \in Values(R)
Closed(store, R) == \A r \in R : store[r].car \in Values(R) /\ store[r].cdr \in Values(R)

Lists(store, dictionary, operands, d, s, R) ==
  /\ store \in Seq(Record)
  /\ R \subseteq 1 .. Len(store)
  /\ IsList(store, d, dictionary) /\ IsList(store, s, operands)
  /\ Apart(d, s, R)
  /\ Holds(store, d, R) /\ Holds(store, s, R)
  /\ Closed(store, R)

LEMMA ValueFacts ==
  /\ \A i : IsCons(ConsAt(i)) /\ ConsAt(i).cons = i
  /\ \A i, j : ConsAt(i) = ConsAt(j) => i = j
  /\ ~IsCons(Nothing)
  /\ \A i : ConsAt(i) # Nothing
<1>1. \A i : IsCons(ConsAt(i)) /\ ConsAt(i).cons = i
  BY DEF IsCons, ConsAt
<1>2. ~IsCons(Nothing)
  <2>1. DOMAIN Nothing = {"nothing"}
    BY DEF Nothing
  <2> QED
    BY <2>1 DEF IsCons
<1> QED
  BY <1>1, <1>2

LEMMA NumberFacts ==
  ASSUME NEW x \in Numbers
  PROVE  ~IsCons(x)
<1>1. PICK n \in Nat : x = DecodeNumber(n)
  BY DEF Numbers
<1>2. CASE n % 2 = 0
  <2>1. x = [number |-> n \div 2]
    BY <1>1, <1>2 DEF DecodeNumber
  <2>2. DOMAIN x = {"number"}
    BY <2>1
  <2> QED
    BY <2>2 DEF IsCons
<1>3. CASE n % 2 # 0 /\ n % 4 = 1
  <2>1. x = [number |-> -(n \div 4)]
    BY <1>1, <1>3 DEF DecodeNumber
  <2>2. DOMAIN x = {"number"}
    BY <2>1
  <2> QED
    BY <2>2 DEF IsCons
<1>4. CASE n % 2 # 0 /\ n % 4 # 1
  <2>1. PICK m, e : x = [mantissa |-> m, exponent |-> e]
    BY <1>1, <1>4 DEF DecodeNumber
  <2>2. DOMAIN x = {"mantissa", "exponent"}
    BY <2>1
  <2> QED
    BY <2>2 DEF IsCons
<1> QED
  BY <1>2, <1>3, <1>4

LEMMA ValueOf ==
  ASSUME NEW S, NEW x \in Values(S)
  PROVE  /\ IsCons(x) => \E i \in S : x = ConsAt(i)
         /\ ~IsCons(x) => \A T : x \in Values(T)
         /\ \A T : S \subseteq T => x \in Values(T)
<1>1. CASE x \in Pointers(S)
  BY <1>1, ValueFacts DEF Pointers, Values
<1>2. CASE x = Nothing
  BY <1>2, ValueFacts DEF Values
<1>3. CASE x \in Numbers
  BY <1>3, NumberFacts DEF Values
<1> QED
  BY <1>1, <1>2, <1>3 DEF Values

LEMMA PointerIs ==
  ASSUME NEW S, NEW i \in S
  PROVE  ConsAt(i) \in Values(S)
BY DEF Values, Pointers

LEMMA NothingIs == \A S : Nothing \in Values(S)
BY DEF Values

LEMMA AtFacts ==
  ASSUME NEW T, NEW cells \in Seq(T)
  PROVE  /\ At(cells, 1) = IF cells = <<>> THEN Nothing ELSE ConsAt(cells[1])
         /\ At(cells, Len(cells) + 1) = Nothing
         /\ \A i \in 1 .. Len(cells) : At(cells, i) = ConsAt(cells[i]) /\ cells[i] \in T
<1>1. Len(cells) \in Nat /\ (cells = <<>> <=> Len(cells) = 0)
  OBVIOUS
<1>2. 1 \in 1 .. Len(cells) <=> cells # <<>>
  BY <1>1
<1>3. Len(cells) + 1 \notin 1 .. Len(cells)
  BY <1>1
<1>4. \A i \in 1 .. Len(cells) : cells[i] \in T
  OBVIOUS
<1> QED
  BY <1>2, <1>3, <1>4 DEF At

(* A list stays one when its conses keep their cdrs. *)
LEMMA StaysList ==
  ASSUME NEW store, NEW later, NEW cells, NEW list, IsList(store, cells, list),
         Len(store) \in Nat, Len(later) \in Nat, Len(store) <= Len(later),
         \A i \in 1 .. Len(cells) : later[cells[i]].cdr = store[cells[i]].cdr
  PROVE  IsList(later, cells, list)
<1>1. cells \in Seq(1 .. Len(store)) /\ 1 .. Len(store) \subseteq 1 .. Len(later)
  BY DEF IsList
<1>2. cells \in Seq(1 .. Len(later))
  BY <1>1, SeqMonotonic
<1> QED
  BY <1>2 DEF IsList

LEMMA TailList ==
  ASSUME NEW store, NEW cells, NEW list, IsList(store, cells, list), cells # <<>>
  PROVE  /\ list = ConsAt(cells[1])
         /\ IsList(store, Tail(cells), store[cells[1]].cdr)
<1>1. cells \in Seq(1 .. Len(store))
  BY DEF IsList
<1>2. /\ Tail(cells) \in Seq(1 .. Len(store)) /\ Len(Tail(cells)) = Len(cells) - 1
      /\ Len(cells) \in Nat /\ Len(cells) >= 1
      /\ \A i \in 1 .. Len(cells) - 1 : Tail(cells)[i] = cells[i + 1]
  BY <1>1
<1>3. ASSUME NEW i \in 0 .. Len(cells) - 1
      PROVE  At(Tail(cells), i + 1) = At(cells, i + 2)
  <2>1. i + 1 \in 1 .. Len(Tail(cells)) <=> i + 2 \in 1 .. Len(cells)
    BY <1>2
  <2>2. i + 1 \in 1 .. Len(Tail(cells)) => Tail(cells)[i + 1] = cells[i + 2]
    <3>1. (i + 1) + 1 = i + 2
      OBVIOUS
    <3> QED
      BY <1>2, <3>1
  <2> QED
    BY <2>1, <2>2 DEF At
<1>4. \A i \in 1 .. Len(cells) : store[cells[i]].cdr = At(cells, i + 1)
  BY DEF IsList
<1>5. store[cells[1]].cdr = At(Tail(cells), 1)
  <2>1. 0 \in 0 .. Len(cells) - 1 /\ 1 \in 1 .. Len(cells) /\ 0 + 1 = 1 /\ 0 + 2 = 2 /\ 1 + 1 = 2
    BY <1>2
  <2>2. At(Tail(cells), 1) = At(cells, 2)
    BY <1>3, <2>1
  <2>3. store[cells[1]].cdr = At(cells, 2)
    BY <1>4, <2>1
  <2> QED
    BY <2>2, <2>3
<1>6. ASSUME NEW i \in 1 .. Len(Tail(cells))
      PROVE  store[Tail(cells)[i]].cdr = At(Tail(cells), i + 1)
  <2>1. i \in 0 .. Len(cells) - 1 /\ i \in 1 .. Len(cells) - 1 /\ i + 1 \in 1 .. Len(cells)
        /\ (i + 1) + 1 = i + 2
    BY <1>2
  <2>2. Tail(cells)[i] = cells[i + 1]
    BY <1>2, <2>1
  <2>3. store[cells[i + 1]].cdr = At(cells, i + 2)
    BY <1>4, <2>1
  <2>4. At(Tail(cells), i + 1) = At(cells, i + 2)
    BY <1>3, <2>1
  <2> QED
    BY <2>2, <2>3, <2>4
<1>7. list = ConsAt(cells[1])
  BY <1>1, AtFacts DEF IsList
<1> QED
  BY <1>2, <1>5, <1>6, <1>7 DEF IsList

(* The conses of a sequence, one put in front. *)
Fronts(front, c, cells, T) ==
  /\ front \in Seq(T) /\ Len(front) = Len(cells) + 1 /\ Len(cells) \in Nat
  /\ front # <<>> /\ front[1] = c
  /\ \A i \in 1 .. Len(cells) : front[i + 1] = cells[i]
  /\ \A i \in 1 .. Len(cells) + 1 : i = 1 \/ i - 1 \in 1 .. Len(cells)
  /\ \A i \in 0 .. Len(cells) : At(front, (i + 1) + 1) = At(cells, i + 1)
  /\ At(front, 1) = ConsAt(c)

LEMMA FrontFacts ==
  ASSUME NEW T, NEW cells \in Seq(T), NEW c \in T, NEW front, front = <<c>> \o cells
  PROVE  Fronts(front, c, cells, T)
<1>1. <<c>> \in Seq(T) /\ Len(<<c>>) = 1 /\ Len(cells) \in Nat
  OBVIOUS
<1>2. /\ front \in Seq(T) /\ Len(front) = Len(cells) + 1 /\ front[1] = c
      /\ \A i \in 1 .. Len(cells) : front[i + 1] = cells[i]
  OBVIOUS
<1>3. \A i \in 1 .. Len(cells) + 1 : i = 1 \/ i - 1 \in 1 .. Len(cells)
  BY <1>1
<1>4. ASSUME NEW i \in 0 .. Len(cells)
      PROVE  At(front, (i + 1) + 1) = At(cells, i + 1)
  <2>1. (i + 1) + 1 \in 1 .. Len(front) <=> i + 1 \in 1 .. Len(cells)
    BY <1>1, <1>2
  <2>2. i + 1 \in 1 .. Len(cells) => front[(i + 1) + 1] = cells[i + 1]
    BY <1>2
  <2> QED
    BY <2>1, <2>2 DEF At
<1>5. 1 \in 1 .. Len(front) /\ front # <<>>
  BY <1>1, <1>2
<1>6. At(front, 1) = ConsAt(c)
  BY <1>2, <1>5 DEF At
<1> QED
  BY <1>1, <1>2, <1>3, <1>4, <1>5, <1>6 DEF Fronts

(* Memory::cons: the store keeps what it has. *)
LEMMA AppendStore ==
  ASSUME NEW store \in Seq(Record), NEW x \in Record
  PROVE  LET later == Append(store, x)
         IN /\ later \in Seq(Record) /\ Len(later) = Len(store) + 1 /\ Len(store) \in Nat
            /\ \A i \in 1 .. Len(store) : later[i] = store[i]
            /\ later[Len(store) + 1] = x
<1> DEFINE later == Append(store, x)
<1>1. later \in Seq(Record) /\ Len(later) = Len(store) + 1 /\ Len(store) \in Nat
      /\ (\A i \in 1 .. Len(store) : later[i] = store[i]) /\ later[Len(store) + 1] = x
  <2> HIDE DEF Record
  <2> QED
    BY AppendProperties
<1> QED
  BY <1>1

(* A cons in front of a list. *)
LEMMA ConsList ==
  ASSUME NEW store, NEW cells, NEW list, IsList(store, cells, list),
         NEW c \in 1 .. Len(store), store[c].cdr = list
  PROVE  IsList(store, <<c>> \o cells, ConsAt(c))
<1> DEFINE n == Len(store)
           front == <<c>> \o cells
<1>1. cells \in Seq(1 .. n) /\ c \in 1 .. n
  BY DEF IsList
<1>2. front = <<c>> \o cells
  OBVIOUS
<1> HIDE DEF n, front
<1> DEFINE T == 1 .. n
<1>3. cells \in Seq(T) /\ c \in T
  BY <1>1
<1> HIDE DEF T
<1>4. Fronts(front, c, cells, T)
  BY <1>2, <1>3, FrontFacts, Zenon
<1>5. list = At(cells, 1) /\ \A i \in 1 .. Len(cells) : store[cells[i]].cdr = At(cells, i + 1)
  BY DEF IsList
<1>6. ASSUME NEW i \in 1 .. Len(front)
      PROVE  store[front[i]].cdr = At(front, i + 1)
  <2>1. CASE i = 1
    <3>1. 0 \in 0 .. Len(cells) /\ (0 + 1) + 1 = i + 1 /\ 0 + 1 = 1
      BY <1>4, <2>1 DEF Fronts
    <3>2. At(front, i + 1) = At(cells, 1)
      BY <1>4, <3>1 DEF Fronts
    <3>3. store[front[i]].cdr = list
      BY <1>4, <2>1 DEF Fronts
    <3> QED
      BY <1>5, <3>2, <3>3
  <2>2. CASE i # 1
    <3>1. PICK j \in 1 .. Len(cells) : i = j + 1
      <4>1. i - 1 \in 1 .. Len(cells) /\ i = (i - 1) + 1
        BY <1>4, <2>2 DEF Fronts
      <4> QED
        BY <4>1
    <3>2. j \in 0 .. Len(cells)
      OBVIOUS
    <3>3. front[i] = cells[j] /\ At(front, i + 1) = At(cells, j + 1)
      BY <1>4, <3>1, <3>2 DEF Fronts
    <3> QED
      BY <1>5, <3>1, <3>3
  <2> QED
    BY <2>1, <2>2
<1> QED
  BY <1>4, <1>6 DEF IsList, Fronts, front, n, T

(* A list in a store that has got longer. *)
LEMMA KeepsList ==
  ASSUME NEW store, NEW later, NEW cells, NEW list, IsList(store, cells, list),
         Len(store) \in Nat, Len(later) \in Nat, Len(store) <= Len(later),
         \A i \in 1 .. Len(store) : later[i] = store[i]
  PROVE  IsList(later, cells, list)
<1>1. cells \in Seq(1 .. Len(store))
  BY DEF IsList
<1>2. \A i \in 1 .. Len(cells) : later[cells[i]].cdr = store[cells[i]].cdr
  BY <1>1, ElementOfSeq
<1> QED
  BY <1>2, StaysList

(* Memory::tail *)
LEMMA ListTailIs ==
  ASSUME NEW d, IsList(conses, d, code), NEW n \in 0 .. Len(d)
  PROVE  ListTail(code, n) = At(d, n + 1)
<1> DEFINE Is(f) == f = [i \in 0 .. n |-> IF i = 0 THEN code ELSE Cdr(f[i - 1])]
           F == CHOOSE f : Is(f)
           g == [i \in 0 .. n |-> At(d, i + 1)]
<1>1. d \in Seq(1 .. Len(conses)) /\ Len(d) \in Nat /\ code = At(d, 1)
      /\ \A i \in 1 .. Len(d) : conses[d[i]].cdr = At(d, i + 1)
  BY DEF IsList
<1>2. ASSUME NEW i \in 1 .. n
      PROVE  Cdr(At(d, i)) = At(d, i + 1)
  <2>1. i \in 1 .. Len(d)
    BY <1>1
  <2>2. At(d, i) = ConsAt(d[i])
    BY <2>1 DEF At
  <2> QED
    BY <1>1, <2>1, <2>2, ValueFacts DEF Cdr
<1>3. \A i \in 0 .. n : i # 0 => i \in 1 .. n /\ i - 1 \in 0 .. n /\ (i - 1) + 1 = i
  BY <1>1
<1>4. n \in Nat /\ n \in 0 .. n /\ 0 \in 0 .. n
  BY <1>1
<1>5. ASSUME NEW i \in 0 .. n
      PROVE  g[i] = IF i = 0 THEN code ELSE Cdr(g[i - 1])
  <2>1. CASE i = 0
    <3>1. g[i] = At(d, i + 1) /\ i + 1 = 1
      BY <2>1
    <3> QED
      BY <1>1, <2>1, <3>1
  <2>2. CASE i # 0
    <3>1. g[i - 1] = At(d, i)
      BY <1>3, <2>2
    <3>2. g[i] = At(d, i + 1)
      OBVIOUS
    <3> QED
      BY <1>2, <1>3, <2>2, <3>1, <3>2
  <2> QED
    BY <2>1, <2>2
<1>6. Is(g)
  <2>1. g = [i \in 0 .. n |-> g[i]]
    OBVIOUS
  <2> HIDE DEF g
  <2> QED
    BY <1>5, <2>1
<1>7. Is(F)
  <2> HIDE DEF Is, g
  <2> QED
    BY <1>6
<1>8. \A i \in 0 .. n : F[i] = IF i = 0 THEN code ELSE Cdr(F[i - 1])
  <2> HIDE DEF F
  <2> QED
    BY <1>7
<1>9. ListTail(code, n) = F[n]
  BY DEF ListTail
<1> HIDE DEF F, g
<1> DEFINE S == {i \in 0 .. n : F[i] = g[i]}
<1>10. 0 \in S
  BY <1>4, <1>5, <1>8
<1>11. ASSUME NEW j \in 1 .. n, \A i \in 0 .. j - 1 : i \in S
       PROVE  j \in S
  <2>1. j - 1 \in 0 .. j - 1 /\ j \in 0 .. n /\ j # 0
    OBVIOUS
  <2>2. F[j - 1] = g[j - 1]
    BY <1>11, <2>1
  <2> QED
    BY <1>5, <1>8, <2>1, <2>2
<1>12. 0 .. n \subseteq S
  <2> HIDE DEF S
  <2> QED
    BY <1>4, <1>10, <1>11, Upwards
<1>13. F[n] = g[n]
  BY <1>4, <1>12
<1>14. g[n] = At(d, n + 1)
  BY <1>4 DEF g
<1> QED
  BY <1>9, <1>13, <1>14

-----------------------------------------------------------------------------
(* The dictionary.  Removed is where an entry was, in the others.          *)

LEMMA RemovedFacts ==
  ASSUME NEW T, NEW d \in Seq(T), NEW index \in 0 .. Len(d) - 1
  PROVE  LET others == RemoveAt(d, index + 1)
         IN /\ others \in Seq(T) /\ Len(others) = Len(d) - 1 /\ Len(d) \in Nat
            /\ \A i \in 1 .. Len(d) - 1 : others[i] = IF i <= index THEN d[i] ELSE d[i + 1]
            /\ index + 1 \in 1 .. Len(d) /\ d[index + 1] \in T
<1> DEFINE n == Len(d)
           front == SubSeq(d, 1, index)
           back == SubSeq(d, index + 2, n)
           others == front \o back
<1>1. n \in Nat /\ index \in Nat /\ index < n /\ index + 1 \in 1 .. n
  OBVIOUS
<1>2. \A i \in 1 .. n : d[i] \in T
  OBVIOUS
<1> HIDE DEF n
<1>3. front \in Seq(T) /\ Len(front) = index /\ \A i \in 1 .. index : front[i] = d[i]
  <2>1. \A i \in 1 .. index : d[i] \in T
    BY <1>1, <1>2
  <2>2. index \in Int /\ 1 \in Int /\ index - 1 + 1 = index
    BY <1>1
  <2>3. /\ front \in Seq(T) /\ Len(front) = IF 1 <= index THEN index - 1 + 1 ELSE 0
        /\ \A i \in 1 .. index - 1 + 1 : front[i] = d[1 + i - 1]
    BY <2>1, <2>2, SubSeqProperties
  <2>4. \A i \in 1 .. index : 1 + i - 1 = i
    OBVIOUS
  <2> HIDE DEF front
  <2> QED
    BY <1>1, <2>2, <2>3, <2>4
<1>4. back \in Seq(T) /\ Len(back) = n - 1 - index
      /\ \A i \in 1 .. n - 1 - index : back[i] = d[i + index + 1]
  <2>1. \A i \in index + 2 .. n : d[i] \in T
    BY <1>1, <1>2
  <2>2. index + 2 \in Int /\ n \in Int /\ n - (index + 2) + 1 = n - 1 - index
    BY <1>1
  <2>3. /\ back \in Seq(T) /\ Len(back) = IF index + 2 <= n THEN n - (index + 2) + 1 ELSE 0
        /\ \A i \in 1 .. n - (index + 2) + 1 : back[i] = d[index + 2 + i - 1]
    BY <2>1, <2>2, SubSeqProperties
  <2>4. \A i \in 1 .. n - 1 - index : index + 2 + i - 1 = i + index + 1
    BY <1>1
  <2> HIDE DEF back
  <2> QED
    BY <1>1, <2>2, <2>3, <2>4
<1> HIDE DEF front, back
<1>5. others \in Seq(T) /\ Len(others) = n - 1
      /\ \A i \in 1 .. n - 1 : others[i] = IF i <= index THEN front[i] ELSE back[i - index]
  <2>1. others \in Seq(T) /\ Len(others) = Len(front) + Len(back)
        /\ \A i \in 1 .. Len(front) + Len(back) :
             others[i] = IF i <= Len(front) THEN front[i] ELSE back[i - Len(front)]
    <3>1. front \in Seq(T) /\ back \in Seq(T)
      BY <1>3, <1>4
    <3> QED
      BY <3>1, ConcatProperties, Zenon
  <2>2. Len(front) + Len(back) = n - 1
    BY <1>1, <1>3, <1>4
  <2> QED
    BY <1>3, <2>1, <2>2
<1> HIDE DEF others
<1>6. ASSUME NEW i \in 1 .. n - 1
      PROVE  others[i] = IF i <= index THEN d[i] ELSE d[i + 1]
  <2>1. CASE i <= index
    BY <1>1, <1>3, <1>5, <2>1
  <2>2. CASE ~(i <= index)
    <3>1. i - index \in 1 .. n - 1 - index /\ (i - index) + index + 1 = i + 1
      BY <1>1, <2>2
    <3>2. back[i - index] = d[i + 1]
      BY <1>4, <3>1
    <3> QED
      BY <1>1, <1>5, <2>2, <3>2
  <2> QED
    BY <1>1, <2>1, <2>2
<1>7. RemoveAt(d, index + 1) = others
  <2>1. (index + 1) - 1 = index /\ (index + 1) + 1 = index + 2
    BY <1>1
  <2> QED
    BY <2>1 DEF RemoveAt, others, front, back, n
<1> QED
  BY <1>1, <1>2, <1>5, <1>6, <1>7 DEF n

(* What follows a cons in the others: those after the entry follow the one *)
(* before it.                                                              *)
LEMMA RemovedAt ==
  ASSUME NEW T, NEW d \in Seq(T), NEW index \in 0 .. Len(d) - 1, NEW others,
         others = RemoveAt(d, index + 1), NEW i \in 1 .. Len(d)
  PROVE  At(others, i) = IF i <= index THEN At(d, i) ELSE At(d, i + 1)
<1>1. /\ Len(others) = Len(d) - 1 /\ Len(d) \in Nat
      /\ \A j \in 1 .. Len(d) - 1 : others[j] = IF j <= index THEN d[j] ELSE d[j + 1]
  BY RemovedFacts
<1>2. i \in 1 .. Len(others) <=> i + 1 \in 1 .. Len(d)
  BY <1>1
<1>3. i <= index => i \in 1 .. Len(others)
  BY <1>1
<1>4. CASE i \in 1 .. Len(others)
  <2>1. At(others, i) = ConsAt(others[i]) /\ At(d, i + 1) = ConsAt(d[i + 1])
        /\ At(d, i) = ConsAt(d[i])
    BY <1>2, <1>4 DEF At
  <2> QED
    BY <1>1, <1>4, <2>1
<1>5. CASE i \notin 1 .. Len(others)
  BY <1>2, <1>3, <1>5 DEF At
<1> QED
  BY <1>4, <1>5

LEMMA AtIs ==
  ASSUME NEW n \in Nat, NEW cells \in Seq(1 .. n), NEW i
  PROVE  At(cells, i) \in Values(Nat)
<1>1. i \in 1 .. Len(cells) => cells[i] \in Nat
  <2>1. \A j \in 1 .. Len(cells) : cells[j] \in 1 .. n
    BY ElementOfSeq
  <2> QED
    BY <2>1
<1> QED
  BY <1>1, PointerIs, NothingIs DEF At

LEMMA Stored ==
  ASSUME NEW store \in Seq(Record), NEW c \in 1 .. Len(store), NEW x \in Record
  PROVE  LET later == [store EXCEPT ![c] = x]
         IN /\ later \in Seq(Record) /\ Len(later) = Len(store)
            /\ \A i \in 1 .. Len(store) : later[i] = IF i = c THEN x ELSE store[i]
<1> HIDE DEF Record
<1> QED
  BY ExceptSeq

(* A reference to the entry at index: the dictionary begins with it, the   *)
(* others are as they were, and no cons but those of the dictionary has    *)
(* changed.                                                                *)
LEMMA MoveList ==
  ASSUME conses \in Seq(Record), NEW d, IsList(conses, d, code),
         \A i, j \in 1 .. Len(d) : d[i] = d[j] => i = j,
         NEW index \in 0 .. Len(d) - 1
  PROVE  LET moved == MovedToFront(index)
             others == RemoveAt(d, index + 1)
         IN /\ moved.conses \in Seq(Record) /\ Len(moved.conses) = Len(conses)
            /\ moved.code = ConsAt(d[index + 1])
            /\ \A i \in 1 .. Len(conses) : moved.conses[i].car = conses[i].car
            /\ \A i \in 1 .. Len(conses) :
                 (\A j \in 1 .. Len(d) : d[j] # i) => moved.conses[i] = conses[i]
            /\ moved.conses[d[index + 1]].cdr = At(others, 1)
            /\ IsList(moved.conses, others, At(others, 1))
<1> DEFINE moved == MovedToFront(index)
           others == RemoveAt(d, index + 1)
           n == Len(d)
           N == Len(conses)
           c == d[index + 1]
<1>1. /\ d \in Seq(1 .. N) /\ code = At(d, 1)
      /\ \A i \in 1 .. n : conses[d[i]].cdr = At(d, i + 1)
  BY DEF IsList
<1>2. N \in Nat /\ n \in Nat /\ index \in Nat /\ index < n /\ index + 1 \in 1 .. n
  <2> HIDE DEF Record
  <2> QED
    BY <1>1
<1>3. \A i \in 1 .. n : d[i] \in 1 .. N
  BY <1>1, ElementOfSeq
<1>4. /\ others \in Seq(1 .. N) /\ Len(others) = n - 1
      /\ \A i \in 1 .. n - 1 : others[i] = IF i <= index THEN d[i] ELSE d[i + 1]
  BY <1>1, RemovedFacts
<1>5. \A i \in 1 .. n : At(others, i) = IF i <= index THEN At(d, i) ELSE At(d, i + 1)
  BY <1>1, RemovedAt
<1>6. c \in 1 .. N
  BY <1>2, <1>3
<1>7. /\ moved.conses \in Seq(Record) /\ Len(moved.conses) = N
      /\ moved.code = ConsAt(c)
      /\ \A i \in 1 .. N : moved.conses[i].car = conses[i].car
      /\ \A i \in 1 .. N : (\A j \in 1 .. n : d[j] # i) => moved.conses[i] = conses[i]
      /\ \A i \in 1 .. n : moved.conses[d[i]].cdr =
           IF i = index + 1 THEN At(others, 1)
           ELSE IF i = index THEN At(d, index + 2) ELSE At(d, i + 1)
  <2>1. CASE index = 0
    <3>1. moved.conses = conses /\ moved.code = code
      BY <2>1 DEF MovedToFront
    <3>2. code = ConsAt(c)
      BY <1>1, <1>2, <2>1 DEF At
    <3>3. At(others, 1) = At(d, 2)
      <4>1. 1 \in 1 .. n /\ ~(1 <= index) /\ 1 + 1 = 2
        BY <1>2, <2>1
      <4> QED
        BY <1>5, <4>1
    <3>4. ASSUME NEW i \in 1 .. n
          PROVE  moved.conses[d[i]].cdr =
                   IF i = index + 1 THEN At(others, 1)
                   ELSE IF i = index THEN At(d, index + 2) ELSE At(d, i + 1)
      <4>1. i # index /\ (i = index + 1 => i + 1 = 2)
        BY <2>1
      <4> QED
        BY <1>1, <3>1, <3>3, <4>1
    <3> HIDE DEF moved, others, n, N, c
    <3> QED
      BY <3>1, <3>2, <3>4 DEF N
  <2>2. CASE index # 0
    <3> DEFINE b == d[index]
               last == At(d, index + 2)
    <3>1. index \in 1 .. n /\ index - 1 \in 0 .. n /\ (index - 1) + 1 = index
          /\ (index + 1) + 1 = index + 2 /\ index # index + 1
      BY <1>2, <2>2
    <3>2. ListTail(code, index - 1) = ConsAt(b)
      <4>1. ListTail(code, index - 1) = At(d, index)
        BY <3>1, ListTailIs
      <4> QED
        BY <3>1, <4>1 DEF At
    <3>3. Cdr(ConsAt(b)) = ConsAt(c)
      <4>1. Cdr(ConsAt(b)) = At(d, index + 1)
        BY <1>1, <3>1, ValueFacts DEF Cdr
      <4> QED
        BY <1>2, <4>1 DEF At
    <3>4. Cdr(ConsAt(c)) = last
      BY <1>1, <1>2, <3>1, ValueFacts DEF Cdr
    <3>5. /\ moved.conses = [conses EXCEPT ![c].cdr = code, ![b].cdr = last]
          /\ moved.code = ConsAt(c)
      <4> HIDE DEF b, c, last
      <4> QED
        BY <2>2, <3>2, <3>3, <3>4, ValueFacts DEF MovedToFront
    <3>6. b \in 1 .. N /\ b # c /\ code \in Values(Nat) /\ last \in Values(Nat)
      BY <1>1, <1>2, <1>3, <3>1, AtIs
    <3>7. At(others, 1) = code
      <4>1. 1 \in 1 .. n /\ 1 <= index
        BY <1>2, <3>1
      <4> QED
        BY <1>1, <1>5, <4>1
    <3> HIDE DEF moved, others, b, last, c
    <3>8. /\ moved.conses \in Seq(Record) /\ Len(moved.conses) = N
          /\ \A i \in 1 .. N :
               moved.conses[i] = IF i = b THEN [conses[i] EXCEPT !.cdr = last]
                                 ELSE IF i = c THEN [conses[i] EXCEPT !.cdr = code]
                                 ELSE conses[i]
      <4> DEFINE first == [conses EXCEPT ![c] = [conses[c] EXCEPT !.cdr = code]]
                 second == [first EXCEPT ![b] = [first[b] EXCEPT !.cdr = last]]
      <4>1. \A i \in 1 .. N : conses[i] \in Record
        <5> HIDE DEF Record
        <5> QED
          BY ElementOfSeq
      <4>2. [conses[c] EXCEPT !.cdr = code] \in Record
        <5>1. conses[c] \in Record
          BY <1>6, <4>1
        <5> HIDE DEF Values
        <5> QED
          BY <3>6, <5>1 DEF Record
      <4> HIDE DEF Record
      <4>3. /\ first \in Seq(Record) /\ Len(first) = N
            /\ \A i \in 1 .. N : first[i] = IF i = c THEN [conses[c] EXCEPT !.cdr = code]
                                           ELSE conses[i]
        <5>1. PICK x : x = [conses[c] EXCEPT !.cdr = code]
          OBVIOUS
        <5>2. x \in Record
          BY <4>2, <5>1
        <5>3. LET later == [conses EXCEPT ![c] = x]
              IN /\ later \in Seq(Record) /\ Len(later) = N
                 /\ \A i \in 1 .. N : later[i] = IF i = c THEN x ELSE conses[i]
          BY <1>6, <5>2, Stored
        <5> QED
          BY <5>1, <5>3, Zenon
      <4> HIDE DEF first
      <4>4. [first[b] EXCEPT !.cdr = last] \in Record /\ first[b] = conses[b]
        <5>1. first[b] = conses[b] /\ conses[b] \in Record
          BY <3>6, <4>1, <4>3
        <5> HIDE DEF Values
        <5> QED
          BY <3>6, <5>1 DEF Record
      <4>5. /\ second \in Seq(Record) /\ Len(second) = Len(first)
            /\ \A i \in 1 .. Len(first) :
                 second[i] = IF i = b THEN [first[b] EXCEPT !.cdr = last] ELSE first[i]
        <5>1. b \in 1 .. Len(first)
          BY <3>6, <4>3
        <5> QED
          <6>1. PICK x : x = [first[b] EXCEPT !.cdr = last]
            OBVIOUS
          <6>2. x \in Record
            BY <4>4, <6>1
          <6>3. LET later == [first EXCEPT ![b] = x]
                IN /\ later \in Seq(Record) /\ Len(later) = Len(first)
                   /\ \A i \in 1 .. Len(first) : later[i] = IF i = b THEN x ELSE first[i]
            BY <4>3, <5>1, <6>2, Stored
          <6> QED
            BY <6>1, <6>3, Zenon
      <4>6. moved.conses = second
        BY <3>5 DEF second, first
      <4> HIDE DEF second
      <4>7. ASSUME NEW i \in 1 .. N
            PROVE  moved.conses[i] = IF i = b THEN [conses[i] EXCEPT !.cdr = last]
                                     ELSE IF i = c THEN [conses[i] EXCEPT !.cdr = code]
                                     ELSE conses[i]
        BY <4>3, <4>4, <4>5, <4>6
      <4> QED
        BY <4>3, <4>5, <4>6, <4>7
    <3>9. \A i \in 1 .. N : moved.conses[i].car = conses[i].car
      <4>1. \A i \in 1 .. N : conses[i] \in Record
        <5> HIDE DEF Record
        <5> QED
          BY ElementOfSeq
      <4> QED
        BY <3>8, <4>1 DEF Record
    <3>10. ASSUME NEW i \in 1 .. N, \A j \in 1 .. n : d[j] # i
           PROVE  moved.conses[i] = conses[i]
      <4>1. i # b /\ i # c
        BY <1>2, <3>1, <3>10 DEF b, c
      <4> QED
        BY <3>8, <4>1
    <3>11. ASSUME NEW i \in 1 .. n
           PROVE  moved.conses[d[i]].cdr =
                    IF i = index + 1 THEN At(others, 1)
                    ELSE IF i = index THEN last ELSE At(d, i + 1)
      <4>1. conses[d[i]] \in Record /\ d[i] \in 1 .. N
        <5>1. d[i] \in 1 .. N
          BY <1>3
        <5> HIDE DEF Record
        <5> QED
          BY <5>1, ElementOfSeq
      <4>2. CASE i = index + 1
        <5>1. moved.conses[d[i]] = [conses[d[i]] EXCEPT !.cdr = code]
          BY <3>6, <3>8, <4>1, <4>2 DEF c
        <5> QED
          BY <3>7, <4>1, <4>2, <5>1 DEF Record
      <4>3. CASE i = index
        <5>1. moved.conses[d[i]] = [conses[d[i]] EXCEPT !.cdr = last]
          BY <3>8, <4>1, <4>3 DEF b
        <5> QED
          BY <3>1, <4>1, <4>3, <5>1 DEF Record
      <4>4. CASE i # index + 1 /\ i # index
        <5>1. d[i] # b /\ d[i] # c
          BY <1>2, <3>1, <4>4 DEF b, c
        <5>2. moved.conses[d[i]] = conses[d[i]]
          BY <3>8, <4>1, <5>1
        <5> QED
          BY <1>1, <4>4, <5>2
      <4> QED
        BY <4>2, <4>3, <4>4
    <3> QED
      BY <3>5, <3>8, <3>9, <3>10, <3>11 DEF last
  <2> QED
    BY <2>1, <2>2
<1> HIDE DEF moved, others
<1>8. moved.conses[c].cdr = At(others, 1)
  BY <1>2, <1>7
<1>9. ASSUME NEW i \in 1 .. Len(others)
      PROVE  moved.conses[others[i]].cdr = At(others, i + 1)
  <2>1. i \in 1 .. n - 1 /\ i \in 1 .. n /\ i + 1 \in 1 .. n /\ (i + 1) + 1 = i + 2
    BY <1>2, <1>4
  <2>2. CASE i < index
    <3>1. i <= index /\ i + 1 <= index /\ i # index + 1 /\ i # index
      BY <1>2, <2>2
    <3> QED
      BY <1>4, <1>5, <1>7, <2>1, <3>1
  <2>3. CASE i = index
    <3>1. i <= index /\ ~(i + 1 <= index) /\ i # index + 1 /\ i + 2 = index + 2
      BY <1>2, <2>3
    <3>2. others[i] = d[i] /\ At(others, i + 1) = At(d, i + 2)
      BY <1>4, <1>5, <2>1, <3>1
    <3> QED
      BY <1>7, <2>1, <2>3, <3>1, <3>2
  <2>4. CASE i > index
    <3>1. ~(i <= index) /\ ~(i + 1 <= index) /\ i + 1 # index + 1 /\ i + 1 # index
      BY <1>2, <2>4
    <3>2. others[i] = d[i + 1] /\ At(others, i + 1) = At(d, i + 2)
      BY <1>4, <1>5, <2>1, <3>1
    <3>3. moved.conses[d[i + 1]].cdr = At(d, (i + 1) + 1)
      BY <1>7, <2>1, <3>1
    <3> QED
      BY <2>1, <3>2, <3>3
  <2> QED
    BY <1>2, <2>1, <2>2, <2>3, <2>4
<1>10. IsList(moved.conses, others, At(others, 1))
  <2> HIDE DEF N
  <2> QED
    BY <1>4, <1>7, <1>9 DEF IsList
<1> QED
  BY <1>7, <1>8, <1>10 DEF moved, others

-----------------------------------------------------------------------------
(* What a step does to both lists. *)

LEMMA ListsType ==
  ASSUME NEW store, NEW dictionary, NEW operands, NEW d, NEW s, NEW R,
         Lists(store, dictionary, operands, d, s, R)
  PROVE  /\ Len(store) \in Nat
         /\ d \in Seq(1 .. Len(store)) /\ s \in Seq(1 .. Len(store))
         /\ Len(d) \in Nat /\ Len(s) \in Nat
         /\ \A i \in 1 .. Len(d) : d[i] \in 1 .. Len(store)
         /\ \A i \in 1 .. Len(s) : s[i] \in 1 .. Len(store)
         /\ \A i \in 1 .. Len(store) : store[i] \in Record
         /\ \A x : x \in Values(R) => x \in Values(Nat)
         /\ dictionary \in Values(Nat) /\ operands \in Values(Nat)
<1> HIDE DEF Record
<1>1. store \in Seq(Record) /\ d \in Seq(1 .. Len(store)) /\ s \in Seq(1 .. Len(store))
      /\ R \subseteq 1 .. Len(store) /\ dictionary = At(d, 1) /\ operands = At(s, 1)
  BY DEF Lists, IsList
<1>2. Len(store) \in Nat
  BY <1>1
<1>3. /\ \A i \in 1 .. Len(d) : d[i] \in 1 .. Len(store)
      /\ \A i \in 1 .. Len(s) : s[i] \in 1 .. Len(store)
      /\ \A i \in 1 .. Len(store) : store[i] \in Record
  BY <1>1, ElementOfSeq
<1>4. \A x : x \in Values(R) => x \in Values(Nat)
  <2>1. R \subseteq Nat
    BY <1>1, <1>2
  <2> QED
    BY <2>1, ValueOf
<1>5. dictionary \in Values(Nat) /\ operands \in Values(Nat)
  BY <1>1, <1>2, AtIs
<1>6. Len(d) \in Nat /\ Len(s) \in Nat
  BY <1>1, LenProperties
<1> QED
  BY <1>1, <1>2, <1>3, <1>4, <1>5, <1>6

(* What is true of the one list is of the other. *)
LEMMA Swapped ==
  ASSUME NEW store, NEW dictionary, NEW operands, NEW d, NEW s, NEW R,
         Lists(store, dictionary, operands, d, s, R)
  PROVE  Lists(store, operands, dictionary, s, d, R)
<1>1. Apart(s, d, R)
  BY DEF Lists, Apart
<1> QED
  BY <1>1 DEF Lists

LEMMA Pushed ==
  ASSUME NEW store, NEW dictionary, NEW operands, NEW d, NEW s, NEW R,
         Lists(store, dictionary, operands, d, s, R), NEW x \in Values(R)
  PROVE  LET later == Append(store, [car |-> x, cdr |-> operands, tag |-> 0])
             new == Len(store) + 1
         IN /\ Lists(later, dictionary, ConsAt(new), d, <<new>> \o s, R)
            /\ \A i \in 1 .. Len(store) : later[i] = store[i]
            /\ later[new].car = x
<1> DEFINE cons == [car |-> x, cdr |-> operands, tag |-> 0]
           later == Append(store, cons)
           n == Len(store)
           front == <<n + 1>> \o s
<1>1. /\ n \in Nat /\ d \in Seq(1 .. n) /\ s \in Seq(1 .. n) /\ Len(d) \in Nat /\ Len(s) \in Nat
      /\ \A i \in 1 .. Len(d) : d[i] \in 1 .. n
      /\ \A i \in 1 .. Len(s) : s[i] \in 1 .. n
      /\ x \in Values(Nat) /\ operands \in Values(Nat)
  BY ListsType
<1>2. /\ store \in Seq(Record) /\ R \subseteq 1 .. n
      /\ IsList(store, d, dictionary) /\ IsList(store, s, operands)
      /\ Apart(d, s, R) /\ Holds(store, d, R) /\ Holds(store, s, R) /\ Closed(store, R)
  BY DEF Lists
<1>3. cons \in Record
  <2> HIDE DEF Values
  <2> QED
    BY <1>1 DEF Record
<1>4. cons.car = x /\ cons.cdr = operands
  OBVIOUS
<1> HIDE DEF cons
<1>5. /\ later \in Seq(Record) /\ Len(later) = n + 1
      /\ \A i \in 1 .. n : later[i] = store[i]
      /\ later[n + 1] = cons
  BY <1>2, <1>3, AppendStore, Zenon
<1> HIDE DEF later, n
<1>6. n + 1 \in 1 .. Len(later) /\ Len(later) \in Nat /\ n <= Len(later)
      /\ 1 .. n \subseteq 1 .. Len(later)
  BY <1>1, <1>5
<1>7. IsList(later, d, dictionary) /\ IsList(later, s, operands)
  BY <1>1, <1>2, <1>5, <1>6, KeepsList DEF n
<1>8. IsList(later, front, ConsAt(n + 1))
  <2>1. later[n + 1].cdr = operands
    BY <1>4, <1>5
  <2> HIDE DEF front
  <2> QED
    BY <1>6, <1>7, <2>1, ConsList DEF front
<1>9. /\ Len(front) = Len(s) + 1 /\ front[1] = n + 1
      /\ \A i \in 1 .. Len(s) : front[i + 1] = s[i]
      /\ \A i \in 1 .. Len(s) + 1 : i = 1 \/ i - 1 \in 1 .. Len(s)
  <2>1. s \in Seq(1 .. n + 1) /\ n + 1 \in 1 .. n + 1
    <3>1. 1 .. n \subseteq 1 .. n + 1
      BY <1>1
    <3> QED
      BY <1>1, <3>1, SeqMonotonic
  <2>2. front = <<n + 1>> \o s
    OBVIOUS
  <2> HIDE DEF front
  <2>3. Fronts(front, n + 1, s, 1 .. n + 1)
    BY <2>1, <2>2, FrontFacts
  <2> QED
    BY <2>3 DEF Fronts
<1> HIDE DEF front
<1>10. \A i \in 1 .. Len(front) : i = 1 \/ \E j \in 1 .. Len(s) : i = j + 1 /\ front[i] = s[j]
  <2> SUFFICES ASSUME NEW i \in 1 .. Len(front), i # 1
               PROVE  \E j \in 1 .. Len(s) : i = j + 1 /\ front[i] = s[j]
    OBVIOUS
  <2>1. i - 1 \in 1 .. Len(s) /\ i = (i - 1) + 1
    BY <1>9
  <2> QED
    BY <1>9, <2>1
<1>11. n + 1 \notin 1 .. n
  BY <1>1
<1>12. Apart(d, front, R)
  <2>1. ASSUME NEW i \in 1 .. Len(front), NEW j \in 1 .. Len(front), front[i] = front[j]
        PROVE  i = j
    <3>1. CASE i = 1 /\ j = 1
      BY <3>1
    <3>2. CASE i = 1 /\ j # 1
      BY <1>1, <1>9, <1>10, <1>11, <2>1, <3>2
    <3>3. CASE i # 1 /\ j = 1
      BY <1>1, <1>9, <1>10, <1>11, <2>1, <3>3
    <3>4. CASE i # 1 /\ j # 1
      <4>1. PICK k \in 1 .. Len(s) : i = k + 1 /\ front[i] = s[k]
        BY <1>10, <3>4
      <4>2. PICK l \in 1 .. Len(s) : j = l + 1 /\ front[j] = s[l]
        BY <1>10, <3>4
      <4>3. k = l
        BY <1>2, <2>1, <4>1, <4>2 DEF Apart
      <4> QED
        BY <4>1, <4>2, <4>3
    <3> QED
      BY <3>1, <3>2, <3>3, <3>4
  <2>2. ASSUME NEW i \in 1 .. Len(front)
        PROVE  front[i] \notin R /\ \A j \in 1 .. Len(d) : d[j] # front[i]
    <3>1. CASE i = 1
      BY <1>1, <1>2, <1>9, <1>11, <3>1
    <3>2. CASE i # 1
      <4>1. PICK k \in 1 .. Len(s) : front[i] = s[k]
        BY <1>10, <3>2
      <4> QED
        BY <1>2, <4>1 DEF Apart
    <3> QED
      BY <3>1, <3>2
  <2> QED
    BY <1>2, <2>1, <2>2 DEF Apart
<1>13. Holds(later, d, R) /\ Holds(later, front, R) /\ Closed(later, R)
  <2>1. Holds(later, d, R)
    BY <1>1, <1>2, <1>5 DEF Holds
  <2>2. ASSUME NEW i \in 1 .. Len(front)
        PROVE  later[front[i]].car \in Values(R)
    <3>1. CASE i = 1
      BY <1>4, <1>5, <1>9, <3>1
    <3>2. CASE i # 1
      <4>1. PICK k \in 1 .. Len(s) : front[i] = s[k]
        BY <1>10, <3>2
      <4> QED
        BY <1>1, <1>2, <1>5, <4>1 DEF Holds
    <3> QED
      BY <3>1, <3>2
  <2>3. Closed(later, R)
    BY <1>2, <1>5 DEF Closed
  <2> QED
    BY <2>1, <2>2, <2>3 DEF Holds
<1>14. Lists(later, dictionary, ConsAt(n + 1), d, front, R)
  <2>1. R \subseteq 1 .. Len(later)
    BY <1>2, <1>6
  <2> QED
    BY <1>5, <1>7, <1>8, <1>12, <1>13, <2>1 DEF Lists
<1>15. later[n + 1].car = x
  BY <1>4, <1>5
<1> QED
  BY <1>5, <1>14, <1>15 DEF later, n, front, cons

Inside(fewer, cells) == \A i \in 1 .. Len(fewer) : \E j \in 1 .. Len(cells) : fewer[i] = cells[j]

(* A list of some of the conses there were, in any order. *)
LEMMA Replaced ==
  ASSUME NEW store, NEW dictionary, NEW operands, NEW d, NEW s, NEW R,
         Lists(store, dictionary, operands, d, s, R),
         NEW later \in Seq(Record), Len(later) = Len(store),
         NEW fewer, NEW list, IsList(later, fewer, list), Inside(fewer, d),
         \A i, j \in 1 .. Len(fewer) : fewer[i] = fewer[j] => i = j,
         \A i \in 1 .. Len(store) : later[i].car = store[i].car,
         \A i \in 1 .. Len(store) : (\A j \in 1 .. Len(d) : d[j] # i) => later[i] = store[i]
  PROVE  /\ Lists(later, list, operands, fewer, s, R)
         /\ \A r \in R : later[r] = store[r]
         /\ \A i \in 1 .. Len(s) : later[s[i]] = store[s[i]]
<1> DEFINE n == Len(store)
<1>1. /\ n \in Nat /\ Len(d) \in Nat /\ Len(s) \in Nat
      /\ \A i \in 1 .. Len(d) : d[i] \in 1 .. n
      /\ \A i \in 1 .. Len(s) : s[i] \in 1 .. n
  BY ListsType
<1>2. /\ R \subseteq 1 .. n
      /\ IsList(store, s, operands)
      /\ Apart(d, s, R) /\ Holds(store, d, R) /\ Holds(store, s, R) /\ Closed(store, R)
  BY DEF Lists
<1>3. \A r \in R : later[r] = store[r]
  BY <1>2 DEF Apart
<1>4. \A i \in 1 .. Len(s) : later[s[i]] = store[s[i]]
  BY <1>1, <1>2 DEF Apart
<1>5. IsList(later, s, operands)
  <2>1. n <= Len(later) /\ Len(later) \in Nat
    BY <1>1
  <2> HIDE DEF n
  <2> QED
    BY <1>1, <1>2, <1>4, <2>1, StaysList DEF n
<1>6. Apart(fewer, s, R)
  <2>1. ASSUME NEW i \in 1 .. Len(fewer)
        PROVE  fewer[i] \notin R /\ \A j \in 1 .. Len(s) : fewer[i] # s[j]
    <3>1. PICK j \in 1 .. Len(d) : fewer[i] = d[j]
      BY DEF Inside
    <3> QED
      BY <1>2, <3>1 DEF Apart
  <2> QED
    BY <1>2, <2>1 DEF Apart
<1>7. Holds(later, fewer, R)
  <2>1. ASSUME NEW i \in 1 .. Len(fewer)
        PROVE  later[fewer[i]].car \in Values(R)
    <3>1. PICK j \in 1 .. Len(d) : fewer[i] = d[j]
      BY DEF Inside
    <3> QED
      BY <1>1, <1>2, <3>1 DEF Holds
  <2> QED
    BY <2>1 DEF Holds
<1>8. Holds(later, s, R) /\ Closed(later, R)
  BY <1>2, <1>3, <1>4 DEF Holds, Closed
<1> QED
  BY <1>2, <1>3, <1>4, <1>5, <1>6, <1>7, <1>8 DEF Lists

(* The list without its first cons. *)
LEMMA TailFacts ==
  ASSUME NEW T, NEW cells \in Seq(T), cells # <<>>
  PROVE  /\ Tail(cells) \in Seq(T) /\ Len(Tail(cells)) = Len(cells) - 1
         /\ Len(cells) \in Nat /\ Len(cells) >= 1
         /\ \A i \in 1 .. Len(cells) - 1 : Tail(cells)[i] = cells[i + 1]
<1>1. Len(cells) \in Nat /\ Len(cells) >= 1
  BY EmptySeq, LenProperties
<1> QED
  BY <1>1, HeadTailProperties

(* What a rib does to the first cons of the stack, to the second and to no *)
(* other.                                                                  *)
Makes(store, s, later) ==
  /\ later \in Seq(Record) /\ Len(later) = Len(store)
  /\ \A i \in 1 .. Len(store) : i # s[1] /\ i # s[2] => later[i] = store[i]
  /\ later[s[1]].car = store[s[2]].car /\ later[s[1]].cdr = store[s[1]].car
  /\ later[s[2]].car = ConsAt(s[1]) /\ later[s[2]].cdr = store[s[2]].cdr

MadeFrom(store, dictionary, d, s, R, later) ==
  /\ Lists(later, dictionary, ConsAt(s[2]), d, Tail(s), R \cup {s[1]})
  /\ \A r \in R : later[r] = store[r]
  /\ \A i \in 1 .. Len(d) : later[d[i]] = store[d[i]]
  /\ \A i \in 3 .. Len(s) : later[s[i]] = store[s[i]]

LEMMA Made ==
  ASSUME NEW store, NEW dictionary, NEW operands, NEW d, NEW s, NEW R,
         Lists(store, dictionary, operands, d, s, R), Len(s) >= 2,
         NEW later, Makes(store, s, later)
  PROVE  MadeFrom(store, dictionary, d, s, R, later)
<1> USE DEF Makes
<1> DEFINE n == Len(store)
           a == s[1]
           b == s[2]
           t == Tail(s)
<1>1. /\ n \in Nat /\ d \in Seq(1 .. n) /\ s \in Seq(1 .. n) /\ Len(d) \in Nat /\ Len(s) \in Nat
      /\ \A i \in 1 .. Len(d) : d[i] \in 1 .. n
      /\ \A i \in 1 .. Len(s) : s[i] \in 1 .. n
      /\ \A x : x \in Values(R) => x \in Values(Nat)
  BY ListsType
<1>2. /\ store \in Seq(Record) /\ R \subseteq 1 .. n
      /\ IsList(store, d, dictionary) /\ IsList(store, s, operands)
      /\ Apart(d, s, R) /\ Holds(store, d, R) /\ Holds(store, s, R) /\ Closed(store, R)
  BY DEF Lists
<1>3. s # <<>>
  <2>1. Len(s) # 0
    BY <1>1
  <2> QED
    BY <2>1, EmptySeq
<1>4. /\ t \in Seq(1 .. n) /\ Len(t) = Len(s) - 1
      /\ \A i \in 1 .. Len(s) - 1 : t[i] = s[i + 1]
  <2> HIDE DEF n, t
  <2> QED
    BY <1>1, <1>3, TailFacts DEF t
<1>5. 1 \in 1 .. Len(s) /\ 2 \in 1 .. Len(s) /\ a \in 1 .. n /\ b \in 1 .. n /\ a # b
  BY <1>1, <1>2 DEF Apart
<1>6. \A r \in R : later[r] = store[r]
  BY <1>2, <1>5 DEF Apart
<1>7. \A i \in 1 .. Len(d) : later[d[i]] = store[d[i]]
  BY <1>1, <1>2, <1>5 DEF Apart
<1>8. \A i \in 3 .. Len(s) : later[s[i]] = store[s[i]]
  <2> TAKE i \in 3 .. Len(s)
  <2>1. i \in 1 .. Len(s) /\ i # 1 /\ i # 2
    BY <1>1
  <2> QED
    BY <1>1, <1>2, <1>5, <2>1 DEF Apart
<1> HIDE DEF a, b, t, n
<1>9. n <= Len(later) /\ Len(later) \in Nat
  BY <1>1 DEF n
<1>10. IsList(later, d, dictionary)
  BY <1>1, <1>2, <1>7, <1>9, StaysList DEF n
<1>11. IsList(later, t, ConsAt(b))
  <2>1. IsList(store, t, store[a].cdr)
    BY <1>2, <1>3, TailList DEF t, a
  <2>2. store[a].cdr = ConsAt(b)
    <3>1. store[s[1]].cdr = At(s, 1 + 1)
      BY <1>2, <1>5 DEF IsList
    <3> QED
      BY <1>5, <3>1 DEF At, a, b
  <2>3. ASSUME NEW i \in 1 .. Len(t)
        PROVE  later[t[i]].cdr = store[t[i]].cdr
    <3>1. t[i] = s[i + 1] /\ i + 1 \in 1 .. Len(s) /\ (i = 1 \/ i + 1 \in 3 .. Len(s))
      <4>1. Len(s) \in Nat /\ Len(t) = Len(s) - 1
        BY <1>1, <1>4
      <4>2. i \in 1 .. Len(s) - 1 /\ i + 1 \in 1 .. Len(s) /\ (i = 1 \/ i + 1 \in 3 .. Len(s))
        BY <4>1
      <4> QED
        BY <1>4, <4>2
    <3>2. CASE i = 1
      <4>1. t[i] = s[2]
        BY <3>1, <3>2
      <4> QED
        BY <4>1
    <3>3. CASE i # 1
      BY <1>8, <3>1, <3>3
    <3> QED
      BY <3>2, <3>3
  <2> QED
    BY <1>1, <1>9, <2>1, <2>2, <2>3, StaysList DEF n
<1>12. ASSUME NEW i \in 1 .. Len(t)
       PROVE  /\ i + 1 \in 1 .. Len(s) /\ t[i] = s[i + 1] /\ i + 1 # 1
              /\ ((i = 1 /\ t[i] = b) \/ i + 1 \in 3 .. Len(s))
  <2>1. i + 1 \in 1 .. Len(s) /\ t[i] = s[i + 1] /\ i + 1 # 1 /\ (i = 1 \/ i + 1 \in 3 .. Len(s))
    <3>1. Len(s) \in Nat /\ Len(t) = Len(s) - 1
      BY <1>1, <1>4
    <3>2. /\ i \in 1 .. Len(s) - 1 /\ i + 1 \in 1 .. Len(s) /\ i + 1 # 1
          /\ (i = 1 \/ i + 1 \in 3 .. Len(s))
      BY <3>1
    <3> QED
      BY <1>4, <3>2
  <2>2. i = 1 => t[i] = b
    BY <2>1 DEF b
  <2> QED
    BY <2>1, <2>2
<1>13. Apart(d, t, R \cup {a})
  <2>1. ASSUME NEW i \in 1 .. Len(t), NEW j \in 1 .. Len(t), t[i] = t[j]
        PROVE  i = j
    <3>1. i + 1 = j + 1
      BY <1>2, <1>12, <2>1 DEF Apart
    <3> QED
      BY <1>1, <1>4, <3>1
  <2>2. ASSUME NEW i \in 1 .. Len(t)
        PROVE  t[i] \notin R \cup {a} /\ \A j \in 1 .. Len(d) : d[j] # t[i]
    BY <1>2, <1>5, <1>12 DEF Apart, a
  <2>3. \A i \in 1 .. Len(d) : d[i] \notin R \cup {a}
    BY <1>2, <1>5 DEF Apart, a
  <2>4. \A i, j \in 1 .. Len(d) : d[i] = d[j] => i = j
    BY <1>2 DEF Apart
  <2> QED
    BY <2>1, <2>2, <2>3, <2>4 DEF Apart
<1>14. \A x \in Values(R) : x \in Values(R \cup {a})
  BY ValueOf
<1>15. Holds(later, d, R \cup {a})
  BY <1>2, <1>7, <1>14 DEF Holds
<1>16. Holds(later, t, R \cup {a})
  <2> SUFFICES ASSUME NEW i \in 1 .. Len(t)
               PROVE  later[t[i]].car \in Values(R \cup {a})
    BY DEF Holds
  <2>1. CASE i = 1 /\ t[i] = b
    <3>1. later[t[i]].car = ConsAt(a)
      BY <2>1 DEF a, b
    <3> QED
      BY <3>1, PointerIs
  <2>2. CASE i + 1 \in 3 .. Len(s)
    <3>1. later[t[i]] = store[s[i + 1]]
      BY <1>8, <1>12, <2>2
    <3> QED
      BY <1>2, <1>12, <1>14, <3>1 DEF Holds
  <2> QED
    BY <1>12, <2>1, <2>2
<1>17. Closed(later, R \cup {a})
  <2>1. store[a].car \in Values(R) /\ store[b].car \in Values(R)
    BY <1>2, <1>5 DEF Holds, a, b
  <2>2. later[a].car \in Values(R) /\ later[a].cdr \in Values(R)
    BY <2>1 DEF a, b
  <2> QED
    BY <1>2, <1>6, <1>14, <2>2 DEF Closed
<1>18. R \cup {a} \subseteq 1 .. Len(later)
  BY <1>2, <1>5 DEF n
<1>19. Lists(later, dictionary, ConsAt(b), d, t, R \cup {a})
  BY <1>10, <1>11, <1>13, <1>15, <1>16, <1>17, <1>18 DEF Lists
<1> QED
  BY <1>6, <1>7, <1>8, <1>19 DEF MadeFrom, a, b, t

(* The end of decode_ribs takes the top of the stack. *)
LEMMA Popped ==
  ASSUME NEW store, NEW dictionary, NEW operands, NEW d, NEW s, NEW R,
         Lists(store, dictionary, operands, d, s, R), s # <<>>
  PROVE  Lists(store, dictionary, store[s[1]].cdr, d, Tail(s), R)
<1> DEFINE n == Len(store)
           t == Tail(s)
<1>1. n \in Nat /\ s \in Seq(1 .. n) /\ Len(s) \in Nat
  BY ListsType
<1>2. /\ IsList(store, s, operands)
      /\ Apart(d, s, R) /\ Holds(store, s, R)
  BY DEF Lists
<1>3. IsList(store, t, store[s[1]].cdr)
  BY <1>2, TailList
<1>4. Len(t) = Len(s) - 1 /\ \A i \in 1 .. Len(s) - 1 : t[i] = s[i + 1]
  <2> HIDE DEF n, t
  <2> QED
    BY <1>1, TailFacts DEF t
<1> HIDE DEF t, n
<1>5. ASSUME NEW i \in 1 .. Len(t)
      PROVE  i + 1 \in 1 .. Len(s) /\ t[i] = s[i + 1]
  BY <1>1, <1>4
<1>6. Apart(d, t, R)
  <2>1. ASSUME NEW i \in 1 .. Len(t), NEW j \in 1 .. Len(t), t[i] = t[j]
        PROVE  i = j
    <3>1. i + 1 = j + 1
      BY <1>2, <1>5, <2>1 DEF Apart
    <3> QED
      BY <1>1, <1>4, <3>1
  <2> QED
    BY <1>2, <1>5, <2>1 DEF Apart
<1>7. Holds(store, t, R)
  BY <1>2, <1>5 DEF Holds
<1> QED
  BY <1>3, <1>6, <1>7 DEF Lists, t

(* The conses of the dictionary when the one at an index is moved or taken *)
(* out.                                                                    *)
Shared(d, index, removed) ==
  (IF removed THEN <<>> ELSE <<d[index + 1]>>) \o RemoveAt(d, index + 1)

LEMMA SharedFacts ==
  ASSUME NEW T, NEW d \in Seq(T), NEW index \in 0 .. Len(d) - 1, NEW removed \in BOOLEAN
  PROVE  LET others == RemoveAt(d, index + 1)
             fewer == Shared(d, index, removed)
         IN /\ removed => fewer = others
            /\ ~removed => Fronts(fewer, d[index + 1], others, T)
            /\ fewer \in Seq(T)
<1> DEFINE others == RemoveAt(d, index + 1)
           fewer == Shared(d, index, removed)
<1>1. others \in Seq(T) /\ d[index + 1] \in T
  BY RemovedFacts
<1>2. fewer = (IF removed THEN <<>> ELSE <<d[index + 1]>>) \o others
  BY DEF Shared
<1> HIDE DEF others, fewer
<1>3. CASE removed
  <2>1. fewer = others
    BY <1>1, <1>2, <1>3, ConcatEmptySeq
  <2> QED
    BY <1>1, <1>3, <2>1 DEF others, fewer
<1>4. CASE ~removed
  <2>1. fewer = <<d[index + 1]>> \o others
    BY <1>2, <1>4
  <2>2. Fronts(fewer, d[index + 1], others, T)
    BY <1>1, <2>1, FrontFacts
  <2> QED
    BY <1>4, <2>2 DEF Fronts, others, fewer
<1> QED
  BY <1>3, <1>4

LEMMA SharedOnce ==
  ASSUME NEW T, NEW d \in Seq(T), NEW index \in 0 .. Len(d) - 1, NEW removed \in BOOLEAN,
         \A i, j \in 1 .. Len(d) : d[i] = d[j] => i = j
  PROVE  LET fewer == Shared(d, index, removed)
         IN /\ Inside(fewer, d)
            /\ \A i, j \in 1 .. Len(fewer) : fewer[i] = fewer[j] => i = j
<1> DEFINE others == RemoveAt(d, index + 1)
           fewer == Shared(d, index, removed)
<1>1. /\ others \in Seq(T) /\ Len(others) = Len(d) - 1 /\ Len(d) \in Nat
      /\ \A i \in 1 .. Len(d) - 1 : others[i] = IF i <= index THEN d[i] ELSE d[i + 1]
      /\ index + 1 \in 1 .. Len(d)
  BY RemovedFacts
<1>2. /\ removed => fewer = others
      /\ ~removed => Fronts(fewer, d[index + 1], others, T)
  BY SharedFacts
<1> HIDE DEF others, fewer
<1> DEFINE place(i) == IF i <= index THEN i ELSE i + 1
<1>3. ASSUME NEW i \in 1 .. Len(others)
      PROVE  place(i) \in 1 .. Len(d) /\ place(i) # index + 1 /\ others[i] = d[place(i)]
  BY <1>1
<1>4. ASSUME NEW i \in 1 .. Len(others), NEW j \in 1 .. Len(others), place(i) = place(j)
      PROVE  i = j
  BY <1>1, <1>4
<1> HIDE DEF place
<1>5. ASSUME NEW i \in 1 .. Len(others), NEW j \in 1 .. Len(others), others[i] = others[j]
      PROVE  i = j
  BY <1>3, <1>4, <1>5
<1>6. CASE removed
  <2>1. fewer = others
    BY <1>2, <1>6
  <2>2. Inside(fewer, d)
    BY <1>3, <2>1 DEF Inside
  <2> QED
    BY <1>5, <2>1, <2>2 DEF fewer
<1>7. CASE ~removed
  <2>1. /\ Len(fewer) = Len(others) + 1 /\ Len(others) \in Nat /\ fewer[1] = d[index + 1]
        /\ \A i \in 1 .. Len(others) : fewer[i + 1] = others[i]
        /\ \A i \in 1 .. Len(others) + 1 : i = 1 \/ i - 1 \in 1 .. Len(others)
    BY <1>2, <1>7 DEF Fronts
  <2>2. ASSUME NEW i \in 1 .. Len(fewer), i # 1
        PROVE  i - 1 \in 1 .. Len(others) /\ i = (i - 1) + 1 /\ fewer[i] = others[i - 1]
    <3>1. i - 1 \in 1 .. Len(others) /\ i = (i - 1) + 1
      BY <2>1, <2>2
    <3>2. fewer[(i - 1) + 1] = others[i - 1]
      BY <2>1, <3>1
    <3> QED
      BY <3>1, <3>2
  <2>3. ASSUME NEW i \in 1 .. Len(fewer)
        PROVE  \E j \in 1 .. Len(d) : fewer[i] = d[j]
    <3>1. CASE i = 1
      BY <1>1, <2>1, <3>1
    <3>2. CASE i # 1
      BY <1>3, <2>2, <3>2
    <3> QED
      BY <3>1, <3>2
  <2>4. ASSUME NEW i \in 1 .. Len(fewer), i # 1
        PROVE  fewer[i] # fewer[1]
    BY <1>1, <1>3, <2>1, <2>2, <2>4
  <2>5. ASSUME NEW i \in 1 .. Len(fewer), NEW j \in 1 .. Len(fewer), fewer[i] = fewer[j]
        PROVE  i = j
    <3>1. CASE i = 1 \/ j = 1
      BY <2>4, <2>5, <3>1
    <3>2. CASE i # 1 /\ j # 1
      <4>1. i - 1 = j - 1
        BY <1>5, <2>2, <2>5, <3>2
      <4> QED
        BY <4>1
    <3> QED
      BY <3>1, <3>2
  <2>6. Inside(fewer, d)
    BY <2>3 DEF Inside
  <2> QED
    BY <2>5, <2>6 DEF fewer
<1> QED
  BY <1>6, <1>7 DEF fewer

-----------------------------------------------------------------------------
(* What the lists hold.  A list has its conses only in one order, so it is *)
(* a sequence of values.                                                   *)

Entries(store, cells) == [i \in 1 .. Len(cells) |-> store[cells[i]].car]

CellsOf(store, list) == CHOOSE cells : IsList(store, cells, list)
Contents(store, list) == Entries(store, CellsOf(store, list))

LEMMA OnlyCells ==
  ASSUME NEW store, NEW list, NEW first, NEW second,
         IsList(store, first, list), IsList(store, second, list)
  PROVE  first = second
<1> DEFINE T == 1 .. Len(store)
           n == Len(first)
           m == Len(second)
<1>1. first \in Seq(T) /\ second \in Seq(T) /\ n \in Nat /\ m \in Nat
  <2>1. first \in Seq(T) /\ second \in Seq(T)
    BY DEF IsList
  <2> QED
    BY <2>1, LenProperties
<1> DEFINE S == {i \in 0 .. n : At(first, i + 1) = At(second, i + 1)}
<1>2. 0 \in S
  <2>1. At(first, 1) = At(second, 1)
    BY DEF IsList
  <2>2. 0 + 1 = 1 /\ 0 \in 0 .. n
    BY <1>1
  <2> QED
    BY <2>1, <2>2
<1>3. ASSUME NEW j \in 1 .. n, At(first, j) = At(second, j)
      PROVE  /\ j \in 1 .. m /\ first[j] = second[j]
             /\ At(first, j + 1) = At(second, j + 1)
  <2>1. At(first, j) = ConsAt(first[j])
    BY DEF At
  <2>2. j \in 1 .. m
    BY <1>3, <2>1, ValueFacts DEF At
  <2>3. first[j] = second[j]
    BY <1>3, <2>1, <2>2, ValueFacts DEF At
  <2>4. store[first[j]].cdr = At(first, j + 1) /\ store[second[j]].cdr = At(second, j + 1)
    BY <2>2 DEF IsList
  <2> QED
    BY <2>2, <2>3, <2>4
<1>4. 0 .. n \subseteq S
  <2>1. ASSUME NEW j \in 1 .. n, \A i \in 0 .. j - 1 : i \in S
        PROVE  j \in S
    <3>1. j - 1 \in 0 .. j - 1 /\ (j - 1) + 1 = j /\ j \in 0 .. n
      BY <1>1
    <3>2. At(first, j) = At(second, j)
      BY <2>1, <3>1
    <3> QED
      BY <1>3, <3>1, <3>2
  <2> HIDE DEF S
  <2> QED
    BY <1>1, <1>2, <2>1, Upwards
<1>5. ASSUME NEW j \in 1 .. n
      PROVE  j \in 1 .. m /\ first[j] = second[j]
  <2>1. j - 1 \in 0 .. n /\ (j - 1) + 1 = j
    BY <1>1
  <2>2. At(first, j) = At(second, j)
    BY <1>4, <2>1
  <2> QED
    BY <1>3, <2>2
<1>6. n + 1 \notin 1 .. m
  <2>1. n \in 0 .. n /\ n + 1 \notin 1 .. n
    BY <1>1
  <2>2. At(first, n + 1) = At(second, n + 1)
    BY <1>4, <2>1
  <2>3. At(first, n + 1) = Nothing
    BY <2>1 DEF At
  <2> QED
    BY <2>2, <2>3, ValueFacts DEF At
<1>7. n = m
  <2>1. n = 0 \/ n \in 1 .. m
    <3>1. n = 0 \/ n \in 1 .. n
      BY <1>1
    <3> QED
      BY <1>5, <3>1
  <2> QED
    BY <1>1, <1>6, <2>1
<1> HIDE DEF T
<1>8. \A i \in 1 .. Len(first) : first[i] = second[i]
  BY <1>5
<1> QED
  BY <1>1, <1>7, <1>8, SeqEqual

LEMMA ContentsOf ==
  ASSUME NEW store, NEW cells, NEW list, IsList(store, cells, list)
  PROVE  Contents(store, list) = Entries(store, cells) /\ CellsOf(store, list) = cells
<1>1. IsList(store, CellsOf(store, list), list)
  BY DEF CellsOf
<1>2. CellsOf(store, list) = cells
  BY <1>1, OnlyCells
<1> QED
  BY <1>2 DEF Contents

IsEntries(e, store, cells, R) ==
  /\ e \in Seq(Values(R)) /\ Len(e) = Len(cells) /\ Len(cells) \in Nat
  /\ \A i \in 1 .. Len(cells) : e[i] = store[cells[i]].car /\ e[i] \in Values(R)

SameCars(store, later, cells) ==
  \A i \in 1 .. Len(cells) : later[cells[i]].car = store[cells[i]].car

LEMMA EntriesType ==
  ASSUME NEW store, NEW T, NEW cells \in Seq(T), NEW R, Holds(store, cells, R)
  PROVE  IsEntries(Entries(store, cells), store, cells, R)
<1>1. Len(cells) \in Nat
  BY LenProperties
<1>2. \A i \in 1 .. Len(cells) : store[cells[i]].car \in Values(R)
  BY DEF Holds
<1> HIDE DEF Values
<1> QED
  BY <1>1, <1>2 DEF Entries, IsEntries

(* The same values in front of which there is another. *)
Extended(later, front, x, store, cells, R) ==
  /\ Entries(later, front) = <<x>> \o Entries(store, cells)
  /\ Holds(later, front, R)

LEMMA EntriesFront ==
  ASSUME NEW store, NEW later, NEW T, NEW cells \in Seq(T), NEW R, NEW c, NEW front,
         Fronts(front, c, cells, T), NEW x \in Values(R), later[c].car = x,
         Holds(store, cells, R), SameCars(store, later, cells)
  PROVE  Extended(later, front, x, store, cells, R)
<1> DEFINE e == Entries(store, cells)
           f == Entries(later, front)
<1>1. IsEntries(e, store, cells, R)
  BY EntriesType
<1> HIDE DEF e, f
<1>2. /\ e \in Seq(Values(R)) /\ Len(e) = Len(cells) /\ Len(cells) \in Nat
      /\ \A i \in 1 .. Len(cells) : e[i] = store[cells[i]].car /\ e[i] \in Values(R)
  BY <1>1 DEF IsEntries
<1>3. /\ front \in Seq(T) /\ Len(front) = Len(cells) + 1 /\ front[1] = c
      /\ \A i \in 1 .. Len(cells) : front[i + 1] = cells[i]
      /\ \A i \in 1 .. Len(cells) + 1 : i = 1 \/ i - 1 \in 1 .. Len(cells)
  BY DEF Fronts
<1>4. ASSUME NEW i \in 1 .. Len(front)
      PROVE  /\ i = 1 => later[front[i]].car = x
             /\ i # 1 => i - 1 \in 1 .. Len(cells) /\ later[front[i]].car = e[i - 1]
  <2>1. i # 1 => i - 1 \in 1 .. Len(cells) /\ i = (i - 1) + 1
    BY <1>2, <1>3
  <2>2. i # 1 => front[(i - 1) + 1] = cells[i - 1]
    BY <1>3, <2>1
  <2> QED
    BY <1>2, <1>3, <2>1, <2>2 DEF SameCars
<1>5. x \in Values(R)
  OBVIOUS
<1>6. Holds(later, front, R)
  BY <1>2, <1>4, <1>5 DEF Holds
<1>7. IsEntries(f, later, front, R)
  BY <1>3, <1>6, EntriesType DEF f
<1>8. /\ f \in Seq(Values(R)) /\ Len(f) = Len(front)
      /\ \A i \in 1 .. Len(front) : f[i] = later[front[i]].car
  BY <1>7 DEF IsEntries
<1> HIDE DEF Values
<1>9. /\ <<x>> \o e \in Seq(Values(R)) /\ Len(<<x>> \o e) = Len(cells) + 1
      /\ (<<x>> \o e)[1] = x
      /\ \A i \in 1 .. Len(cells) : (<<x>> \o e)[i + 1] = e[i]
  BY <1>2, <1>5
<1>10. \A i \in 1 .. Len(f) : f[i] = (<<x>> \o e)[i]
  <2> TAKE i \in 1 .. Len(f)
  <2>1. CASE i = 1
    BY <1>4, <1>8, <1>9, <2>1
  <2>2. CASE i # 1
    <3>1. i - 1 \in 1 .. Len(cells) /\ f[i] = e[i - 1] /\ (i - 1) + 1 = i
      BY <1>4, <1>8, <2>2
    <3>2. (<<x>> \o e)[(i - 1) + 1] = e[i - 1]
      BY <1>9, <3>1
    <3> QED
      BY <3>1, <3>2
  <2> QED
    BY <2>1, <2>2
<1>11. f = <<x>> \o e
  <2>1. PICK g : g = <<x>> \o e
    OBVIOUS
  <2>2. g \in Seq(Values(R)) /\ Len(g) = Len(f) /\ \A i \in 1 .. Len(f) : f[i] = g[i]
    BY <1>3, <1>8, <1>9, <1>10, <2>1
  <2>3. f = g
    BY <1>8, <2>2, SeqEqual
  <2> QED
    BY <2>1, <2>3
<1> QED
  BY <1>6, <1>11 DEF e, f, Extended

LEMMA EntriesSame ==
  ASSUME NEW store, NEW later, NEW cells, SameCars(store, later, cells)
  PROVE  Entries(later, cells) = Entries(store, cells)
BY DEF Entries, SameCars

LEMMA EntriesTail ==
  ASSUME NEW store, NEW T, NEW cells \in Seq(T), cells # <<>>, NEW R, Holds(store, cells, R)
  PROVE  Entries(store, Tail(cells)) = Tail(Entries(store, cells))
<1> DEFINE e == Entries(store, cells)
           t == Tail(cells)
<1>1. IsEntries(e, store, cells, R)
  BY EntriesType
<1>2. /\ t \in Seq(T) /\ Len(t) = Len(cells) - 1 /\ Len(cells) \in Nat /\ Len(cells) >= 1
      /\ \A i \in 1 .. Len(cells) - 1 : t[i] = cells[i + 1]
  BY TailFacts
<1> HIDE DEF e, t
<1>3. /\ e \in Seq(Values(R)) /\ Len(e) = Len(cells)
      /\ \A i \in 1 .. Len(cells) : e[i] = store[cells[i]].car
  BY <1>1 DEF IsEntries
<1>4. ASSUME NEW i \in 1 .. Len(t)
      PROVE  i + 1 \in 1 .. Len(cells) /\ t[i] = cells[i + 1]
  BY <1>2
<1>5. Holds(store, t, R)
  BY <1>4 DEF Holds
<1>6. IsEntries(Entries(store, t), store, t, R)
  BY <1>2, <1>5, EntriesType
<1>7. PICK f : f = Entries(store, t)
  OBVIOUS
<1>8. f \in Seq(Values(R)) /\ Len(f) = Len(t) /\ \A i \in 1 .. Len(t) : f[i] = store[t[i]].car
  BY <1>6, <1>7 DEF IsEntries
<1> HIDE DEF Values
<1>9. e # <<>>
  BY <1>2, <1>3
<1>10. /\ Tail(e) \in Seq(Values(R)) /\ Len(Tail(e)) = Len(e) - 1
       /\ \A i \in 1 .. Len(e) - 1 : Tail(e)[i] = e[i + 1]
  BY <1>3, <1>9, TailFacts
<1>11. \A i \in 1 .. Len(f) : f[i] = Tail(e)[i]
  <2> TAKE i \in 1 .. Len(f)
  <2>1. f[i] = store[cells[i + 1]].car /\ i + 1 \in 1 .. Len(cells)
    BY <1>4, <1>8
  <2>2. i \in 1 .. Len(e) - 1
    BY <1>2, <1>3, <1>8
  <2>3. Tail(e)[i] = e[i + 1]
    BY <1>10, <2>2
  <2> QED
    BY <1>3, <2>1, <2>3
<1>12. f = Tail(e)
  <2>1. Len(f) = Len(Tail(e))
    BY <1>2, <1>3, <1>8, <1>10
  <2> QED
    BY <1>8, <1>10, <1>11, <2>1, SeqEqual
<1> QED
  BY <1>7, <1>12 DEF e, t

(* What the dictionary holds moves like what encode-context-push! and      *)
(* encode-context-remove! move.                                            *)
LEMMA EntriesShared ==
  ASSUME NEW store, NEW T, NEW d \in Seq(T), NEW R, Holds(store, d, R),
         NEW index \in 0 .. Len(d) - 1, NEW removed \in BOOLEAN
  PROVE  Entries(store, Shared(d, index, removed)) =
           MoveToFront(Entries(store, d), index, removed)
<1> DEFINE others == RemoveAt(d, index + 1)
           fewer == Shared(d, index, removed)
           e == Entries(store, d)
           r == RemoveAt(e, index + 1)
<1>1. /\ others \in Seq(T) /\ Len(others) = Len(d) - 1 /\ Len(d) \in Nat
      /\ \A i \in 1 .. Len(d) - 1 : others[i] = IF i <= index THEN d[i] ELSE d[i + 1]
      /\ index + 1 \in 1 .. Len(d) /\ d[index + 1] \in T
  BY RemovedFacts
<1>2. /\ removed => fewer = others
      /\ ~removed => Fronts(fewer, d[index + 1], others, T)
  BY SharedFacts
<1>3. IsEntries(e, store, d, R)
  BY EntriesType
<1> HIDE DEF others, fewer, e, r
<1>4. /\ e \in Seq(Values(R)) /\ Len(e) = Len(d)
      /\ \A i \in 1 .. Len(d) : e[i] = store[d[i]].car /\ e[i] \in Values(R)
  BY <1>3 DEF IsEntries
<1>5. index \in 0 .. Len(e) - 1
  BY <1>4
<1>6. /\ r \in Seq(Values(R)) /\ Len(r) = Len(e) - 1
      /\ \A i \in 1 .. Len(e) - 1 : r[i] = IF i <= index THEN e[i] ELSE e[i + 1]
  <2> HIDE DEF Values
  <2> QED
    BY <1>4, <1>5, RemovedFacts DEF r
<1>7. ASSUME NEW i \in 1 .. Len(others)
      PROVE  store[others[i]].car = r[i] /\ r[i] \in Values(R)
  <2>1. i \in 1 .. Len(d) - 1 /\ i \in 1 .. Len(d) /\ i + 1 \in 1 .. Len(d) /\ i \in 1 .. Len(e) - 1
    BY <1>1, <1>4
  <2> QED
    BY <1>1, <1>4, <1>6, <2>1
<1>8. Holds(store, others, R)
  BY <1>7 DEF Holds
<1>9. IsEntries(Entries(store, others), store, others, R)
  BY <1>1, <1>8, EntriesType
<1>10. PICK f : f = Entries(store, others)
  OBVIOUS
<1>11. f \in Seq(Values(R)) /\ Len(f) = Len(others)
       /\ \A i \in 1 .. Len(others) : f[i] = store[others[i]].car
  BY <1>9, <1>10 DEF IsEntries
<1>12. f = r
  <2> HIDE DEF Values
  <2>1. Len(f) = Len(r) /\ \A i \in 1 .. Len(f) : f[i] = r[i]
    BY <1>1, <1>4, <1>6, <1>7, <1>11
  <2> QED
    BY <1>6, <1>11, <2>1, SeqEqual
<1>13. MoveToFront(e, index, removed) = (IF removed THEN <<>> ELSE <<e[index + 1]>>) \o r
  BY DEF MoveToFront, r
<1>14. CASE removed
  <2>1. MoveToFront(e, index, removed) = <<>> \o r
    BY <1>13, <1>14
  <2>2. <<>> \o r = r
    <3> HIDE DEF Values
    <3> QED
      BY <1>6, ConcatEmptySeq
  <2>3. Entries(store, fewer) = r
    BY <1>2, <1>10, <1>12, <1>14
  <2> QED
    BY <2>1, <2>2, <2>3 DEF fewer, e
<1>15. CASE ~removed
  <2>1. MoveToFront(e, index, removed) = <<e[index + 1]>> \o r
    BY <1>13, <1>15
  <2>2. store[d[index + 1]].car = e[index + 1] /\ e[index + 1] \in Values(R)
    BY <1>1, <1>4
  <2>3. Entries(store, fewer) = <<store[d[index + 1]].car>> \o Entries(store, others)
    <3>1. SameCars(store, store, others)
      BY DEF SameCars
    <3>2. PICK c : c = d[index + 1]
      OBVIOUS
    <3>3. PICK x : x = e[index + 1]
      OBVIOUS
    <3>7. x \in Values(R) /\ store[c].car = x
      BY <2>2, <3>2, <3>3
    <3>4. Fronts(fewer, c, others, T)
      BY <1>2, <1>15, <3>2
    <3>5. others \in Seq(T)
      BY <1>1
    <3>6. Extended(store, fewer, x, store, others, R)
      BY <1>8, <3>1, <3>4, <3>5, <3>7, EntriesFront
    <3> QED
      BY <2>2, <3>2, <3>3, <3>6 DEF Extended
  <2> QED
    BY <1>10, <1>12, <2>1, <2>2, <2>3 DEF fewer, e
<1> QED
  BY <1>14, <1>15

(* The one list has x in front, the other what it had. *)
PushedTo(store, dictionary, operands, d, s, R, later, x) ==
  LET new == Len(store) + 1
      front == <<new>> \o s
  IN /\ Lists(later, dictionary, ConsAt(new), d, front, R)
     /\ \A r \in R : later[r] = store[r]
     /\ Entries(later, front) = <<x>> \o Entries(store, s)
     /\ Entries(later, d) = Entries(store, d)

LEMMA PushEffect ==
  ASSUME NEW store, NEW dictionary, NEW operands, NEW d, NEW s, NEW R,
         Lists(store, dictionary, operands, d, s, R), NEW x \in Values(R), NEW later,
         later = Append(store, [car |-> x, cdr |-> operands, tag |-> 0])
  PROVE  PushedTo(store, dictionary, operands, d, s, R, later, x)
<1> DEFINE n == Len(store)
           front == <<n + 1>> \o s
           T == 1 .. n + 1
<1>1. /\ Lists(later, dictionary, ConsAt(n + 1), d, front, R)
      /\ \A i \in 1 .. n : later[i] = store[i]
      /\ later[n + 1].car = x
  BY Pushed
<1>2. /\ n \in Nat /\ d \in Seq(1 .. n) /\ s \in Seq(1 .. n)
      /\ \A i \in 1 .. Len(d) : d[i] \in 1 .. n
      /\ \A i \in 1 .. Len(s) : s[i] \in 1 .. n
  BY ListsType
<1>3. R \subseteq 1 .. n /\ Holds(store, s, R)
  BY DEF Lists
<1>4. s \in Seq(T) /\ n + 1 \in T
  <2>1. 1 .. n \subseteq T /\ n + 1 \in T
    BY <1>2
  <2> QED
    BY <1>2, <2>1, SeqMonotonic
<1> HIDE DEF n, T
<1>5. Fronts(front, n + 1, s, T)
  BY <1>4, FrontFacts
<1>6. SameCars(store, later, s) /\ SameCars(store, later, d)
  BY <1>1, <1>2 DEF SameCars
<1>7. Extended(later, front, x, store, s, R)
  <2> HIDE DEF front
  <2>1. PICK c : c = n + 1
    OBVIOUS
  <2>2. Fronts(front, c, s, T) /\ later[c].car = x
    BY <1>1, <1>5, <2>1
  <2> QED
    BY <1>3, <1>4, <1>6, <2>2, EntriesFront
<1>8. Entries(later, d) = Entries(store, d)
  BY <1>6, EntriesSame
<1>9. \A r \in R : later[r] = store[r]
  BY <1>1, <1>3
<1> QED
  BY <1>1, <1>7, <1>8, <1>9 DEF PushedTo, Extended, n

(* What a reference to a shared value does to the dictionary. *)
SharedTo(d, s, R, index, removed) ==
  LET front == MovedToFront(index)
      entry == front.conses[front.code.cons]
      fewer == Shared(d, index, removed)
      dictionary == IF removed THEN entry.cdr ELSE front.code
  IN /\ Lists(front.conses, dictionary, stack, fewer, s, R)
     /\ Len(front.conses) = Len(conses)
     /\ \A r \in R : front.conses[r] = conses[r]
     /\ entry.car = Entries(conses, d)[index + 1]
     /\ entry.car \in Values(R)
     /\ Entries(front.conses, fewer) = MoveToFront(Entries(conses, d), index, removed)
     /\ Entries(front.conses, s) = Entries(conses, s)

LEMMA ShareEffect ==
  ASSUME NEW d, NEW s, NEW R, Lists(conses, code, stack, d, s, R),
         NEW index \in 0 .. Len(d) - 1, NEW removed \in BOOLEAN
  PROVE  SharedTo(d, s, R, index, removed)
<1> DEFINE n == Len(conses)
           front == MovedToFront(index)
           store == front.conses
           c == d[index + 1]
           entry == store[front.code.cons]
           others == RemoveAt(d, index + 1)
           fewer == Shared(d, index, removed)
           dictionary == IF removed THEN entry.cdr ELSE front.code
<1>1. /\ n \in Nat /\ d \in Seq(1 .. n) /\ s \in Seq(1 .. n) /\ Len(d) \in Nat
      /\ \A i \in 1 .. Len(d) : d[i] \in 1 .. n
      /\ \A i \in 1 .. Len(s) : s[i] \in 1 .. n
  BY ListsType
<1>2. /\ conses \in Seq(Record) /\ R \subseteq 1 .. n
      /\ IsList(conses, d, code) /\ IsList(conses, s, stack)
      /\ Apart(d, s, R) /\ Holds(conses, d, R) /\ Holds(conses, s, R)
  BY DEF Lists
<1>3. \A i, j \in 1 .. Len(d) : d[i] = d[j] => i = j
  BY <1>2 DEF Apart
<1>4. /\ store \in Seq(Record) /\ Len(store) = n
      /\ front.code = ConsAt(c)
      /\ \A i \in 1 .. n : store[i].car = conses[i].car
      /\ \A i \in 1 .. n : (\A j \in 1 .. Len(d) : d[j] # i) => store[i] = conses[i]
      /\ store[c].cdr = At(others, 1)
      /\ IsList(store, others, At(others, 1))
  <2> HIDE DEF Record
  <2> QED
    BY <1>2, <1>3, MoveList
<1>5. index + 1 \in 1 .. Len(d) /\ c \in 1 .. n
  BY <1>1
<1> HIDE DEF n, store, c, others, fewer
<1>6. entry = store[c]
  <2>1. front.code.cons = c
    BY <1>4, ValueFacts
  <2> QED
    BY <2>1
<1> HIDE DEF front, entry
<1>7. Inside(fewer, d) /\ (\A i, j \in 1 .. Len(fewer) : fewer[i] = fewer[j] => i = j)
  BY <1>1, <1>3, SharedOnce DEF fewer
<1>8. /\ removed => fewer = others
      /\ ~removed => fewer = <<c>> \o others
  <2>1. removed => fewer = others
    BY <1>1, SharedFacts DEF fewer, others
  <2>2. ~removed => fewer = <<c>> \o others
    BY DEF fewer, others, c, Shared
  <2> QED
    BY <2>1, <2>2
<1>9. IsList(store, fewer, dictionary)
  <2>1. CASE removed
    BY <1>4, <1>6, <1>8, <2>1
  <2>2. CASE ~removed
    <3>1. c \in 1 .. Len(store)
      BY <1>4, <1>5
    <3>2. IsList(store, <<c>> \o others, ConsAt(c))
      BY <1>4, <3>1, ConsList
    <3> QED
      BY <1>4, <1>8, <2>2, <3>2
  <2> QED
    BY <2>1, <2>2
<1> HIDE DEF dictionary
<1>10. /\ Lists(store, dictionary, stack, fewer, s, R)
       /\ \A r \in R : store[r] = conses[r]
       /\ \A i \in 1 .. Len(s) : store[s[i]] = conses[s[i]]
  <2> HIDE DEF Record
  <2> QED
    BY <1>4, <1>7, <1>9, Replaced DEF n
<1>11. SameCars(conses, store, d) /\ SameCars(conses, store, s)
  BY <1>1, <1>4 DEF SameCars
<1>12. Entries(store, d) = Entries(conses, d) /\ Entries(store, s) = Entries(conses, s)
  BY <1>11, EntriesSame
<1>13. Holds(store, d, R)
  BY <1>2, <1>11 DEF Holds, SameCars
<1>14. Entries(store, fewer) = MoveToFront(Entries(conses, d), index, removed)
  <2>1. Entries(store, fewer) = MoveToFront(Entries(store, d), index, removed)
    BY <1>1, <1>13, EntriesShared DEF fewer
  <2> QED
    BY <1>12, <2>1
<1>15. entry.car = Entries(conses, d)[index + 1] /\ entry.car \in Values(R)
  <2>1. IsEntries(Entries(conses, d), conses, d, R)
    BY <1>1, <1>2, EntriesType
  <2>2. Entries(conses, d)[index + 1] = conses[c].car /\ conses[c].car \in Values(R)
    BY <1>5, <2>1 DEF IsEntries, c
  <2> QED
    BY <1>4, <1>5, <1>6, <2>2
<1> QED
  BY <1>4, <1>10, <1>12, <1>14, <1>15 DEF SharedTo, n, front, store, entry, fewer, dictionary

(* A list is its first cons in front of the others. *)
LEMMA FrontsTail ==
  ASSUME NEW T, NEW cells \in Seq(T), cells # <<>>
  PROVE  Fronts(cells, cells[1], Tail(cells), T)
<1>1. PICK c : c = cells[1]
  OBVIOUS
<1>2. PICK rest : rest = Tail(cells)
  OBVIOUS
<1>3. rest \in Seq(T) /\ c \in T
  <2>1. Len(cells) \in Nat /\ Len(cells) >= 1 /\ Tail(cells) \in Seq(T)
    BY TailFacts
  <2>2. 1 \in 1 .. Len(cells)
    BY <2>1
  <2> QED
    BY <1>1, <1>2, <2>1, <2>2, ElementOfSeq
<1>4. cells = <<c>> \o rest
  BY <1>1, <1>2
<1>5. Fronts(cells, c, rest, T)
  BY <1>3, <1>4, FrontFacts
<1> QED
  BY <1>1, <1>2, <1>5

(* What a rib does: the second of the stack becomes the pointer to it. *)
RibTo(store, dictionary, d, s, R, later, tag) ==
  LET e == Entries(store, s)
  IN /\ Lists(later, dictionary, ConsAt(s[2]), d, Tail(s), R \cup {s[1]})
     /\ \A r \in R : later[r] = store[r]
     /\ s[1] \notin R
     /\ later[s[1]] = [car |-> e[2], cdr |-> e[1], tag |-> tag]
     /\ Entries(later, Tail(s)) = <<ConsAt(s[1])>> \o Tail(Tail(e))
     /\ Entries(later, d) = Entries(store, d)

IsStored(store, c, x, later) ==
  /\ later \in Seq(Record) /\ Len(later) = Len(store)
  /\ \A i \in 1 .. Len(store) : later[i] = IF i = c THEN x ELSE store[i]

LEMMA StoredFacts ==
  ASSUME NEW store \in Seq(Record), NEW c \in 1 .. Len(store), NEW x \in Record, NEW later,
         later = [store EXCEPT ![c] = x]
  PROVE  IsStored(store, c, x, later)
<1> HIDE DEF Record
<1> QED
  BY Stored DEF IsStored

MadeOf(store, s, tag) ==
  [store EXCEPT ![s[1]] = [car |-> store[s[2]].car, cdr |-> store[s[1]].car, tag |-> tag],
                ![s[2]].car = ConsAt(s[1])]

LEMMA RibEffect ==
  ASSUME NEW store, NEW dictionary, NEW operands, NEW d, NEW s, NEW R,
         Lists(store, dictionary, operands, d, s, R), Len(s) >= 2, NEW tag \in Nat, NEW later,
         later = MadeOf(store, s, tag)
  PROVE  RibTo(store, dictionary, d, s, R, later, tag)
<1> DEFINE n == Len(store)
           a == s[1]
           b == s[2]
           t == Tail(s)
           rib == [car |-> store[b].car, cdr |-> store[a].car, tag |-> tag]
           more == [store[b] EXCEPT !.car = ConsAt(a)]
           first == [store EXCEPT ![a] = rib]
           T == 1 .. n
<1>1. /\ n \in Nat /\ d \in Seq(T) /\ s \in Seq(T) /\ Len(d) \in Nat /\ Len(s) \in Nat
      /\ \A i \in 1 .. Len(d) : d[i] \in T
      /\ \A i \in 1 .. Len(s) : s[i] \in T
      /\ \A i \in T : store[i] \in Record
      /\ \A x : x \in Values(R) => x \in Values(Nat)
  BY ListsType
<1>2. /\ store \in Seq(Record) /\ R \subseteq T /\ Apart(d, s, R) /\ Holds(store, s, R)
  BY DEF Lists
<1>3. 1 \in 1 .. Len(s) /\ 2 \in 1 .. Len(s) /\ a \in T /\ b \in T /\ a # b /\ a \notin R
  BY <1>1, <1>2 DEF Apart
<1>4. store[a].car \in Values(R) /\ store[b].car \in Values(R) /\ store[b] \in Record
  BY <1>1, <1>2, <1>3 DEF Holds
<1>5. rib \in Record /\ more \in Record /\ more.car = ConsAt(a) /\ more.cdr = store[b].cdr
  <2>1. ConsAt(a) \in Values(Nat)
    BY <1>1, <1>3, PointerIs
  <2> HIDE DEF Values
  <2> QED
    BY <1>1, <1>4, <2>1 DEF Record
<1>6. rib.car = store[b].car /\ rib.cdr = store[a].car
  OBVIOUS
<1> HIDE DEF n, a, b, t, rib, more
<1>7. /\ first \in Seq(Record) /\ Len(first) = n
      /\ \A i \in T : first[i] = IF i = a THEN rib ELSE store[i]
  <2> HIDE DEF Record, first
  <2>1. first = [store EXCEPT ![a] = rib]
    BY DEF first
  <2>2. IsStored(store, a, rib, first)
    BY <1>2, <1>3, <1>5, <2>1, StoredFacts DEF n
  <2> QED
    BY <2>2 DEF IsStored, n
<1>8. later = [first EXCEPT ![b] = more]
  <2>1. first[b] = store[b]
    BY <1>3, <1>7
  <2>2. later = [first EXCEPT ![b] = [first[b] EXCEPT !.car = ConsAt(a)]]
    BY DEF a, b, rib, MadeOf
  <2> QED
    BY <2>1, <2>2 DEF more
<1> HIDE DEF first
<1>9. /\ later \in Seq(Record) /\ Len(later) = n
      /\ \A i \in T : later[i] = IF i = b THEN more ELSE IF i = a THEN rib ELSE store[i]
  <2>1. /\ later \in Seq(Record) /\ Len(later) = Len(first)
        /\ \A i \in 1 .. Len(first) : later[i] = IF i = b THEN more ELSE first[i]
    <3> HIDE DEF Record
    <3>1. b \in 1 .. Len(first)
      BY <1>3, <1>7
    <3>2. IsStored(first, b, more, later)
      BY <1>5, <1>7, <1>8, <3>1, StoredFacts
    <3> QED
      BY <3>2 DEF IsStored
  <2> QED
    BY <1>7, <2>1
<1>10. /\ later[a] = rib /\ later[b] = more
       /\ \A i \in T : i # a /\ i # b => later[i] = store[i]
  BY <1>3, <1>9
<1>11. /\ Lists(later, dictionary, ConsAt(b), d, t, R \cup {a})
       /\ \A r \in R : later[r] = store[r]
       /\ \A i \in 1 .. Len(d) : later[d[i]] = store[d[i]]
       /\ \A i \in 3 .. Len(s) : later[s[i]] = store[s[i]]
  <2> HIDE DEF Record
  <2>1. \A i \in 1 .. Len(store) : i # s[1] /\ i # s[2] => later[i] = store[i]
    BY <1>10 DEF a, b, n
  <2>2. /\ later[s[1]].car = store[s[2]].car /\ later[s[1]].cdr = store[s[1]].car
        /\ later[s[2]].car = ConsAt(s[1]) /\ later[s[2]].cdr = store[s[2]].cdr
    BY <1>5, <1>6, <1>10 DEF a, b
  <2>3. Len(later) = Len(store)
    BY <1>9 DEF n
  <2>4. later \in Seq(Record)
    BY <1>9
  <2>5. Makes(store, s, later)
    BY <2>1, <2>2, <2>3, <2>4 DEF Makes
  <2>6. MadeFrom(store, dictionary, d, s, R, later)
    BY <2>5, Made
  <2> QED
    BY <2>6 DEF MadeFrom, a, b, t
<1>12. Entries(later, d) = Entries(store, d)
  <2>1. SameCars(store, later, d)
    BY <1>11 DEF SameCars
  <2> QED
    BY <2>1, EntriesSame
<1> DEFINE e == Entries(store, s)
           u == Tail(t)
<1>13. later[a] = [car |-> e[2], cdr |-> e[1], tag |-> tag]
  <2>1. IsEntries(e, store, s, R)
    BY <1>1, <1>2, EntriesType
  <2> HIDE DEF e
  <2>2. e[1] = store[a].car /\ e[2] = store[b].car
    BY <1>3, <2>1 DEF IsEntries, a, b
  <2> QED
    BY <1>10, <2>2 DEF rib
<1>14. s # <<>>
  <2>1. Len(s) # 0
    BY <1>1
  <2> QED
    BY <2>1, EmptySeq
<1>15. /\ t \in Seq(T) /\ Len(t) = Len(s) - 1
       /\ \A i \in 1 .. Len(s) - 1 : t[i] = s[i + 1]
  <2> HIDE DEF T
  <2> QED
    BY <1>1, <1>14, TailFacts DEF t
<1>16. t # <<>> /\ t[1] = b
  <2>1. Len(t) # 0 /\ 1 \in 1 .. Len(s) - 1 /\ 1 + 1 = 2
    <3>1. Len(s) \in Nat /\ Len(t) = Len(s) - 1
      BY <1>1, <1>15
    <3> QED
      BY <3>1
  <2>2. t[1] = s[1 + 1]
    BY <1>15, <2>1
  <2> QED
    BY <2>1, <2>2, EmptySeq DEF b
<1>17. /\ u \in Seq(T) /\ Len(u) = Len(t) - 1 /\ Len(t) \in Nat
       /\ \A i \in 1 .. Len(t) - 1 : u[i] = t[i + 1]
  <2> HIDE DEF T, u
  <2> QED
    BY <1>15, <1>16, TailFacts DEF u
<1> HIDE DEF u
<1>18. ASSUME NEW i \in 1 .. Len(u)
       PROVE  i + 2 \in 3 .. Len(s) /\ i + 2 \in 1 .. Len(s) /\ u[i] = s[i + 2]
  <2>1. /\ i \in 1 .. Len(t) - 1 /\ i + 1 \in 1 .. Len(s) - 1 /\ (i + 1) + 1 = i + 2
        /\ i + 2 \in 3 .. Len(s) /\ i + 2 \in 1 .. Len(s)
    BY <1>1, <1>15, <1>17
  <2>2. u[i] = t[i + 1] /\ t[i + 1] = s[(i + 1) + 1]
    BY <1>15, <1>17, <2>1
  <2> QED
    BY <2>1, <2>2
<1>19. SameCars(store, later, u) /\ Holds(store, u, R \cup {a})
  <2>1. SameCars(store, later, u)
    BY <1>11, <1>18 DEF SameCars
  <2>2. \A x \in Values(R) : x \in Values(R \cup {a})
    BY ValueOf
  <2> QED
    BY <1>2, <1>18, <2>1, <2>2 DEF Holds
<1>20. Entries(store, u) = Tail(Tail(e))
  <2> HIDE DEF T
  <2>1. Entries(store, t) = Tail(e)
    BY <1>1, <1>2, <1>14, EntriesTail DEF t
  <2>2. Holds(store, t, R)
    <3>1. ASSUME NEW i \in 1 .. Len(t)
          PROVE  i + 1 \in 1 .. Len(s) /\ t[i] = s[i + 1]
      BY <1>1, <1>15
    <3> QED
      BY <1>2, <3>1 DEF Holds
  <2>3. Entries(store, u) = Tail(Entries(store, t))
    BY <1>15, <1>16, <2>2, EntriesTail DEF u
  <2> QED
    BY <2>1, <2>3
<1>21. Extended(later, t, ConsAt(a), store, u, R \cup {a})
  <2>1. PICK x : x = ConsAt(a)
    OBVIOUS
  <2>2. x \in Values(R \cup {a}) /\ later[b].car = x
    BY <1>5, <1>10, <2>1, PointerIs
  <2>3. Fronts(t, b, u, T)
    <3> HIDE DEF T
    <3> QED
      BY <1>15, <1>16, FrontsTail DEF u
  <2> HIDE DEF T
  <2>4. Extended(later, t, x, store, u, R \cup {a})
    BY <1>17, <1>19, <2>2, <2>3, EntriesFront
  <2> QED
    BY <2>1, <2>4
<1>22. Entries(later, t) = <<ConsAt(a)>> \o Tail(Tail(e))
  BY <1>20, <1>21 DEF Extended
<1> QED
  BY <1>3, <1>11, <1>12, <1>13, <1>22 DEF RibTo, a, b, t, e

-----------------------------------------------------------------------------
(* The steps of the decoder. *)

(* The dictionary and the stack, as sequences of values. *)
Dictionary == Contents(conses, code)
Operands == Contents(conses, stack)

Reading == [operation : {"share", "rib", "number"}, integer : Nat, more : BOOLEAN, base : Nat]

(* The inductive invariant: there are lists and ribs as above. *)
Decoder(d, s, R) ==
  /\ Lists(conses, code, stack, d, s, R)
  /\ program = <<>> \/ program \in Values(R)

IInv ==
  /\ read \in Nat
  /\ item = <<>> \/ item \in Reading
  /\ \E d, s, R : Decoder(d, s, R)

(* What a step leaves of them: ribs stay what they are. *)
Keeps(d, s, R) ==
  \E later, rest, more :
    /\ Lists(conses', code', stack', later, rest, more)
    /\ program' = program \/ program' \in Values(more)
    /\ R \subseteq more
    /\ \A r \in R : conses'[r] = conses[r]

LEMMA ListsHold ==
  ASSUME NEW store, NEW dictionary, NEW operands, NEW d, NEW s, NEW R,
         Lists(store, dictionary, operands, d, s, R)
  PROVE  /\ Contents(store, dictionary) = Entries(store, d) /\ CellsOf(store, dictionary) = d
         /\ Contents(store, operands) = Entries(store, s) /\ CellsOf(store, operands) = s
         /\ IsEntries(Entries(store, d), store, d, R)
         /\ IsEntries(Entries(store, s), store, s, R)
<1>1. /\ IsList(store, d, dictionary) /\ IsList(store, s, operands)
      /\ Holds(store, d, R) /\ Holds(store, s, R)
  BY DEF Lists
<1>2. d \in Seq(1 .. Len(store)) /\ s \in Seq(1 .. Len(store))
  BY <1>1 DEF IsList
<1>3. /\ Contents(store, dictionary) = Entries(store, d) /\ CellsOf(store, dictionary) = d
      /\ Contents(store, operands) = Entries(store, s) /\ CellsOf(store, operands) = s
  BY <1>1, ContentsOf
<1>4. /\ IsEntries(Entries(store, d), store, d, R)
      /\ IsEntries(Entries(store, s), store, s, R)
  BY <1>1, <1>2, EntriesType
<1> QED
  BY <1>3, <1>4

(* A list that is a cons has a first value. *)
LEMMA TopIs ==
  ASSUME NEW s, NEW R, Holds(conses, s, R), NEW list, IsList(conses, s, list), IsCons(list)
  PROVE  /\ s # <<>> /\ 1 \in 1 .. Len(s) /\ list = ConsAt(s[1]) /\ list.cons = s[1]
         /\ Car(list) = Entries(conses, s)[1] /\ Car(list) = conses[s[1]].car
         /\ Car(list) \in Values(R)
         /\ Cdr(list) = At(s, 2)
<1>1. s \in Seq(1 .. Len(conses)) /\ list = At(s, 1)
  BY DEF IsList
<1>2. 1 \in 1 .. Len(s)
  BY <1>1, ValueFacts DEF At
<1>3. list = ConsAt(s[1])
  BY <1>1, <1>2 DEF At
<1>4. list.cons = s[1]
  BY <1>3, ValueFacts
<1>5. s # <<>>
  BY <1>2
<1>6. Car(list) = conses[s[1]].car /\ Cdr(list) = conses[s[1]].cdr
  BY <1>4 DEF Car, Cdr
<1>7. conses[s[1]].car \in Values(R) /\ conses[s[1]].cdr = At(s, 1 + 1)
  BY <1>2 DEF Holds, IsList
<1>8. IsEntries(Entries(conses, s), conses, s, R)
  BY <1>1, EntriesType
<1>9. Entries(conses, s)[1] = conses[s[1]].car
  BY <1>2, <1>8 DEF IsEntries
<1> QED
  BY <1>2, <1>3, <1>4, <1>5, <1>6, <1>7, <1>9

(* The top of the stack goes to the front of the dictionary. *)
Pushes == Dictionary' = <<Operands[1]>> \o Dictionary /\ Operands' = Operands

LEMMA PushStep ==
  ASSUME OperandsDecoded, NEW d, NEW s, NEW R, Decoder(d, s, R), DecodePush
  PROVE  Keeps(d, s, R) /\ Pushes
<1> DEFINE x == Car(stack)
           front == <<Len(conses) + 1>> \o d
<1>1. Lists(conses, code, stack, d, s, R) /\ Lists(conses, stack, code, s, d, R)
  BY Swapped DEF Decoder
<1>2. IsList(conses, s, stack) /\ Holds(conses, s, R)
  BY <1>1 DEF Lists
<1>3. IsCons(stack)
  BY DEF OperandsDecoded, DecodePush
<1>4. x \in Values(R) /\ x = Entries(conses, s)[1]
  BY <1>2, <1>3, TopIs
<1>5. /\ conses' = Append(conses, [car |-> x, cdr |-> code, tag |-> 0])
      /\ code' = ConsAt(Len(conses) + 1) /\ stack' = stack /\ program' = program
  BY DEF DecodePush, Allocate
<1> HIDE DEF x
<1>6. PushedTo(conses, stack, code, s, d, R, conses', x)
  BY <1>1, <1>4, <1>5, PushEffect
<1>7. /\ Lists(conses', stack', code', s, front, R)
      /\ \A r \in R : conses'[r] = conses[r]
      /\ Entries(conses', front) = <<x>> \o Entries(conses, d)
      /\ Entries(conses', s) = Entries(conses, s)
  BY <1>5, <1>6 DEF PushedTo
<1> HIDE DEF front
<1>8. Lists(conses', code', stack', front, s, R)
  BY <1>7, Swapped
<1>9. Keeps(d, s, R)
  BY <1>5, <1>7, <1>8 DEF Keeps
<1>10. Dictionary = Entries(conses, d) /\ Operands = Entries(conses, s)
  BY <1>1, ListsHold DEF Dictionary, Operands
<1>11. Dictionary' = Entries(conses', front) /\ Operands' = Entries(conses', s)
  BY <1>8, ListsHold DEF Dictionary, Operands
<1> QED
  BY <1>4, <1>7, <1>9, <1>10, <1>11 DEF Pushes

(* A list is as long as there are conses to take. *)
LEMMA TailsInside ==
  ASSUME NEW d, IsList(conses, d, code), NEW index \in Nat,
         \A i \in 0 .. index : IsCons(ListTail(code, i))
  PROVE  index \in 0 .. Len(d) - 1
<1>1. Len(d) \in Nat /\ d \in Seq(1 .. Len(conses))
  <2>1. d \in Seq(1 .. Len(conses))
    BY DEF IsList
  <2> QED
    BY <2>1, LenProperties
<1>2. SUFFICES ASSUME ~(index < Len(d))
               PROVE  FALSE
  BY <1>1
<1>3. Len(d) \in 0 .. index /\ Len(d) \in 0 .. Len(d)
  BY <1>1, <1>2
<1>4. ListTail(code, Len(d)) = At(d, Len(d) + 1)
  BY <1>3, ListTailIs
<1>5. At(d, Len(d) + 1) = Nothing
  BY <1>1, AtFacts
<1> QED
  BY <1>3, <1>4, <1>5, ValueFacts

(* A reference to a shared value moves the dictionary as the encoder moves *)
(* its context, and puts the value on the stack.                           *)
Shares ==
  LET index == item.integer \div 2
  IN /\ Dictionary' = MoveToFront(Dictionary, index, item.integer % 2 = 0)
     /\ Operands' = <<Dictionary[index + 1]>> \o Operands

LEMMA ShareStep ==
  ASSUME OperandsDecoded, item = <<>> \/ item \in Reading,
         NEW d, NEW s, NEW R, Decoder(d, s, R), DecodeShare
  PROVE  Keeps(d, s, R) /\ Shares
<1> DEFINE index == item.integer \div 2
           removed == item.integer % 2 = 0
           moved == MovedToFront(index)
           store == moved.conses
           entry == store[moved.code.cons]
           dictionary == IF removed THEN entry.cdr ELSE moved.code
           fewer == Shared(d, index, removed)
           x == entry.car
           front == <<Len(conses) + 1>> \o s
<1>1. Lists(conses, code, stack, d, s, R)
  BY DEF Decoder
<1>2. item.integer \in Nat /\ IsRead("share")
  BY DEF DecodeShare, IsRead, Reading
<1>3. index \in Nat /\ removed \in BOOLEAN
  BY <1>2
<1>4. \A i \in 0 .. index : IsCons(ListTail(code, i))
  BY <1>2 DEF OperandsDecoded
<1>5. index \in 0 .. Len(d) - 1
  <2>1. IsList(conses, d, code)
    BY <1>1 DEF Lists
  <2> HIDE DEF index
  <2> QED
    BY <1>3, <1>4, <2>1, TailsInside
<1>6. /\ conses' = Append(store, [car |-> x, cdr |-> stack, tag |-> 0])
      /\ code' = dictionary
      /\ stack' = ConsAt(Len(conses) + 1) /\ program' = program
  BY DEF DecodeShare
<1>7. SharedTo(d, s, R, index, removed)
  <2> HIDE DEF index, removed
  <2> QED
    BY <1>1, <1>3, <1>5, ShareEffect
<1>8. /\ Lists(store, dictionary, stack, fewer, s, R)
      /\ Len(store) = Len(conses)
      /\ \A r \in R : store[r] = conses[r]
      /\ x = Entries(conses, d)[index + 1]
      /\ x \in Values(R)
      /\ Entries(store, fewer) = MoveToFront(Entries(conses, d), index, removed)
      /\ Entries(store, s) = Entries(conses, s)
  <2> HIDE DEF index, removed
  <2> QED
    BY <1>7, Zenon DEF SharedTo
<1> HIDE DEF store, dictionary, fewer, x, index, removed, moved, entry
<1>9. PushedTo(store, dictionary, stack, fewer, s, R, conses', x)
  BY <1>6, <1>8, PushEffect
<1>10. /\ Lists(conses', code', stack', fewer, front, R)
       /\ \A r \in R : conses'[r] = store[r]
       /\ Entries(conses', front) = <<x>> \o Entries(store, s)
       /\ Entries(conses', fewer) = Entries(store, fewer)
  BY <1>6, <1>8, <1>9 DEF PushedTo
<1> HIDE DEF front
<1>11. Keeps(d, s, R)
  <2>1. \A r \in R : conses'[r] = conses[r]
    BY <1>8, <1>10
  <2> QED
    BY <1>6, <1>10, <2>1 DEF Keeps
<1>12. Dictionary = Entries(conses, d) /\ Operands = Entries(conses, s)
  BY <1>1, ListsHold DEF Dictionary, Operands
<1>13. Dictionary' = Entries(conses', fewer) /\ Operands' = Entries(conses', front)
  BY <1>10, ListsHold DEF Dictionary, Operands
<1>14. Dictionary' = MoveToFront(Dictionary, index, removed)
  BY <1>8, <1>10, <1>12, <1>13
<1>15. Operands' = <<Dictionary[index + 1]>> \o Operands
  BY <1>8, <1>10, <1>12, <1>13
<1> QED
  BY <1>11, <1>14, <1>15 DEF Shares, index, removed

(* A number goes to the stack. *)
Counts ==
  /\ Dictionary' = Dictionary
  /\ Operands' = <<DecodeNumber(item.integer)>> \o Operands

LEMMA IntegerStep ==
  ASSUME item = <<>> \/ item \in Reading,
         NEW d, NEW s, NEW R, Decoder(d, s, R), DecodeInteger
  PROVE  Keeps(d, s, R) /\ Counts
<1> DEFINE x == DecodeNumber(item.integer)
           front == <<Len(conses) + 1>> \o s
<1>1. Lists(conses, code, stack, d, s, R)
  BY DEF Decoder
<1>2. item.integer \in Nat
  BY DEF DecodeInteger, IsRead, Reading
<1>3. x \in Values(R)
  BY <1>2 DEF Values, Numbers
<1>4. /\ conses' = Append(conses, [car |-> x, cdr |-> stack, tag |-> 0])
      /\ stack' = ConsAt(Len(conses) + 1) /\ code' = code /\ program' = program
  BY DEF DecodeInteger, PushValue, Allocate
<1> HIDE DEF x
<1>5. PushedTo(conses, code, stack, d, s, R, conses', x)
  BY <1>1, <1>3, <1>4, PushEffect
<1>6. /\ Lists(conses', code', stack', d, front, R)
      /\ \A r \in R : conses'[r] = conses[r]
      /\ Entries(conses', front) = <<x>> \o Entries(conses, s)
      /\ Entries(conses', d) = Entries(conses, d)
  BY <1>4, <1>5 DEF PushedTo
<1> HIDE DEF front
<1>7. Keeps(d, s, R)
  BY <1>4, <1>6 DEF Keeps
<1>8. Dictionary = Entries(conses, d) /\ Operands = Entries(conses, s)
  BY <1>1, ListsHold DEF Dictionary, Operands
<1>9. Dictionary' = Entries(conses', d) /\ Operands' = Entries(conses', front)
  BY <1>6, ListsHold DEF Dictionary, Operands
<1> QED
  BY <1>6, <1>7, <1>8, <1>9 DEF Counts, x

(* A cons of the stack becomes the rib of the two values on top of it, and *)
(* they become the pointer to it.                                          *)
MakesRib ==
  \E r \in 1 .. Len(conses) :
    /\ conses'[r] = [car |-> Operands[2], cdr |-> Operands[1],
                     tag |-> RawTag(Operands[1], item.integer)]
    /\ Dictionary' = Dictionary
    /\ Operands' = <<ConsAt(r)>> \o Tail(Tail(Operands))

LEMMA RibStep ==
  ASSUME OperandsDecoded, item = <<>> \/ item \in Reading,
         NEW d, NEW s, NEW R, Decoder(d, s, R), DecodeRib
  PROVE  Keeps(d, s, R) /\ MakesRib
<1> DEFINE tag == RawTag(Car(stack), item.integer)
           a == s[1]
           b == s[2]
           e == Entries(conses, s)
<1>1. Lists(conses, code, stack, d, s, R)
  BY DEF Decoder
<1>2. IsList(conses, s, stack) /\ Holds(conses, s, R)
  BY <1>1 DEF Lists
<1>3. item.integer \in Nat /\ IsCons(stack) /\ IsCons(Cdr(stack))
  BY DEF DecodeRib, IsRead, Reading, OperandsDecoded
<1>4. tag \in Nat
  BY <1>3 DEF RawTag
<1>5. /\ 1 \in 1 .. Len(s) /\ stack = ConsAt(a) /\ stack.cons = a
      /\ Car(stack) = e[1] /\ Car(stack) = conses[a].car /\ Cdr(stack) = At(s, 2)
  BY <1>2, <1>3, TopIs
<1>6. 2 \in 1 .. Len(s) /\ Cdr(stack) = ConsAt(b) /\ Cdr(stack).cons = b
  <2>1. 2 \in 1 .. Len(s)
    BY <1>3, <1>5, ValueFacts DEF At
  <2>2. Cdr(stack) = ConsAt(b)
    BY <1>5, <2>1 DEF At
  <2> QED
    BY <2>1, <2>2, ValueFacts
<1>7. Car(Cdr(stack)) = conses[b].car
  BY <1>6 DEF Car
<1>8. /\ Len(conses) \in Nat /\ Len(s) \in Nat
      /\ \A i \in 1 .. Len(s) : s[i] \in 1 .. Len(conses)
  BY <1>1, ListsType
<1>9. Len(s) >= 2
  BY <1>6, <1>8
<1>10. /\ conses' = MadeOf(conses, s, tag)
       /\ stack' = ConsAt(b) /\ code' = code /\ program' = program
  <2>1. /\ conses' = [conses EXCEPT
                        ![stack.cons] = [car |-> Car(Cdr(stack)), cdr |-> Car(stack),
                                         tag |-> tag],
                        ![Cdr(stack).cons].car = stack]
        /\ stack' = Cdr(stack) /\ code' = code /\ program' = program
    BY DEF DecodeRib
  <2> HIDE DEF tag
  <2>2. conses' = [conses EXCEPT
                     ![a] = [car |-> conses[b].car, cdr |-> conses[a].car, tag |-> tag],
                     ![b].car = ConsAt(a)]
    BY <1>5, <1>6, <1>7, <2>1
  <2> QED
    BY <1>6, <2>1, <2>2 DEF MadeOf
<1>11. tag = RawTag(e[1], item.integer)
  BY <1>5
<1> HIDE DEF tag, e
<1>12. RibTo(conses, code, d, s, R, conses', tag)
  BY <1>1, <1>4, <1>9, <1>10, RibEffect
<1>13. /\ Lists(conses', code', stack', d, Tail(s), R \cup {a})
       /\ \A r \in R : conses'[r] = conses[r]
       /\ conses'[a] = [car |-> e[2], cdr |-> e[1], tag |-> tag]
       /\ Entries(conses', Tail(s)) = <<ConsAt(a)>> \o Tail(Tail(e))
       /\ Entries(conses', d) = Entries(conses, d)
  BY <1>10, <1>12 DEF RibTo, e
<1>14. Keeps(d, s, R)
  BY <1>10, <1>13 DEF Keeps
<1>15. Dictionary = Entries(conses, d) /\ Operands = e
  BY <1>1, ListsHold DEF Dictionary, Operands, e
<1>16. Dictionary' = Entries(conses', d) /\ Operands' = Entries(conses', Tail(s))
  BY <1>13, ListsHold DEF Dictionary, Operands
<1>17. a \in 1 .. Len(conses)
  BY <1>5, <1>8
<1> HIDE DEF a
<1> QED
  BY <1>11, <1>13, <1>14, <1>15, <1>16, <1>17 DEF MakesRib

(* At the end the program is the value on top of the stack. *)
Ends ==
  /\ program' = Operands[1]
  /\ Dictionary' = Dictionary
  /\ Operands' = Tail(Operands)

LEMMA EndStep ==
  ASSUME NEW d, NEW s, NEW R, Decoder(d, s, R), DecodeEnd
  PROVE  Keeps(d, s, R) /\ Ends
<1>1. Lists(conses, code, stack, d, s, R)
  BY DEF Decoder
<1>2. IsList(conses, s, stack) /\ Holds(conses, s, R)
  BY <1>1 DEF Lists
<1>3. IsCons(stack)
  <2>1. stack = At(s, 1) /\ stack # Nothing
    BY <1>2 DEF IsList, DecodeEnd
  <2> QED
    BY <2>1, ValueFacts DEF At
<1>4. /\ s # <<>> /\ stack.cons = s[1]
      /\ Car(stack) = Entries(conses, s)[1] /\ Car(stack) \in Values(R)
  BY <1>2, <1>3, TopIs
<1>5. /\ program' = Car(stack) /\ stack' = conses[s[1]].cdr
      /\ conses' = conses /\ code' = code
  BY <1>4 DEF DecodeEnd, Cdr
<1>6. Lists(conses', code', stack', d, Tail(s), R)
  BY <1>1, <1>4, <1>5, Popped
<1>7. Keeps(d, s, R)
  BY <1>4, <1>5, <1>6 DEF Keeps
<1>8. Dictionary = Entries(conses, d) /\ Operands = Entries(conses, s)
  BY <1>1, ListsHold DEF Dictionary, Operands
<1>9. Dictionary' = Entries(conses, d) /\ Operands' = Entries(conses, Tail(s))
  BY <1>5, <1>6, ListsHold DEF Dictionary, Operands
<1>10. Entries(conses, Tail(s)) = Tail(Entries(conses, s))
  <2>1. s \in Seq(1 .. Len(conses))
    BY <1>2 DEF IsList
  <2> QED
    BY <1>2, <1>4, <2>1, EntriesTail
<1> QED
  BY <1>4, <1>5, <1>7, <1>8, <1>9, <1>10 DEF Ends

(* A byte is a part of an integer. *)
LEMMA ReadStep ==
  ASSUME output \in Seq(Nat), read \in Nat, item = <<>> \/ item \in Reading,
         ReadHead \/ ReadTail
  PROVE  /\ read' \in Nat /\ item' \in Reading
         /\ UNCHANGED <<code, stack, conses, program>>
<1>1. read + 1 \in 1 .. Len(output) /\ read' \in Nat
  <2>1. read < Len(output) /\ read' = read + 1
    BY DEF ReadHead, ReadTail
  <2>2. Len(output) \in Nat
    BY LenProperties
  <2> QED
    BY <2>1, <2>2
<1>2. NextByte \in Nat
  BY <1>1, ElementOfSeq DEF NextByte
<1>3. ASSUME NEW operation \in {"share", "rib", "number"}, NEW x \in Nat, NEW base \in Nat
      PROVE  Item(operation, x, base) \in Reading
  <2>1. x \div 2 \in Nat
    OBVIOUS
  <2> QED
    BY <2>1 DEF Item, Reading
<1>4. NumberBase \in Nat /\ TagBase \in Nat /\ ShareBase \in Nat /\ IntegerBase \in Nat
  BY CodeAssumption DEF CodeAssumption
<1>5. CASE ReadHead
  <2>1. NextByte # 0
    BY <1>5 DEF ReadHead, PushByte
  <2>2. NextByte \div 4 \in Nat /\ (NextByte % 2 = 0 => NextByte \div 2 - 1 \in Nat)
    BY <1>2, <2>1
  <2>3. item' \in Reading
    <3>1. item' = IF NextByte % 2 = 0 THEN Item("share", NextByte \div 2 - 1, ShareBase)
                  ELSE IF NextByte % 4 = 1 THEN Item("rib", NextByte \div 4, TagBase)
                  ELSE Item("number", NextByte \div 4, NumberBase)
      BY <1>5 DEF ReadHead
    <3> QED
      BY <1>3, <1>4, <2>2, <3>1
  <2> QED
    BY <1>1, <1>5, <2>3 DEF ReadHead
<1>6. CASE ReadTail
  <2>1. item' = WithPart(item, NextByte) /\ item \in Reading
    BY <1>6 DEF ReadTail
  <2>2. item.integer \in Nat /\ item.base \in Nat
    BY <2>1 DEF Reading
  <2>3. NextByte \div 2 \in Nat
    BY <1>2
  <2>4. (NextByte \div 2) * item.base \in Nat /\ item.base * IntegerBase \in Nat
    <3>1. \A x, y \in Nat : x * y \in Nat
      OBVIOUS
    <3> QED
      BY <1>4, <2>2, <2>3, <3>1, Zenon
  <2>5. item.integer + (NextByte \div 2) * item.base \in Nat
    BY <2>2, <2>4
  <2>6. item' \in Reading
    BY <2>1, <2>4, <2>5 DEF Reading, WithPart
  <2> QED
    BY <1>1, <1>6, <2>6 DEF ReadTail
<1> QED
  BY <1>5, <1>6

-----------------------------------------------------------------------------
(* What has been decoded: the conses that the values of both lists and the *)
(* program lead to.                                                        *)

LeadsInto(S) ==
  /\ Closed(conses, S)
  /\ Holds(conses, CellsOf(conses, code), S)
  /\ Holds(conses, CellsOf(conses, stack), S)
  /\ program # <<>> => program \in Values(S)

Decoded ==
  {r \in 1 .. Len(conses) : \A S \in SUBSET (1 .. Len(conses)) : LeadsInto(S) => r \in S}

(* The dictionary and the stack are lists that end in null, and no cons is *)
(* in both, in one of them twice or in what has been decoded.              *)
ListsApart ==
  LET d == CellsOf(conses, code)
      s == CellsOf(conses, stack)
  IN IsList(conses, d, code) /\ IsList(conses, s, stack) /\ Apart(d, s, Decoded)

(* A step leaves what has been decoded as it is. *)
RibsKept == \A r \in Decoded : conses'[r] = conses[r]

(* A step does to the sequences of values what its operation stands for. *)
Follows ==
  /\ ReadHead \/ ReadTail => Dictionary' = Dictionary /\ Operands' = Operands
  /\ DecodePush => Pushes
  /\ DecodeShare => Shares
  /\ DecodeRib => MakesRib
  /\ DecodeInteger => Counts
  /\ DecodeEnd => Ends

DecoderSpec == DecoderInit /\ [][Decode \/ DecodeEnd]_decoderVars

(* The bytes come from the decompressor, and from an encoder. *)
BytesArrive == output \in Seq(Nat) /\ OperandsDecoded

LEMMA DecodedInside ==
  ASSUME NEW d, NEW s, NEW R, Decoder(d, s, R)
  PROVE  Decoded \subseteq R /\ ListsApart
<1>1. /\ Lists(conses, code, stack, d, s, R)
      /\ program = <<>> \/ program \in Values(R)
  BY DEF Decoder
<1>2. /\ R \subseteq 1 .. Len(conses)
      /\ IsList(conses, d, code) /\ IsList(conses, s, stack)
      /\ Apart(d, s, R) /\ Holds(conses, d, R) /\ Holds(conses, s, R) /\ Closed(conses, R)
  BY <1>1 DEF Lists
<1>3. CellsOf(conses, code) = d /\ CellsOf(conses, stack) = s
  BY <1>1, ListsHold
<1>4. LeadsInto(R)
  BY <1>1, <1>2, <1>3 DEF LeadsInto
<1>5. Decoded \subseteq R
  BY <1>2, <1>4 DEF Decoded
<1>6. Apart(d, s, Decoded)
  BY <1>2, <1>5 DEF Apart
<1> QED
  BY <1>2, <1>3, <1>5, <1>6 DEF ListsApart

LEMMA Keeping ==
  ASSUME NEW d, NEW s, NEW R, Decoder(d, s, R), Keeps(d, s, R)
  PROVE  (\E later, rest, more : Decoder(later, rest, more))' /\ RibsKept
<1>1. PICK later, rest, more :
        /\ Lists(conses', code', stack', later, rest, more)
        /\ program' = program \/ program' \in Values(more)
        /\ R \subseteq more
        /\ \A r \in R : conses'[r] = conses[r]
  BY DEF Keeps
<1>2. program' = <<>> \/ program' \in Values(more)
  <2>1. program = <<>> \/ program \in Values(R)
    BY DEF Decoder
  <2> QED
    BY <1>1, <2>1, ValueOf
<1>3. Decoder(later, rest, more)'
  BY <1>1, <1>2 DEF Decoder
<1>4. RibsKept
  BY <1>1, DecodedInside DEF RibsKept
<1> QED
  BY <1>3, <1>4

(* Each step keeps the invariant, and does to the sequences what it should.*)
LEMMA DecoderStep ==
  ASSUME IInv, BytesArrive, [Decode \/ DecodeEnd]_decoderVars
  PROVE  IInv' /\ RibsKept /\ [Follows]_decoderVars
<1> DEFINE there == \E d, s, R : Decoder(d, s, R)
<1>1. PICK d, s, R : Decoder(d, s, R)
  BY DEF IInv
<1>2. read \in Nat /\ (item = <<>> \/ item \in Reading) /\ output \in Seq(Nat) /\ OperandsDecoded
  BY DEF IInv, BytesArrive
<1>3. Keeps(d, s, R) => there' /\ RibsKept
  BY <1>1, Keeping
<1>4. UNCHANGED <<code, stack, conses, program>> =>
        /\ there' /\ RibsKept
        /\ Dictionary' = Dictionary /\ Operands' = Operands
  BY <1>1 DEF Decoder, RibsKept, Dictionary, Operands
<1>5. DecodePush => Keeps(d, s, R) /\ Pushes
  BY <1>1, <1>2, PushStep
<1>6. DecodeShare => Keeps(d, s, R) /\ Shares
  BY <1>1, <1>2, ShareStep
<1>7. DecodeRib => Keeps(d, s, R) /\ MakesRib
  BY <1>1, <1>2, RibStep
<1>8. DecodeInteger => Keeps(d, s, R) /\ Counts
  BY <1>1, <1>2, IntegerStep
<1>9. DecodeEnd => Keeps(d, s, R) /\ Ends
  BY <1>1, EndStep
<1>10. ReadHead \/ ReadTail =>
         read' \in Nat /\ item' \in Reading /\ UNCHANGED <<code, stack, conses, program>>
  BY <1>2, ReadStep
<1>11. Follows
  BY <1>4, <1>5, <1>6, <1>7, <1>8, <1>9, <1>10 DEF Follows
<1>12. there' /\ RibsKept
  <2>1. CASE Decode \/ DecodeEnd
    BY <1>3, <1>4, <1>5, <1>6, <1>7, <1>8, <1>9, <1>10, <2>1 DEF Decode
  <2>2. CASE UNCHANGED decoderVars
    BY <1>4, <2>2 DEF decoderVars
  <2> QED
    BY <2>1, <2>2
<1>13. read' \in Nat /\ (item' = <<>> \/ item' \in Reading)
  <2>1. CASE ReadHead \/ ReadTail
    BY <1>10, <2>1
  <2>2. CASE DecodePush
    BY <1>2, <2>2 DEF DecodePush
  <2>3. CASE DecodeShare
    BY <1>2, <2>3 DEF DecodeShare
  <2>4. CASE DecodeRib
    BY <1>2, <2>4 DEF DecodeRib
  <2>5. CASE DecodeInteger
    BY <1>2, <2>5 DEF DecodeInteger
  <2>6. CASE DecodeEnd
    BY <1>2, <2>6 DEF DecodeEnd
  <2>7. CASE UNCHANGED decoderVars
    BY <1>2, <2>7 DEF decoderVars
  <2> QED
    BY <2>1, <2>2, <2>3, <2>4, <2>5, <2>6, <2>7 DEF Decode
<1>14. IInv'
  BY <1>12, <1>13 DEF IInv
<1> QED
  BY <1>11, <1>12, <1>14

LEMMA DecoderStarts ==
  ASSUME DecoderInit
  PROVE  IInv
<1>1. /\ conses = <<>> /\ code = Nothing /\ stack = Nothing /\ read = 0 /\ item = <<>>
      /\ program = <<>>
  BY DEF DecoderInit
<1>2. <<>> \in Seq(Record) /\ Len(<<>>) = 0 /\ <<>> \in Seq(1 .. 0)
  BY EmptySeq
<1>3. \A i \in 1 .. 0 : FALSE
  OBVIOUS
<1>4. 1 \notin 1 .. 0
  OBVIOUS
<1>5. IsList(conses, <<>>, Nothing)
  BY <1>1, <1>2, <1>3, <1>4 DEF IsList, At
<1>6. Apart(<<>>, <<>>, {}) /\ Holds(conses, <<>>, {}) /\ Closed(conses, {})
  BY <1>2, <1>3 DEF Apart, Holds, Closed
<1>7. Decoder(<<>>, <<>>, {})
  BY <1>1, <1>2, <1>5, <1>6 DEF Decoder, Lists
<1> QED
  BY <1>1, <1>7 DEF IInv

LEMMA DecoderInvariant == DecoderSpec /\ []BytesArrive => []IInv
<1>1. DecoderInit => IInv
  BY DecoderStarts
<1>2. IInv /\ BytesArrive /\ [Decode \/ DecodeEnd]_decoderVars => IInv'
  BY DecoderStep
<1> QED
  BY <1>1, <1>2, PTL DEF DecoderSpec

(* While bytes of an encoder are decoded, the dictionary and the stack,    *)
(* which decode_ribs builds of conses of the program's own memory, are     *)
(* lists that end in null, and no cons is in both, in one of them twice or *)
(* in what has been decoded so far.                                        *)
THEOREM ListsStayApart == DecoderSpec /\ []BytesArrive => []ListsApart
<1>1. IInv => ListsApart
  BY DecodedInside DEF IInv
<1> QED
  BY <1>1, DecoderInvariant, PTL

(* No step of the decoder changes a rib that has been decoded: neither     *)
(* does the cons of the stack that becomes a rib belong to another, nor do *)
(* the conses whose cdrs are changed to move an entry of the dictionary.   *)
THEOREM RibsAreKept == DecoderSpec /\ []BytesArrive => [][RibsKept]_decoderVars
<1>1. IInv /\ BytesArrive /\ [Decode \/ DecodeEnd]_decoderVars => [RibsKept]_decoderVars
  BY DecoderStep
<1> QED
  BY <1>1, DecoderInvariant, PTL DEF DecoderSpec

(* As sequences of values, the dictionary does what the encoder does to    *)
(* its context, by the same MoveToFront, and the stack is a stack: a push  *)
(* copies its top to the dictionary, a reference puts the value it refers  *)
(* to on it, a rib takes two values and leaves a pointer to a cons of them.*)
THEOREM DecoderFollows == DecoderSpec /\ []BytesArrive => [][Follows]_decoderVars
<1>1. IInv /\ BytesArrive /\ [Decode \/ DecodeEnd]_decoderVars => [Follows]_decoderVars
  BY DecoderStep
<1> QED
  BY <1>1, DecoderInvariant, PTL DEF DecoderSpec

=============================================================================
