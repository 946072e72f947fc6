----------------------------- MODULE LzssProofs -----------------------------
(***************************************************************************)
(* What either compressor writes, the decompressor turns into the text     *)
(* again: for every text, alphabet, window and longest match.              *)
(*                                                                         *)
(* The argument is about the queue between them.  It carries the text from *)
(* position p to position e (Carries): it is a row of literals and         *)
(* matches, each of them true of the text at the position where its turn   *)
(* comes.  A compressor appends to the row, the decompressor takes from    *)
(* its beginning, and so neither depends on how the other goes about it.   *)
(***************************************************************************)
EXTENDS StreamCompression, Integers, SequenceTheorems, WellFoundedInduction, TLAPS

-----------------------------------------------------------------------------
(* Rings. *)

LEMMA ModSmall ==
  ASSUME NEW n \in Nat \ {0}, NEW a \in 0 .. n - 1
  PROVE  a % n = a
BY Z3

LEMMA ModOnce ==
  ASSUME NEW n \in Nat \ {0}, NEW a \in n .. 2 * n - 1
  PROVE  a % n = a - n
BY Z3

LEMMA ModTwice ==
  ASSUME NEW n \in Nat \ {0}, NEW a \in 2 * n .. 3 * n - 1
  PROVE  a % n = a - 2 * n
BY Z3

IsRing(r, n, S) == r \in [size : {n}, offset : 0 .. n - 1, buffer : [0 .. n - 1 -> S]]

(* Where an index leads, for two rounds. *)
RoundIndex(o, k, n) ==
  IF o + k < n THEN o + k ELSE IF o + k < 2 * n THEN o + k - n ELSE o + k - 2 * n

LEMMA RingIndexOf ==
  ASSUME NEW n \in Nat \ {0}, NEW S, NEW r, IsRing(r, n, S), NEW k \in 0 .. 2 * n - 1
  PROVE  RingIndex(r, k) = RoundIndex(r.offset, k, n)
<1>1. r.offset \in 0 .. n - 1 /\ r.size = n
  BY DEF IsRing
<1>2. PICK a : a = r.offset + k
  OBVIOUS
<1>3. a % n = IF a < n THEN a ELSE IF a < 2 * n THEN a - n ELSE a - 2 * n
  <2>1. a \in 0 .. 3 * n - 1
    BY <1>1, <1>2
  <2>2. CASE a < n
    BY <2>1, <2>2, ModSmall
  <2>3. CASE a >= n /\ a < 2 * n
    <3>1. a \in n .. 2 * n - 1
      BY <2>1, <2>3
    <3>2. a % n = a - n
      BY <3>1, ModOnce, Zenon
    <3> QED
      BY <2>1, <2>3, <3>2
  <2>4. CASE a >= 2 * n
    <3>1. a \in 2 * n .. 3 * n - 1
      BY <2>1, <2>4
    <3>2. a % n = a - 2 * n
      BY <3>1, ModTwice, Zenon
    <3> QED
      BY <2>1, <2>4, <3>2
  <2> QED
    BY <2>1, <2>2, <2>3, <2>4
<1> QED
  <2>1. RingIndex(r, k) = a % n
    BY <1>1, <1>2, Zenon DEF RingIndex
  <2>2. RoundIndex(r.offset, k, n) = IF a < n THEN a ELSE IF a < 2 * n THEN a - n ELSE a - 2 * n
    BY ONLY <1>1, <1>2, n \in Nat \ {0}, k \in 0 .. 2 * n - 1 DEF RoundIndex
  <2> QED
    BY <1>3, <2>1, <2>2

LEMMA RingAtType ==
  ASSUME NEW n \in Nat \ {0}, NEW S, NEW r, IsRing(r, n, S), NEW k \in 0 .. 2 * n - 1
  PROVE  RingAt(r, k) \in S
<1>1. RingIndex(r, k) \in 0 .. n - 1
  <2>1. RingIndex(r, k) = RoundIndex(r.offset, k, n)
    BY RingIndexOf
  <2>2. r.offset \in 0 .. n - 1
    BY DEF IsRing
  <2> QED
    BY <2>1, <2>2 DEF RoundIndex
<1> QED
  BY <1>1 DEF IsRing, RingAt

(* An index is good for a second round. *)
LEMMA RingAround ==
  ASSUME NEW n \in Nat \ {0}, NEW S, NEW r, IsRing(r, n, S), NEW k \in 0 .. n - 1
  PROVE  RingAt(r, k + n) = RingAt(r, k)
<1>1. k + n \in 0 .. 2 * n - 1 /\ k \in 0 .. 2 * n - 1
  OBVIOUS
<1>2. r.offset \in 0 .. n - 1
  BY DEF IsRing
<1>3. RoundIndex(r.offset, k + n, n) = RoundIndex(r.offset, k, n)
  BY <1>2 DEF RoundIndex
<1> QED
  BY <1>1, <1>3, RingIndexOf DEF RingAt

LEMMA NewRing ==
  ASSUME NEW n \in Nat \ {0}, NEW S, 0 \in S
  PROVE  IsRing(Ring(n), n, S) /\ \A k \in 0 .. 2 * n - 1 : RingAt(Ring(n), k) = 0
<1>1. IsRing(Ring(n), n, S) /\ Ring(n).offset = 0
  BY DEF IsRing, Ring
<1>2. ASSUME NEW k \in 0 .. 2 * n - 1
      PROVE  RingAt(Ring(n), k) = 0
  <2>1. RingIndex(Ring(n), k) \in 0 .. n - 1
    BY <1>1, RingIndexOf DEF RoundIndex
  <2>2. Ring(n).buffer = [i \in 0 .. n - 1 |-> 0]
    BY DEF Ring
  <2> QED
    BY <2>1, <2>2 DEF RingAt
<1> QED
  BY <1>1, <1>2

(* A push forgets the oldest byte, and the others are one further back.    *)
LEMMA RingPushed ==
  ASSUME NEW n \in Nat \ {0}, NEW S, NEW r, IsRing(r, n, S), NEW byte \in S
  PROVE  /\ IsRing(RingPush(r, byte), n, S)
         /\ RingAt(RingPush(r, byte), n - 1) = byte
         /\ \A k \in 0 .. n - 2 : RingAt(RingPush(r, byte), k) = RingAt(r, k + 1)
<1>1. PICK o : o = r.offset
  OBVIOUS
<1>2. PICK o1 : o1 = IF o = n - 1 THEN 0 ELSE o + 1
  OBVIOUS
<1>3. PICK p : p = RingPush(r, byte)
  OBVIOUS
<1>4. o \in 0 .. n - 1 /\ r.size = n /\ r.buffer \in [0 .. n - 1 -> S] /\ o1 \in 0 .. n - 1
  BY <1>1, <1>2 DEF IsRing
<1>5. RingIndex(r, 1) = o1
  BY <1>1, <1>2, <1>4, RingIndexOf DEF RoundIndex
<1>6. p = [size |-> n, offset |-> o1, buffer |-> [r.buffer EXCEPT ![o] = byte]]
  BY <1>1, <1>3, <1>4, <1>5 DEF IsRing, RingPush
<1>7. IsRing(p, n, S) /\ p.offset = o1 /\ p.buffer = [r.buffer EXCEPT ![o] = byte]
  BY <1>4, <1>6 DEF IsRing
<1>8. RingAt(p, n - 1) = byte
  <2>1. RingIndex(p, n - 1) = RoundIndex(o1, n - 1, n)
    BY <1>7, RingIndexOf
  <2>2. RoundIndex(o1, n - 1, n) = o
    BY <1>2, <1>4 DEF RoundIndex
  <2> QED
    BY <1>4, <1>7, <2>1, <2>2 DEF RingAt
<1>9. ASSUME NEW k \in 0 .. n - 2
      PROVE  RingAt(p, k) = RingAt(r, k + 1)
  <2>1. RingIndex(p, k) = RoundIndex(o1, k, n)
    BY <1>7, RingIndexOf
  <2>2. RingIndex(r, k + 1) = RoundIndex(o, k + 1, n)
    BY <1>1, RingIndexOf
  <2>3. /\ RoundIndex(o1, k, n) = RoundIndex(o, k + 1, n)
        /\ RoundIndex(o1, k, n) \in 0 .. n - 1
        /\ RoundIndex(o1, k, n) # o
    BY <1>2, <1>4 DEF RoundIndex
  <2> QED
    BY <1>4, <1>7, <2>1, <2>2, <2>3 DEF RingAt
<1> QED
  BY <1>3, <1>7, <1>8, <1>9

-----------------------------------------------------------------------------
(* What a ring remembers of the text: its first p bytes, zeros before.     *)

Before(p) == IF p > 0 THEN text[p] ELSE 0

Remembers(r, n, p) == \A k \in 0 .. n - 1 : RingAt(r, n - 1 - k) = Before(p - k)

LEMMA RemembersNothing ==
  ASSUME NEW n \in Nat \ {0}
  PROVE  Remembers(Ring(n), n, 0)
<1>1. \A k \in 0 .. n - 1 : n - 1 - k \in 0 .. 2 * n - 1 /\ ~(0 - k > 0)
  OBVIOUS
<1>2. \A k \in 0 .. 2 * n - 1 : RingAt(Ring(n), k) = 0
  BY NewRing
<1> QED
  BY <1>1, <1>2 DEF Remembers, Before

LEMMA RemembersNext ==
  ASSUME NEW n \in Nat \ {0}, NEW S, NEW r, IsRing(r, n, S), NEW p \in Nat,
         Remembers(r, n, p), text[p + 1] \in S
  PROVE  Remembers(RingPush(r, text[p + 1]), n, p + 1)
<1> DEFINE q == RingPush(r, text[p + 1])
<1>1. RingAt(q, n - 1) = text[p + 1]
      /\ \A k \in 0 .. n - 2 : RingAt(q, k) = RingAt(r, k + 1)
  BY RingPushed
<1> HIDE DEF q
<1>2. ASSUME NEW k \in 0 .. n - 1
      PROVE  RingAt(q, n - 1 - k) = Before((p + 1) - k)
  <2>1. CASE k = 0
    <3>1. n - 1 - k = n - 1 /\ (p + 1) - k = p + 1 /\ p + 1 > 0
      BY <2>1
    <3> QED
      BY <1>1, <3>1 DEF Before
  <2>2. CASE k # 0
    <3>1. n - 1 - k \in 0 .. n - 2 /\ (n - 1 - k) + 1 = n - 1 - (k - 1)
          /\ (p + 1) - k = p - (k - 1) /\ k - 1 \in 0 .. n - 1
      BY <2>2
    <3>2. RingAt(q, n - 1 - k) = RingAt(r, n - 1 - (k - 1))
      BY <1>1, <3>1
    <3>3. RingAt(r, n - 1 - (k - 1)) = Before(p - (k - 1))
      BY <3>1 DEF Remembers
    <3> QED
      BY <3>1, <3>2, <3>3
  <2> QED
    BY <2>1, <2>2
<1> QED
  BY <1>2 DEF Remembers, q

-----------------------------------------------------------------------------
(* The queue. *)

(* The m bytes of the text after position p repeat those d bytes back.     *)
Copies(p, m, d) ==
  /\ p + m <= Len(text)
  /\ \A j \in 1 .. m : text[p + j] = Before(p + j - d)

(* at says for every place of a queue q that begins a literal or a match   *)
(* which position of the text it continues from; it is -1 at the second    *)
(* byte of a match.                                                        *)
LiteralAt(q, at, k) ==
  /\ q[k] % 2 = 0
  /\ at[k] < Len(text)
  /\ text[at[k] + 1] = q[k] \div 2
  /\ at[k + 1] = at[k] + 1

MatchAt(q, at, k) ==
  /\ q[k] % 2 = 1
  /\ k < Len(q)
  /\ q[k + 1] \in 0 .. Window - 1
  /\ Copies(at[k], q[k] \div 2 + 1, q[k + 1] + 1)
  /\ at[k + 1] = -1
  /\ at[k + 2] = at[k] + q[k] \div 2 + 1

Item(q, at, k) == LiteralAt(q, at, k) \/ MatchAt(q, at, k)

Reads(q, at) ==
  /\ q \in Seq(Nat)
  /\ at \in [1 .. Len(q) + 1 -> Int]
  /\ \A k \in 1 .. Len(q) : at[k] >= 0 => Item(q, at, k)

(* A queue carries the text from position p to position e. *)
Carries(q, p, e) ==
  \E at : Reads(q, at) /\ at[1] = p /\ at[Len(q) + 1] = e

(* What begins at place k of one queue begins at place j of another. *)
Agree(q, at, k, r, to, j) ==
  /\ r[j] = q[k] /\ to[j] = at[k] /\ to[j + 1] = at[k + 1]
  /\ k < Len(q) => j < Len(r) /\ r[j + 1] = q[k + 1] /\ to[j + 2] = at[k + 2]

LEMMA SameItem ==
  ASSUME NEW q, NEW at, NEW k, NEW r, NEW to, NEW j, Agree(q, at, k, r, to, j), Item(q, at, k)
  PROVE  Item(r, to, j)
<1>1. CASE LiteralAt(q, at, k)
  BY <1>1, Zenon DEF Agree, Item, LiteralAt
<1>2. CASE MatchAt(q, at, k)
  BY <1>2, Zenon DEF Agree, Item, MatchAt
<1> QED
  BY <1>1, <1>2 DEF Item

LEMMA CarriesNothing ==
  ASSUME NEW p \in Nat
  PROVE  Carries(<<>>, p, p)
<1>1. Reads(<<>>, [k \in 1 .. 1 |-> p]) /\ [k \in 1 .. 1 |-> p][1] = p
  BY DEF Reads
<1> QED
  BY <1>1 DEF Carries

(* A row of places that begins as another, with one more item.             *)
LEMMA CarriesMore ==
  ASSUME NEW q, NEW p \in Nat, NEW e \in Nat, Carries(q, p, e), NEW r \in Seq(Nat),
         NEW more \in Nat, Len(r) = Len(q) + more,
         \A k \in 1 .. Len(q) : r[k] = q[k],
         NEW after \in [1 .. more -> Int],
         \A at : /\ at \in [1 .. Len(r) + 1 -> Int]
                 /\ at[Len(q) + 1] = e
                 /\ \A k \in 1 .. more : at[Len(q) + 1 + k] = after[k]
                 => \A k \in Len(q) + 1 .. Len(r) : at[k] >= 0 => Item(r, at, k)
  PROVE  Carries(r, p, IF more = 0 THEN e ELSE after[more])
<1>1. PICK at : Reads(q, at) /\ at[1] = p /\ at[Len(q) + 1] = e
  BY DEF Carries
<1>2. PICK n : n = Len(q)
  OBVIOUS
<1>3. q \in Seq(Nat) /\ n \in Nat /\ at \in [1 .. n + 1 -> Int]
  BY <1>1, <1>2 DEF Reads
<1>4. PICK to : to = [k \in 1 .. n + 1 + more |-> IF k > n + 1 THEN after[k - (n + 1)] ELSE at[k]]
  OBVIOUS
<1>5. ASSUME NEW k \in 1 .. more
      PROVE  to[n + 1 + k] = after[k]
  <2>1. n + 1 + k \in 1 .. n + 1 + more /\ n + 1 + k > n + 1 /\ (n + 1 + k) - (n + 1) = k
    BY <1>3
  <2> QED
    BY <1>4, <2>1
<1>6. ASSUME NEW k \in 1 .. n + 1
      PROVE  to[k] = at[k]
  BY <1>3, <1>4
<1>7. to \in [1 .. n + 1 + more -> Int]
  <2>1. ASSUME NEW k \in 1 .. n + 1 + more
        PROVE  (IF k > n + 1 THEN after[k - (n + 1)] ELSE at[k]) \in Int
    <3>1. CASE k > n + 1
      <4>1. k - (n + 1) \in 1 .. more
        BY <1>3, <3>1
      <4> QED
        BY <3>1, <4>1
    <3>2. CASE ~(k > n + 1)
      <4>1. k \in 1 .. n + 1
        BY <1>3, <3>2
      <4> QED
        BY <1>3, <3>2, <4>1
    <3> QED
      BY <3>1, <3>2
  <2> QED
    BY <1>4, <2>1
<1>8. ASSUME NEW k \in 1 .. n, to[k] >= 0
      PROVE  Item(r, to, k)
  <2>1. k \in 1 .. n + 1 /\ k + 1 \in 1 .. n + 1 /\ (k < n => k + 1 \in 1 .. n /\ k + 2 \in 1 .. n + 1)
    BY <1>3
  <2>2. Item(q, at, k)
    <3>1. at[k] >= 0
      BY <1>6, <1>8, <2>1
    <3> QED
      BY <1>1, <1>2, <3>1 DEF Reads
  <2>3. Agree(q, at, k, r, to, k)
    <3>1. to[k] = at[k] /\ to[k + 1] = at[k + 1] /\ (k < n => to[k + 2] = at[k + 2])
      BY ONLY <1>3, <1>6, <2>1, k \in 1 .. n
    <3>2. r[k] = q[k] /\ (k < n => r[k + 1] = q[k + 1] /\ k < Len(r))
      BY <1>2, <1>3, <2>1
    <3> QED
      BY ONLY <1>2, <3>1, <3>2 DEF Agree
  <2> QED
    BY <2>2, <2>3, SameItem
<1>9. \A k \in n + 1 .. Len(r) : to[k] >= 0 => Item(r, to, k)
  <2>1. Len(r) + 1 = n + 1 + more
    BY <1>2, <1>3
  <2>2. to \in [1 .. Len(r) + 1 -> Int]
    BY <1>7, <2>1
  <2>3. to[n + 1] = e
    BY <1>1, <1>2, <1>3, <1>6
  <2> QED
    BY <1>2, <1>5, <2>2, <2>3
<1>10. Reads(r, to)
  <2>1. \A k \in 1 .. Len(r) : k \in 1 .. n \/ k \in n + 1 .. Len(r)
    BY <1>3
  <2>2. Len(r) + 1 = n + 1 + more
    BY <1>2, <1>3
  <2> QED
    BY <1>7, <1>8, <1>9, <2>1, <2>2 DEF Reads
<1>11. to[1] = p
  BY <1>1, <1>3, <1>6
<1>12. to[Len(r) + 1] = IF more = 0 THEN e ELSE after[more]
  <2>1. CASE more = 0
    BY <1>1, <1>2, <1>3, <1>6, <2>1
  <2>2. CASE more # 0
    <3>1. more \in 1 .. more /\ Len(r) + 1 = n + 1 + more
      BY ONLY <1>2, <1>3, <2>2, more \in Nat, Len(r) = Len(q) + more
    <3> QED
      BY <1>5, <2>2, <3>1
  <2> QED
    BY <2>1, <2>2
<1> QED
  BY <1>10, <1>11, <1>12 DEF Carries

LEMMA CarriesLiteral ==
  ASSUME NEW q \in Seq(Nat), NEW p \in Nat, NEW e \in Nat, Carries(q, p, e), e < Len(text),
         NEW x \in Nat, x % 2 = 0, text[e + 1] = x \div 2
  PROVE  Carries(Append(q, x), p, e + 1)
<1>1. PICK r : r = Append(q, x)
  OBVIOUS
<1>2. PICK after : after = [k \in 1 .. 1 |-> e + 1]
  OBVIOUS
<1>3. /\ r \in Seq(Nat) /\ Len(r) = Len(q) + 1 /\ r[Len(q) + 1] = x
      /\ \A k \in 1 .. Len(q) : r[k] = q[k]
  BY <1>1
<1>4. after \in [1 .. 1 -> Int] /\ after[1] = e + 1
  BY <1>2
<1>5. ASSUME NEW at \in [1 .. Len(r) + 1 -> Int], at[Len(q) + 1] = e,
             \A k \in 1 .. 1 : at[Len(q) + 1 + k] = after[k],
             NEW k \in Len(q) + 1 .. Len(r)
      PROVE  Item(r, at, k)
  <2>1. k = Len(q) + 1
    BY <1>3
  <2>2. at[k] = e /\ at[k + 1] = e + 1 /\ r[k] = x
    BY <1>3, <1>4, <1>5, <2>1
  <2> QED
    BY <2>2 DEF Item, LiteralAt
<1>6. Carries(r, p, IF 1 = 0 THEN e ELSE after[1])
  BY <1>3, <1>4, <1>5, CarriesMore
<1> QED
  BY <1>1, <1>4, <1>6

LEMMA CarriesMatch ==
  ASSUME NEW q \in Seq(Nat), NEW p \in Nat, NEW e \in Nat, Carries(q, p, e),
         NEW x \in Nat, x % 2 = 1, NEW y \in 0 .. Window - 1, Copies(e, x \div 2 + 1, y + 1)
  PROVE  Carries(q \o <<x, y>>, p, e + x \div 2 + 1)
<1>1. PICK r : r = q \o <<x, y>>
  OBVIOUS
<1>2. PICK end : end = e + x \div 2 + 1
  OBVIOUS
<1>3. PICK after : after = [k \in 1 .. 2 |-> IF k = 1 THEN -1 ELSE end]
  OBVIOUS
<1>4. y \in Nat /\ end \in Nat
  BY <1>2, LzssAssumption
<1>5. /\ r \in Seq(Nat) /\ Len(r) = Len(q) + 2 /\ r[Len(q) + 1] = x /\ r[Len(q) + 2] = y
      /\ \A k \in 1 .. Len(q) : r[k] = q[k]
  BY <1>1, <1>4
<1>6. after \in [1 .. 2 -> Int] /\ after[1] = -1 /\ after[2] = end
  BY <1>3, <1>4
<1>7. ASSUME NEW at \in [1 .. Len(r) + 1 -> Int], at[Len(q) + 1] = e,
             \A k \in 1 .. 2 : at[Len(q) + 1 + k] = after[k],
             NEW k \in Len(q) + 1 .. Len(r), at[k] >= 0
      PROVE  Item(r, at, k)
  <2>1. at[Len(q) + 1 + 1] = -1 /\ at[Len(q) + 1 + 2] = end
    BY <1>6, <1>7
  <2>2. k = Len(q) + 1
    <3>1. Len(q) \in Nat /\ (k = Len(q) + 1 \/ k = Len(q) + 1 + 1)
      <4>1. Len(q) \in Nat /\ Len(r) = Len(q) + 2
        BY <1>5
      <4> QED
        BY ONLY <4>1, k \in Len(q) + 1 .. Len(r)
    <3> QED
      BY ONLY <1>7, <2>1, <3>1
  <2>3. at[k] = e /\ at[k + 1] = -1 /\ at[k + 2] = end /\ r[k] = x /\ r[k + 1] = y /\ k < Len(r)
    BY <1>5, <1>7, <2>1, <2>2
  <2> QED
    BY <1>2, <2>3 DEF Item, MatchAt
<1>8. Carries(r, p, IF 2 = 0 THEN e ELSE after[2])
  BY <1>5, <1>6, <1>7, CarriesMore
<1> QED
  BY <1>1, <1>2, <1>6, <1>8

(* A row without its first n bytes. *)
LEMMA CarriesRest ==
  ASSUME NEW q, NEW at, Reads(q, at), NEW n \in 1 .. Len(q), NEW r \in Seq(Nat),
         Len(r) = Len(q) - n, \A k \in 1 .. Len(r) : r[k] = q[k + n]
  PROVE  Carries(r, at[n + 1], at[Len(q) + 1])
<1>1. PICK m : m = Len(q)
  OBVIOUS
<1>2. PICK to : to = [k \in 1 .. m - n + 1 |-> at[k + n]]
  OBVIOUS
<1>3. q \in Seq(Nat) /\ m \in Nat /\ at \in [1 .. m + 1 -> Int] /\ n \in 1 .. m /\ Len(r) = m - n
  BY <1>1 DEF Reads
<1>4. /\ to \in [1 .. m - n + 1 -> Int]
      /\ \A k \in 1 .. m - n + 1 : to[k] = at[k + n]
  <2>1. \A k \in 1 .. m - n + 1 : k + n \in 1 .. m + 1
    BY ONLY <1>3
  <2> QED
    BY <1>2, <1>3, <2>1
<1>5. ASSUME NEW k \in 1 .. m - n, to[k] >= 0
      PROVE  Item(r, to, k)
  <2>1. /\ k + n \in 1 .. m /\ k \in 1 .. m - n + 1 /\ k + 1 \in 1 .. m - n + 1
        /\ k + n < m => k + 1 \in 1 .. m - n /\ k < m - n /\ k + 2 \in 1 .. m - n + 1
        /\ (k + 1) + n = (k + n) + 1 /\ (k + 2) + n = (k + n) + 2
    BY ONLY <1>3, k \in 1 .. m - n
  <2>2. Item(q, at, k + n)
    <3>1. at[k + n] >= 0
      BY <1>4, <1>5, <2>1
    <3> QED
      BY <1>1, <2>1, <3>1 DEF Reads
  <2>3. to[k] = at[k + n] /\ to[k + 1] = at[(k + n) + 1]
        /\ (k + n < m => to[k + 2] = at[(k + n) + 2])
    BY ONLY <1>4, <2>1
  <2>4. r[k] = q[k + n] /\ (k + n < m => r[k + 1] = q[(k + n) + 1])
    <3>1. \A j \in 1 .. m - n : r[j] = q[j + n]
      BY <1>3
    <3>2. (k + 1) + n = (k + n) + 1
      BY <2>1
    <3> QED
      BY ONLY <2>1, <3>1, <3>2, k \in 1 .. m - n
  <2>5. Agree(q, at, k + n, r, to, k)
    BY ONLY <1>1, <1>3, <2>1, <2>3, <2>4 DEF Agree
  <2> QED
    BY <2>2, <2>5, SameItem
<1>6. Reads(r, to)
  BY <1>3, <1>4, <1>5 DEF Reads
<1>7. to[1] = at[n + 1] /\ to[Len(r) + 1] = at[m + 1]
  <2>1. 1 \in 1 .. m - n + 1 /\ Len(r) + 1 \in 1 .. m - n + 1 /\ 1 + n = n + 1
        /\ Len(r) + 1 + n = m + 1
    BY ONLY <1>3
  <2> QED
    BY ONLY <1>4, <2>1
<1> QED
  BY <1>1, <1>6, <1>7 DEF Carries

LEMMA TailFacts ==
  ASSUME NEW s \in Seq(Nat), s # <<>>
  PROVE  /\ Tail(s) \in Seq(Nat) /\ Len(Tail(s)) = Len(s) - 1
         /\ \A k \in 1 .. Len(Tail(s)) : Tail(s)[k] = s[k + 1]
OBVIOUS

LEMMA TailOfConcat ==
  ASSUME NEW s \in Seq(Nat), NEW t \in Seq(Nat), s # <<>>
  PROVE  Tail(s) \o t = Tail(s \o t)
OBVIOUS

LEMMA TailOfTwo ==
  ASSUME NEW s \in Seq(Nat), Len(s) >= 2
  PROVE  s # <<>> /\ Tail(s) \in Seq(Nat) /\ Tail(s) # <<>> /\ Tail(Tail(s)) \in Seq(Nat)
<1>1. s # <<>>
  OBVIOUS
<1>2. Tail(s) \in Seq(Nat) /\ Len(Tail(s)) = Len(s) - 1
  BY <1>1, TailFacts
<1>3. Len(Tail(s)) # 0
  BY <1>2
<1>4. Tail(s) # <<>>
  BY <1>2, <1>3, EmptySeq, Zenon
<1> QED
  BY <1>1, <1>2, <1>4, TailFacts, Zenon

LEMMA TakesLiteral ==
  ASSUME NEW c \in Seq(Nat), NEW rest \in Seq(Nat), NEW p \in Nat, NEW e,
         Carries(c \o rest, p, e), c # <<>>, Head(c) % 2 = 0
  PROVE  /\ p < Len(text) /\ text[p + 1] = Head(c) \div 2
         /\ Carries(Tail(c) \o rest, p + 1, e)
<1>1. PICK q : q = c \o rest
  OBVIOUS
<1>2. PICK at : Reads(q, at) /\ at[1] = p /\ at[Len(q) + 1] = e
  BY <1>1 DEF Carries
<1>3. q \in Seq(Nat) /\ 1 \in 1 .. Len(q) /\ q[1] = Head(c)
  BY <1>1
<1>4. LiteralAt(q, at, 1)
  <2>1. Item(q, at, 1)
    BY <1>2, <1>3 DEF Reads
  <2>2. q[1] % 2 # 1
    BY <1>3
  <2> QED
    BY ONLY <2>1, <2>2 DEF Item, MatchAt
<1>5. PICK r : r = Tail(c) \o rest
  OBVIOUS
<1>6. r \in Seq(Nat) /\ Len(r) = Len(q) - 1 /\ \A k \in 1 .. Len(r) : r[k] = q[k + 1]
  BY <1>1, <1>5
<1>7. Carries(r, at[1 + 1], at[Len(q) + 1])
  BY <1>2, <1>3, <1>6, CarriesRest
<1> QED
  BY <1>2, <1>3, <1>4, <1>5, <1>7 DEF LiteralAt

LEMMA TakesMatch ==
  ASSUME NEW c \in Seq(Nat), NEW rest \in Seq(Nat), NEW p \in Nat, NEW e,
         Carries(c \o rest, p, e), Len(c) >= 2, Head(c) % 2 = 1
  PROVE  /\ c[2] \in 0 .. Window - 1
         /\ Copies(p, Head(c) \div 2 + 1, c[2] + 1)
         /\ Carries(Tail(Tail(c)) \o rest, p + Head(c) \div 2 + 1, e)
<1>1. PICK q : q = c \o rest
  OBVIOUS
<1>2. PICK at : Reads(q, at) /\ at[1] = p /\ at[Len(q) + 1] = e
  BY <1>1 DEF Carries
<1>3. q \in Seq(Nat) /\ 1 \in 1 .. Len(q) /\ 2 \in 1 .. Len(q) /\ q[1] = Head(c) /\ q[2] = c[2]
  BY <1>1
<1>4. MatchAt(q, at, 1)
  <2>1. Item(q, at, 1)
    BY <1>2, <1>3 DEF Reads
  <2>2. q[1] % 2 # 0
    BY <1>3
  <2> QED
    BY ONLY <2>1, <2>2 DEF Item, LiteralAt
<1>5. PICK r : r = Tail(Tail(c)) \o rest
  OBVIOUS
<1>6. r \in Seq(Nat) /\ Len(r) = Len(q) - 2 /\ \A k \in 1 .. Len(r) : r[k] = q[k + 2]
  <2>1. PICK t : t = Tail(q)
    OBVIOUS
  <2>2. c # <<>> /\ Tail(c) \in Seq(Nat) /\ Tail(c) # <<>>
    BY TailOfTwo
  <2>3. Tail(c) \in Seq(Nat) /\ Tail(c) # <<>> /\ t = Tail(c) \o rest
    <3>1. Tail(c) \o rest = Tail(c \o rest)
      BY <2>2, TailOfConcat, Zenon
    <3> QED
      BY <1>1, <2>1, <2>2, <3>1, Zenon
  <2>4. r = Tail(t)
    <3>1. Tail(Tail(c)) \o rest = Tail(Tail(c) \o rest)
      BY <2>3, TailOfConcat, Zenon
    <3> QED
      BY <1>5, <2>3, <3>1
  <2>5. t \in Seq(Nat) /\ Len(t) = Len(q) - 1 /\ \A k \in 1 .. Len(t) : t[k] = q[k + 1]
    BY <1>3, <2>1, TailFacts
  <2>6. r \in Seq(Nat) /\ Len(r) = Len(t) - 1 /\ \A k \in 1 .. Len(r) : r[k] = t[k + 1]
    <3>1. Len(q) >= 2 /\ t # <<>>
      BY ONLY <1>3, <2>5
    <3> QED
      BY ONLY <2>4, <2>5, <3>1, TailFacts
  <2>7. Len(q) \in Nat /\ Len(r) = Len(q) - 2
    BY ONLY <1>3, <2>5, <2>6
  <2>8. \A k \in 1 .. Len(r) : k + 1 \in 1 .. Len(t) /\ (k + 1) + 1 = k + 2
    BY ONLY <2>5, <2>6, <2>7
  <2> QED
    BY ONLY <2>5, <2>6, <2>7, <2>8
<1>7. Carries(r, at[2 + 1], at[Len(q) + 1])
  BY <1>2, <1>3, <1>6, CarriesRest
<1> QED
  BY <1>2, <1>3, <1>4, <1>5, <1>7 DEF MatchAt

-----------------------------------------------------------------------------
(* The decompressor.  rest is what will be in the queue after the bytes    *)
(* that are, e the position of the text at the end of all of them.         *)

Decompressed(rest, e) ==
  /\ text \in Seq(Byte)
  /\ output \in Seq(Byte) /\ Len(output) <= Len(text)
  /\ \A k \in 1 .. Len(output) : output[k] = text[k]
  /\ length \in Nat /\ offset \in 0 .. Window - 1
  /\ Copies(Len(output), length, offset + 1)
  /\ IsRing(window, Window, Byte)
  /\ Remembers(window, Window, Len(output))
  /\ compressed \in Seq(Nat)
  /\ Carries(compressed \o rest, Len(output) + length, e)

LEMMA CopiesLess ==
  ASSUME NEW p \in Nat, NEW m \in Nat \ {0}, NEW d \in Nat, Copies(p, m, d), text \in Seq(Byte)
  PROVE  /\ p < Len(text)
         /\ text[p + 1] = Before(p + 1 - d)
         /\ Copies(p + 1, m - 1, d)
<1>1. p < Len(text) /\ text[p + 1] = Before(p + 1 - d) /\ (p + 1) + (m - 1) <= Len(text)
  BY DEF Copies
<1>2. ASSUME NEW j \in 1 .. m - 1
      PROVE  text[(p + 1) + j] = Before((p + 1) + j - d)
  <2>1. j + 1 \in 1 .. m /\ p + (j + 1) = (p + 1) + j
    OBVIOUS
  <2>2. text[p + (j + 1)] = Before(p + (j + 1) - d)
    BY <2>1 DEF Copies
  <2> QED
    BY <2>1, <2>2
<1> QED
  BY <1>1, <1>2 DEF Copies

(* A byte of a match is the byte of the text.                              *)
LEMMA CopiedByte ==
  ASSUME IsRing(window, Window, Byte), Remembers(window, Window, Len(output)),
         output \in Seq(Byte), text \in Seq(Byte),
         NEW d \in 0 .. Window - 1, NEW m \in Nat \ {0}, Copies(Len(output), m, d + 1)
  PROVE  RingAt(window, Window - 1 - d) = text[Len(output) + 1]
<1>1. RingAt(window, Window - 1 - d) = Before(Len(output) - d)
  BY DEF Remembers
<1>2. Len(output) \in Nat /\ d \in Nat /\ Len(output) + 1 - (d + 1) = Len(output) - d
  BY LzssAssumption
<1>3. text[Len(output) + 1] = Before(Len(output) + 1 - (d + 1))
  BY <1>2, CopiesLess
<1> QED
  BY <1>1, <1>2, <1>3

(* The next byte of the text is returned.                                  *)
LEMMA ReturnNext ==
  ASSUME NEW rest, NEW e, Decompressed(rest, e), UNCHANGED text,
         Len(output) < Len(text), Return(text[Len(output) + 1])
  PROVE  /\ text' \in Seq(Byte)
         /\ output' \in Seq(Byte) /\ Len(output') = Len(output) + 1 /\ Len(output') <= Len(text')
         /\ \A k \in 1 .. Len(output') : output'[k] = text'[k]
         /\ IsRing(window', Window, Byte)
         /\ Remembers(window, Window, Len(output))'
         /\ Delivery!Deliver
<1>1. text \in Seq(Byte) /\ output \in Seq(Byte) /\ Len(output) + 1 \in 1 .. Len(text)
  BY DEF Decompressed
<1>2. PICK x \in Byte : x = text[Len(output) + 1]
  BY <1>1
<1>3. output' = Append(output, x)
  BY <1>2 DEF Return
<1>4. output' \in Seq(Byte) /\ Len(output') = Len(output) + 1 /\ Len(output') <= Len(text')
  BY <1>1, <1>3
<1>5. \A k \in 1 .. Len(output') : output'[k] = text'[k]
  <2>1. \A k \in 1 .. Len(output) : output[k] = text[k]
    BY DEF Decompressed
  <2>2. ASSUME NEW k \in 1 .. Len(output) + 1
        PROVE  output'[k] = text[k]
    <3>1. CASE k = Len(output) + 1
      BY <1>1, <1>2, <1>3, <3>1
    <3>2. CASE k # Len(output) + 1
      BY <1>1, <1>3, <2>1, <3>2
    <3> QED
      BY <3>1, <3>2
  <2> QED
    BY <1>4, <2>2
<1>6. Window \in Nat \ {0} /\ IsRing(window, Window, Byte) /\ Remembers(window, Window, Len(output))
  BY LzssAssumption DEF Decompressed
<1>7. window' = RingPush(window, text[Len(output) + 1])
  BY DEF Return
<1>8. IsRing(window', Window, Byte)
  BY <1>2, <1>6, <1>7, RingPushed
<1>9. Remembers(window', Window, Len(output) + 1)
  BY <1>1, <1>2, <1>6, <1>7, RemembersNext
<1>10. Remembers(window, Window, Len(output))'
  BY <1>4, <1>9 DEF Remembers, Before
<1>11. Delivery!Deliver
  BY <1>2, <1>3 DEF Delivery!Deliver
<1> QED
  BY <1>1, <1>4, <1>5, <1>8, <1>10, <1>11

(* What is said of the text stays true of it.                              *)
LEMMA SameText ==
  ASSUME UNCHANGED text, NEW q, NEW p, NEW e
  PROVE  /\ Copies(p, q, e) => Copies(p, q, e)'
         /\ Carries(q, p, e) => Carries(q, p, e)'
<1>1. ASSUME NEW a, NEW b, NEW c
      PROVE  Copies(a, b, c) <=> Copies(a, b, c)'
  BY Zenon DEF Copies, Before
<1>2. ASSUME NEW at, NEW k
      PROVE  Item(q, at, k) <=> Item(q, at, k)'
  BY <1>1, Zenon DEF Item, LiteralAt, MatchAt
<1>3. ASSUME NEW at
      PROVE  Reads(q, at) <=> Reads(q, at)'
  BY <1>2, Zenon DEF Reads
<1> QED
  BY <1>1, <1>3, Zenon DEF Carries

(* The next byte of the text is returned, and what remains to be copied    *)
(* and to be read continues after it.                                      *)
LEMMA ReturnKeeps ==
  ASSUME NEW rest, NEW e, Decompressed(rest, e), UNCHANGED text,
         Len(output) < Len(text), Return(text[Len(output) + 1]),
         length' \in Nat, offset' \in 0 .. Window - 1, compressed' \in Seq(Nat),
         Copies(Len(output) + 1, length', offset' + 1),
         Carries(compressed' \o rest, Len(output) + 1 + length', e)
  PROVE  Decompressed(rest, e)' /\ Delivery!Deliver
<1>1. PICK n, l, o, q : n = Len(output') /\ l = length' /\ o = offset' /\ q = compressed' \o rest
  OBVIOUS
<1>2. n = Len(output) + 1
  BY <1>1, ReturnNext
<1>3. Copies(n, l, o + 1)' /\ Carries(q, n + l, e)'
  BY <1>1, <1>2, SameText, Zenon
<1>4. Copies(Len(output), length, offset + 1)' /\ Carries(compressed \o rest, Len(output) + length, e)'
  BY <1>1, <1>3
<1> QED
  BY <1>4, ReturnNext DEF Decompressed

LEMMA CopyNextStep ==
  ASSUME NEW rest, NEW e, Decompressed(rest, e), CopyNext
  PROVE  Decompressed(rest, e)' /\ Delivery!Deliver
<1>1. /\ text \in Seq(Byte) /\ output \in Seq(Byte) /\ length \in Nat /\ offset \in 0 .. Window - 1
      /\ IsRing(window, Window, Byte) /\ Remembers(window, Window, Len(output))
      /\ Copies(Len(output), length, offset + 1) /\ compressed \in Seq(Nat)
      /\ Carries(compressed \o rest, Len(output) + length, e)
  BY DEF Decompressed
<1>2. /\ length \in Nat \ {0} /\ Return(RingAt(window, Window - 1 - offset))
      /\ length' = length - 1 /\ text' = text /\ compressed' = compressed /\ offset' = offset
  BY <1>1 DEF CopyNext
<1>3. RingAt(window, Window - 1 - offset) = text[Len(output) + 1]
  BY <1>1, <1>2, CopiedByte
<1>4. Len(output) < Len(text) /\ Copies(Len(output) + 1, length - 1, offset + 1)
  <2>1. Len(output) \in Nat /\ offset + 1 \in Nat
    BY <1>1, LzssAssumption
  <2> QED
    BY <1>1, <1>2, <2>1, CopiesLess
<1>5. Len(output) + 1 + (length - 1) = Len(output) + length /\ length - 1 \in Nat
  BY <1>1, <1>2
<1> QED
  BY <1>1, <1>2, <1>3, <1>4, <1>5, ReturnKeeps

LEMMA ReadLiteralStep ==
  ASSUME NEW rest \in Seq(Nat), NEW e, Decompressed(rest, e), ReadLiteral
  PROVE  Decompressed(rest, e)' /\ Delivery!Deliver
<1>1. /\ text \in Seq(Byte) /\ output \in Seq(Byte) /\ offset \in 0 .. Window - 1
      /\ compressed \in Seq(Nat) /\ Carries(compressed \o rest, Len(output) + length, e)
  BY DEF Decompressed
<1>2. /\ length = 0 /\ compressed # <<>> /\ Head(compressed) % 2 = 0
      /\ Return(Head(compressed) \div 2) /\ compressed' = Tail(compressed)
      /\ text' = text /\ offset' = offset /\ length' = length
  BY DEF ReadLiteral
<1>3. Len(output) \in Nat /\ Len(output) + length = Len(output)
  BY <1>1, <1>2
<1>4. /\ Len(output) < Len(text) /\ text[Len(output) + 1] = Head(compressed) \div 2
      /\ Carries(Tail(compressed) \o rest, Len(output) + 1, e)
  BY <1>1, <1>2, <1>3, TakesLiteral
<1>5. Copies(Len(output) + 1, 0, offset + 1)
  BY <1>1, <1>4 DEF Copies
<1>6. Tail(compressed) \in Seq(Nat) /\ Len(output) + 1 + 0 = Len(output) + 1
  BY <1>1, <1>2, <1>3
<1> QED
  BY <1>1, <1>2, <1>4, <1>5, <1>6, ReturnKeeps

LEMMA ReadMatchStep ==
  ASSUME NEW rest \in Seq(Nat), NEW e, Decompressed(rest, e), ReadMatch
  PROVE  Decompressed(rest, e)' /\ Delivery!Deliver
<1>1. /\ text \in Seq(Byte) /\ output \in Seq(Byte)
      /\ IsRing(window, Window, Byte) /\ Remembers(window, Window, Len(output))
      /\ compressed \in Seq(Nat) /\ Carries(compressed \o rest, Len(output) + length, e)
  BY DEF Decompressed
<1>2. /\ length = 0 /\ Len(compressed) >= 2 /\ Head(compressed) % 2 = 1
      /\ Return(RingAt(window, Window - 1 - compressed[2]))
      /\ length' = Head(compressed) \div 2 /\ offset' = compressed[2]
      /\ compressed' = Tail(Tail(compressed)) /\ text' = text
  BY DEF ReadMatch
<1>3. Len(output) \in Nat /\ Len(output) + length = Len(output)
  BY <1>1, <1>2
<1>4. PICK m \in Nat, d \in {compressed[2]} : m = Head(compressed) \div 2 /\ d = compressed[2]
  BY <1>1, <1>2
<1>5. /\ d \in 0 .. Window - 1 /\ Copies(Len(output), m + 1, d + 1)
      /\ Carries(Tail(Tail(compressed)) \o rest, Len(output) + m + 1, e)
  BY <1>1, <1>2, <1>3, <1>4, TakesMatch
<1>6. RingAt(window, Window - 1 - d) = text[Len(output) + 1]
  BY <1>1, <1>5, CopiedByte
<1>7. Len(output) < Len(text) /\ Copies(Len(output) + 1, m, d + 1)
  <2>1. m + 1 \in Nat \ {0} /\ d + 1 \in Nat /\ (m + 1) - 1 = m
    BY <1>5, LzssAssumption
  <2> QED
    BY <1>1, <1>3, <1>5, <2>1, CopiesLess
<1>8. Tail(Tail(compressed)) \in Seq(Nat)
  BY <1>1, <1>2, TailOfTwo
<1>9. Len(output) + 1 + m = Len(output) + m + 1
  BY <1>3
<1> QED
  BY <1>2, <1>4, <1>5, <1>6, <1>7, <1>8, <1>9, ReturnKeeps

(* Whatever a compressor does, the decompressor returns the next byte of   *)
(* the text that the queue carries, and the queue goes on carrying it.     *)
LEMMA DecompressStep ==
  ASSUME NEW rest \in Seq(Nat), NEW e, Decompressed(rest, e), Decompress
  PROVE  Decompressed(rest, e)' /\ Delivery!Deliver /\ UNCHANGED text
<1>1. UNCHANGED text
  BY DEF Decompress, CopyNext, ReadLiteral, ReadMatch
<1> QED
  BY <1>1, CopyNextStep, ReadLiteralStep, ReadMatchStep DEF Decompress

LEMMA DecompressorStarts ==
  ASSUME DecompressorInit, text \in Seq(Byte), compressed = <<>>
  PROVE  Decompressed(<<>>, 0)
<1>1. Window \in Nat \ {0} /\ 0 \in Byte /\ 0 \in 0 .. Window - 1
  BY LzssAssumption
<1>2. IsRing(window, Window, Byte) /\ Remembers(window, Window, 0)
  BY <1>1, NewRing, RemembersNothing DEF DecompressorInit
<1>3. output = <<>> /\ length = 0 /\ offset = 0 /\ Len(output) = 0 /\ <<>> \o <<>> = <<>>
  BY DEF DecompressorInit
<1>4. Copies(0, 0, 1) /\ 0 + 0 = 0 /\ 0 + 1 = 1
  BY DEF Copies
<1>5. Carries(<<>>, 0, 0)
  BY CarriesNothing
<1>6. Copies(Len(output), length, offset + 1) /\ Carries(compressed \o <<>>, Len(output) + length, 0)
  BY <1>3, <1>4, <1>5
<1> QED
  BY <1>1, <1>2, <1>3, <1>6 DEF Decompressed

-----------------------------------------------------------------------------
(* The longest of something: a set of numbers with a bound has a greatest. *)

LEMMA GreatestOf ==
  ASSUME NEW n \in Nat, NEW S, S \subseteq 0 .. n, S # {}
  PROVE  \E x \in S : \A y \in S : x >= y
<1> DEFINE Less == {ss \in Nat \X Nat : ss[1] < ss[2]}
           T == {n - x : x \in S}
<1>1. IsWellFoundedOn(Less, Nat)
  BY NatLessThanWellFounded DEF OpToRel
<1>2. T \subseteq Nat /\ T # {}
  <2>1. \A x \in S : n - x \in Nat
    OBVIOUS
  <2> QED
    BY <2>1
<1>3. PICK least \in T : \A y \in T : <<y, least>> \notin Less
  <2> HIDE DEF Less, T
  <2> QED
    BY <1>1, <1>2, WFMin
<1>4. PICK x \in S : least = n - x
  BY <1>3
<1>5. ASSUME NEW y \in S
      PROVE  x >= y
  <2>1. n - y \in T /\ n - y \in Nat /\ n - x \in Nat
    BY <1>2
  <2>2. <<n - y, n - x>> \notin Less
    BY <1>3, <1>4, <2>1
  <2>3. ~(n - y < n - x)
    BY <2>1, <2>2
  <2> QED
    BY ONLY <2>3, n \in Nat, S \subseteq 0 .. n, x \in S, y \in S
<1> QED
  BY <1>5

LEMMA MaxOf ==
  ASSUME NEW n \in Nat, NEW S, S \subseteq 0 .. n, S # {}
  PROVE  Max(S) \in S /\ \A y \in S : Max(S) >= y
BY GreatestOf DEF Max

LEMMA MinOfTwo ==
  ASSUME NEW a \in Nat, NEW b \in Nat
  PROVE  Min({a, b}) = IF a <= b THEN a ELSE b
<1>1. PICK c : c = IF a <= b THEN a ELSE b
  OBVIOUS
<1>2. c \in {a, b} /\ \A y \in {a, b} : c <= y
  BY <1>1
<1>3. \A d \in {a, b} : (\A y \in {a, b} : d <= y) => d = c
  BY <1>1
<1> QED
  BY <1>1, <1>2, <1>3 DEF Min

-----------------------------------------------------------------------------
(* The compressor of the compiler.  Its list xs holds the text from c - b  *)
(* to c, which it has compressed, and a bytes ahead; i is the pointer.     *)

Holds(xs, i, b, a, c) ==
  /\ xs \in Seq(Byte) /\ b \in Nat /\ a \in Nat
  /\ Len(xs) = b + a
  /\ b <= Window /\ b <= c /\ c + a <= Len(text)
  /\ \A k \in 1 .. b + a : xs[k] = text[c - b + k]
  /\ i = IF a = 0 THEN 0 ELSE b + 1

StateOf(xs, i, b, a, ys) == [buffer |-> xs, current |-> i, back |-> b, ahead |-> a, bytes |-> ys]

LEMMA Fields ==
  ASSUME NEW xs, NEW i, NEW b, NEW a, NEW ys
  PROVE  /\ StateOf(xs, i, b, a, ys).buffer = xs
         /\ StateOf(xs, i, b, a, ys).current = i
         /\ StateOf(xs, i, b, a, ys).back = b
         /\ StateOf(xs, i, b, a, ys).ahead = a
         /\ StateOf(xs, i, b, a, ys).bytes = ys
         /\ \A z : [StateOf(xs, i, b, a, ys) EXCEPT !.buffer = z] = StateOf(z, i, b, a, ys)
         /\ \A z : [StateOf(xs, i, b, a, ys) EXCEPT !.current = z] = StateOf(xs, z, b, a, ys)
         /\ \A z : [StateOf(xs, i, b, a, ys) EXCEPT !.back = z] = StateOf(xs, i, z, a, ys)
         /\ \A z : [StateOf(xs, i, b, a, ys) EXCEPT !.ahead = z] = StateOf(xs, i, b, z, ys)
         /\ \A z : [StateOf(xs, i, b, a, ys) EXCEPT !.bytes = z] = StateOf(xs, i, b, a, z)
BY DEF StateOf

LEMMA PushIs ==
  ASSUME NEW xs, NEW i, NEW b, NEW a, NEW ys, NEW x
  PROVE  Push(StateOf(xs, i, b, a, ys), x)
           = StateOf(Append(xs, x), IF xs = <<>> THEN 1 ELSE i, b, a + 1, ys)
<1>1. PICK s : s = StateOf(xs, i, b, a, ys)
  OBVIOUS
<1>2. s.buffer = xs /\ s.current = i /\ s.back = b /\ s.ahead = a
  BY <1>1, Fields
<1>3. \A z1, z2, z3 : [s EXCEPT !.buffer = z1, !.current = z2, !.ahead = z3]
                        = StateOf(z1, z2, b, z3, ys)
  <2>1. ASSUME NEW z1, NEW z2, NEW z3
        PROVE  [s EXCEPT !.buffer = z1, !.current = z2, !.ahead = z3] = StateOf(z1, z2, b, z3, ys)
    <3>1. [s EXCEPT !.buffer = z1] = StateOf(z1, i, b, a, ys)
      BY <1>1, Fields
    <3>2. [StateOf(z1, i, b, a, ys) EXCEPT !.current = z2] = StateOf(z1, z2, b, a, ys)
      BY Fields
    <3>3. [StateOf(z1, z2, b, a, ys) EXCEPT !.ahead = z3] = StateOf(z1, z2, b, z3, ys)
      BY Fields
    <3> QED
      BY <3>1, <3>2, <3>3, Zenon
  <2> QED
    BY <2>1
<1>4. Push(s, x) = [s EXCEPT !.buffer = Append(xs, x),
                             !.current = IF xs = <<>> THEN 1 ELSE i,
                             !.ahead = a + 1]
  BY <1>2, Zenon DEF Push
<1> QED
  BY <1>1, <1>3, <1>4, Zenon

(* Pop, by how much it drops. *)
Dropped(s, n, drop) ==
  [s EXCEPT !.buffer = SubSeq(@, drop + 1, Len(@)),
            !.current = IF s.current + n > Len(s.buffer) THEN 0 ELSE s.current + n - drop,
            !.back = (s.back + n) - drop,
            !.ahead = @ - n]

LEMMA PopIs ==
  ASSUME NEW xs, NEW i, NEW b, NEW a, NEW ys, NEW n,
         NEW drop, drop = IF b + n > Window THEN (b + n) - Window ELSE 0
  PROVE  Pop(StateOf(xs, i, b, a, ys), n)
           = StateOf(SubSeq(xs, drop + 1, Len(xs)),
                     IF i + n > Len(xs) THEN 0 ELSE i + n - drop, (b + n) - drop, a - n, ys)
<1>1. PICK s : s = StateOf(xs, i, b, a, ys)
  OBVIOUS
<1>2. s.buffer = xs /\ s.current = i /\ s.back = b /\ s.ahead = a
  BY <1>1, Fields
<1>3. \A z1, z2, z3, z4 : [s EXCEPT !.buffer = z1, !.current = z2, !.back = z3, !.ahead = z4]
                            = StateOf(z1, z2, z3, z4, ys)
  <2>1. ASSUME NEW z1, NEW z2, NEW z3, NEW z4
        PROVE  [s EXCEPT !.buffer = z1, !.current = z2, !.back = z3, !.ahead = z4]
                 = StateOf(z1, z2, z3, z4, ys)
    <3>1. [s EXCEPT !.buffer = z1] = StateOf(z1, i, b, a, ys)
      BY <1>1, Fields
    <3>2. [StateOf(z1, i, b, a, ys) EXCEPT !.current = z2] = StateOf(z1, z2, b, a, ys)
      BY Fields
    <3>3. [StateOf(z1, z2, b, a, ys) EXCEPT !.back = z3] = StateOf(z1, z2, z3, a, ys)
      BY Fields
    <3>4. [StateOf(z1, z2, z3, a, ys) EXCEPT !.ahead = z4] = StateOf(z1, z2, z3, z4, ys)
      BY Fields
    <3> QED
      BY <3>1, <3>2, <3>3, <3>4, Zenon
  <2> QED
    BY <2>1
<1>4. PICK z1, z2, z3, z4 :
        /\ z1 = SubSeq(xs, drop + 1, Len(xs)) /\ z2 = IF i + n > Len(xs) THEN 0 ELSE i + n - drop
        /\ z3 = (b + n) - drop /\ z4 = a - n
  OBVIOUS
<1>5. Pop(s, n) = [s EXCEPT !.buffer = z1, !.current = z2, !.back = z3, !.ahead = z4]
  <2>1. drop = IF s.back + n > Window THEN (s.back + n) - Window ELSE 0
    BY <1>2, Zenon
  <2>2. /\ z1 = SubSeq(s.buffer, drop + 1, Len(s.buffer))
        /\ z2 = IF s.current + n > Len(s.buffer) THEN 0 ELSE s.current + n - drop
        /\ z3 = (s.back + n) - drop /\ z4 = s.ahead - n
    BY <1>2, <1>4, Zenon
  <2> QED
    <3>1. Pop(s, n) = Dropped(s, n, IF s.back + n > Window THEN (s.back + n) - Window ELSE 0)
      BY DEF Pop, Dropped
    <3>2. Pop(s, n) = Dropped(s, n, drop)
      BY ONLY <2>1, <3>1
    <3> QED
      BY ONLY <2>2, <3>2, Zenon DEF Dropped
<1>6. Pop(s, n) = StateOf(z1, z2, z3, z4, ys)
  BY <1>3, <1>5, Zenon
<1> QED
  BY <1>1, <1>4, <1>6, Zenon

LEMMA PushHolds ==
  ASSUME NEW xs, NEW i, NEW b, NEW a, NEW c \in Nat, Holds(xs, i, b, a, c), text \in Seq(Byte),
         NEW x \in Byte, c + a < Len(text), x = text[c + a + 1], xs = <<>> \/ a > 0
  PROVE  Holds(Append(xs, x), IF xs = <<>> THEN 1 ELSE i, b, a + 1, c)
<1>1. PICK ys : ys = Append(xs, x)
  OBVIOUS
<1>2. /\ xs \in Seq(Byte) /\ b \in Nat /\ a \in Nat /\ Len(xs) = b + a
      /\ b <= Window /\ b <= c /\ i = IF a = 0 THEN 0 ELSE b + 1
  BY DEF Holds
<1>3. ys \in Seq(Byte) /\ Len(ys) = b + a + 1 /\ ys[b + a + 1] = x
      /\ \A k \in 1 .. b + a : ys[k] = xs[k]
  BY ONLY <1>1, <1>2, x \in Byte
<1>4. (IF xs = <<>> THEN 1 ELSE i) = b + 1
  <2>1. CASE xs = <<>>
    <3>1. b + a = 0
      BY ONLY <1>2, <2>1
    <3> QED
      BY ONLY <1>2, <2>1, <3>1
  <2>2. CASE xs # <<>>
    BY <1>2, <2>2
  <2> QED
    BY <2>1, <2>2
<1>5. ASSUME NEW k \in 1 .. b + (a + 1)
      PROVE  ys[k] = text[c - b + k]
  <2>1. CASE k = b + a + 1
    <3>1. c - b + k = c + a + 1
      BY <1>2, <2>1
    <3> QED
      BY <1>3, <2>1, <3>1
  <2>2. CASE k # b + a + 1
    <3>1. k \in 1 .. b + a
      BY <1>2, <2>2
    <3> QED
      BY <1>3, <3>1 DEF Holds
  <2> QED
    BY <2>1, <2>2
<1>6. /\ Len(ys) = b + (a + 1) /\ a + 1 \in Nat /\ a + 1 # 0 /\ text \in Seq(Byte)
      /\ c + (a + 1) <= Len(text)
  BY <1>2, <1>3
<1> QED
  BY <1>1, <1>2, <1>3, <1>4, <1>5, <1>6 DEF Holds

LEMMA PopHolds ==
  ASSUME NEW xs, NEW i, NEW b, NEW a, NEW c \in Nat, Holds(xs, i, b, a, c), text \in Seq(Byte),
         NEW n \in 1 .. a, NEW drop, drop = IF b + n > Window THEN (b + n) - Window ELSE 0
  PROVE  Holds(SubSeq(xs, drop + 1, Len(xs)), IF i + n > Len(xs) THEN 0 ELSE i + n - drop,
               (b + n) - drop, a - n, c + n)
<1>1. PICK ys : ys = SubSeq(xs, drop + 1, b + a)
  OBVIOUS
<1>2. /\ xs \in Seq(Byte) /\ b \in Nat /\ a \in Nat /\ Len(xs) = b + a /\ n \in 1 .. a
      /\ b <= Window /\ b <= c /\ i = b + 1 /\ c \in Nat /\ Window \in Nat
      /\ Len(text) \in Nat /\ c + a <= Len(text)
  <2>1. /\ xs \in Seq(Byte) /\ b \in Nat /\ a \in Nat /\ Len(xs) = b + a
        /\ b <= Window /\ b <= c /\ c + a <= Len(text) /\ i = IF a = 0 THEN 0 ELSE b + 1
    BY Zenon DEF Holds
  <2>2. Window \in Nat /\ Len(text) \in Nat
    BY LzssAssumption
  <2>3. i = b + 1
    BY ONLY <2>1, n \in 1 .. a
  <2> QED
    BY <2>1, <2>2, <2>3
<1>3. drop \in 0 .. n /\ (b + n) - drop \in 0 .. Window
  BY <1>2
<1>4. drop + 1 \in 1 .. b + a + 1 /\ b + a \in 0 .. Len(xs) /\ b + a - (drop + 1) + 1 = b + a - drop
      /\ b + a - drop \in Nat
  BY ONLY <1>2, <1>3
<1>5. ys \in Seq(Byte) /\ Len(ys) = b + a - drop
      /\ \A k \in 1 .. b + a - drop : ys[k] = xs[drop + k]
  <2>1. \A k \in 1 .. b + a - drop : drop + k \in 1 .. b + a /\ drop + 1 + k - 1 = drop + k
    BY ONLY <1>2, <1>3
  <2> QED
    BY ONLY <1>1, <1>2, <1>3, <1>4, <2>1
<1>6. ASSUME NEW k \in 1 .. ((b + n) - drop) + (a - n)
      PROVE  ys[k] = text[(c + n) - ((b + n) - drop) + k]
  <2>1. /\ k \in 1 .. b + a - drop /\ drop + k \in 1 .. b + a
        /\ (c + n) - ((b + n) - drop) + k = c - b + (drop + k)
    BY <1>2, <1>3
  <2>2. xs[drop + k] = text[c - b + (drop + k)]
    BY <1>2, <2>1 DEF Holds
  <2> QED
    BY <1>5, <2>1, <2>2
<1>7. /\ (b + n) - drop \in Nat /\ a - n \in Nat /\ Len(ys) = ((b + n) - drop) + (a - n)
      /\ (b + n) - drop <= Window /\ (b + n) - drop <= c + n /\ (c + n) + (a - n) <= Len(text)
  <2>1. b + (a - drop) = ((b + n) - drop) + (a - n)
    BY ONLY <1>2, <1>3
  <2>2. (b + n) - drop \in Nat /\ a - n \in Nat /\ (b + n) - drop <= Window
    BY ONLY <1>2, <1>3
  <2>3. (b + n) - drop <= c + n
    BY ONLY <1>2, <1>3
  <2>4. (c + n) + (a - n) = c + a
    BY ONLY <1>2
  <2> QED
    BY ONLY <1>2, <1>5, <2>1, <2>2, <2>3, <2>4
<1>8. (IF i + n > Len(xs) THEN 0 ELSE i + n - drop)
        = IF a - n = 0 THEN 0 ELSE ((b + n) - drop) + 1
  BY ONLY <1>2, <1>3
<1> QED
  BY <1>1, <1>2, <1>5, <1>6, <1>7, <1>8 DEF Holds

(* A match repeats what is b - j bytes back, however long it is.           *)
LEMMA MatchesText ==
  ASSUME NEW xs, NEW i, NEW b, NEW a, NEW c \in Nat, Holds(xs, i, b, a, c), text \in Seq(Byte),
         a > 0, NEW j \in 0 .. b - 1,
         NEW n \in 0 .. a, \A k \in 0 .. n - 1 : xs[j + 1 + k] = xs[i + k]
  PROVE  Copies(c, n, b - j)
<1>1. /\ b \in Nat /\ a \in Nat /\ b <= c /\ i = b + 1 /\ Len(text) \in Nat /\ c + a <= Len(text)
  BY DEF Holds
<1>2. \A k \in 1 .. b + a : xs[k] = text[c - b + k]
  BY DEF Holds
<1>3. c + n <= Len(text)
  BY ONLY <1>1, c \in Nat, n \in 0 .. a
<1>4. ASSUME NEW t \in 1 .. n
      PROVE  text[c + t] = Before(c + t - (b - j))
  <2>1. /\ t - 1 \in 0 .. n - 1 /\ j + 1 + (t - 1) = j + t /\ i + (t - 1) = b + t
        /\ j + t \in 1 .. b + a /\ b + t \in 1 .. b + a
        /\ c - b + (j + t) = c + t - (b - j) /\ c - b + (b + t) = c + t
        /\ c + t - (b - j) > 0
    BY ONLY <1>1, c \in Nat, n \in 0 .. a, j \in 0 .. b - 1, t \in 1 .. n
  <2>2. xs[j + t] = xs[b + t]
    BY <2>1
  <2>3. xs[j + t] = text[c + t - (b - j)] /\ xs[b + t] = text[c + t]
    BY ONLY <1>2, <2>1
  <2> QED
    BY ONLY <2>1, <2>2, <2>3 DEF Before
<1> QED
  BY <1>3, <1>4 DEF Copies

LEMMA MatchLengthIs ==
  ASSUME NEW xs, NEW i, NEW b, NEW a, NEW c \in Nat, Holds(xs, i, b, a, c), text \in Seq(Byte),
         a > 0, NEW ys, NEW s, s = StateOf(xs, i, b, a, ys), NEW j \in 0 .. b - 1
  PROVE  MatchLength(s, j) \in 0 .. a /\ MatchLength(s, j) <= MaxLength
         /\ Copies(c, MatchLength(s, j), b - j)
<1>1. /\ b \in Nat /\ a \in Nat /\ i = b + 1 /\ Len(xs) = b + a /\ MaxLength \in Nat
  BY LzssAssumption DEF Holds
<1>2. s.buffer = xs /\ s.current = i
  BY Fields
<1>3. PICK m : m = Min({MaxLength, Len(xs) - i + 1})
  OBVIOUS
<1>4. m \in Nat /\ m <= MaxLength /\ m <= a
  <2>1. Len(xs) - i + 1 = a
    BY <1>1
  <2> QED
    BY <1>1, <1>3, <2>1, MinOfTwo
<1>5. PICK N : N = {n \in 0 .. m : \A k \in 0 .. n - 1 : xs[j + 1 + k] = xs[i + k]}
  OBVIOUS
<1>6. MatchLength(s, j) = Max(N)
  BY <1>2, <1>3, <1>5, Zenon DEF MatchLength
<1>7. N \subseteq 0 .. m /\ N # {}
  <2>1. 0 \in N
    BY <1>4, <1>5
  <2> QED
    BY <1>5, <2>1
<1>8. Max(N) \in N
  BY <1>4, <1>7, MaxOf
<1>9. PICK n : n = Max(N)
  OBVIOUS
<1>10. n \in 0 .. m /\ \A k \in 0 .. n - 1 : xs[j + 1 + k] = xs[i + k]
  BY <1>5, <1>8, <1>9
<1>11. n \in 0 .. a /\ n <= MaxLength
  BY ONLY <1>1, <1>4, <1>10
<1>12. Copies(c, n, b - j)
  BY <1>10, <1>11, MatchesText
<1> QED
  BY <1>6, <1>9, <1>11, <1>12

(* There is a longest match, and it begins at one of the bytes before.     *)
LEMMA LongestMatchIs ==
  ASSUME NEW s, s.back \in Nat \ {0},
         \A j \in 0 .. s.back - 1 : MatchLength(s, j) \in 0 .. MaxLength
  PROVE  \E j \in 0 .. s.back - 1 :
           LongestMatch(s) = [length |-> MatchLength(s, j), back |-> s.back - j - 1]
<1>1. PICK b : b = s.back
  OBVIOUS
<1>2. PICK f : f = [j \in 0 .. b - 1 |-> MatchLength(s, j)]
  OBVIOUS
<1>3. MaxLength \in Nat /\ b \in Nat \ {0} /\ \A j \in 0 .. b - 1 : f[j] \in 0 .. MaxLength
  BY <1>1, <1>2, LzssAssumption
<1>4. PICK longest \in {f[j] : j \in 0 .. b - 1} : \A y \in {f[j] : j \in 0 .. b - 1} : longest >= y
  <2>1. {f[j] : j \in 0 .. b - 1} \subseteq 0 .. MaxLength /\ {f[j] : j \in 0 .. b - 1} # {}
    BY <1>3
  <2> QED
    BY <1>3, <2>1, GreatestOf
<1>5. PICK last \in {j \in 0 .. b - 1 : f[j] = longest} :
        \A y \in {j \in 0 .. b - 1 : f[j] = longest} : last >= y
  <2>1. {j \in 0 .. b - 1 : f[j] = longest} \subseteq 0 .. b /\ {j \in 0 .. b - 1 : f[j] = longest} # {}
    BY <1>3, <1>4
  <2> QED
    BY <1>3, <2>1, GreatestOf
<1>6. \A j \in 0 .. b - 1 : f[j] < longest \/ (f[j] = longest /\ b - last - 1 <= b - j - 1)
  <2>1. ASSUME NEW j \in 0 .. b - 1
        PROVE  f[j] < longest \/ (f[j] = longest /\ b - last - 1 <= b - j - 1)
    <3>1. f[j] \in Nat /\ longest \in Nat /\ longest >= f[j] /\ (f[j] = longest => last >= j)
      BY <1>3, <1>4, <1>5
    <3> QED
      BY ONLY <1>3, <3>1, j \in 0 .. b - 1, last \in 0 .. b - 1
  <2> QED
    BY <2>1
<1>7. PICK Ms : Ms = {[length |-> MatchLength(s, j), back |-> s.back - j - 1] : j \in 0 .. s.back - 1}
  OBVIOUS
<1>8. LongestMatch(s) \in Ms
  <2>1. PICK m : m = [length |-> f[last], back |-> b - last - 1]
    OBVIOUS
  <2>2. m \in Ms
    BY <1>1, <1>2, <1>5, <1>7, <2>1
  <2>3. m.length = longest /\ m.back = b - last - 1
    BY <1>5, <2>1
  <2>4. \A j \in 0 .. s.back - 1 :
          \/ MatchLength(s, j) < m.length
          \/ MatchLength(s, j) = m.length /\ m.back <= s.back - j - 1
    BY <1>1, <1>2, <1>6, <2>3
  <2> QED
    BY <1>7, <2>2, <2>4, Zenon DEF LongestMatch
<1> QED
  BY <1>7, <1>8, Zenon

LEMMA LiteralCoded ==
  ASSUME NEW x \in 0 .. 127
  PROVE  LiteralByte(x) \in Nat /\ LiteralByte(x) % 2 = 0 /\ LiteralByte(x) \div 2 = x
<1>1. (2 * x) % 256 = 2 * x
  BY Z3
<1>2. (2 * x) % 2 = 0 /\ (2 * x) \div 2 = x
  BY Z3
<1> QED
  BY <1>1, <1>2 DEF LiteralByte

LEMMA MatchCoded ==
  ASSUME NEW m \in 1 .. 128, NEW n \in 0 .. 255
  PROVE  \E x \in Nat : /\ MatchBytes(m, n) = <<x, n>>
                        /\ x % 2 = 1 /\ x \div 2 + 1 = m
<1>1. PICK x : x = 2 * (m - 1) + 1
  OBVIOUS
<1>2. x \in 0 .. 255
  BY <1>1
<1>3. x % 256 = x /\ n % 256 = n
  BY <1>2, Z3
<1>4. x % 2 = 1 /\ x \div 2 = m - 1
  BY <1>1, Z3
<1>5. MatchBytes(m, n) = <<x, n>>
  BY <1>1, <1>3, Zenon DEF MatchBytes
<1>6. x \in Nat /\ x \div 2 + 1 = m
  BY <1>2, <1>4
<1> QED
  BY <1>4, <1>5, <1>6

(* What compressor-write-next may do to the state of the compressor: n     *)
(* bytes are compressed, and the row in the queue goes on over them.       *)
Wrote(t, a, c, q, p, n) ==
  /\ n \in 1 .. a /\ n <= MaxLength
  /\ Holds(t.buffer, t.current, t.back, t.ahead, c + n)
  /\ t.ahead = a - n
  /\ t.bytes \in Seq(Nat)
  /\ Carries(q \o t.bytes, p, c + n)

LEMMA PopWrote ==
  ASSUME NEW xs, NEW i, NEW b, NEW a, NEW c \in Nat, Holds(xs, i, b, a, c), text \in Seq(Byte),
         NEW s, s = StateOf(xs, i, b, a, <<>>), NEW q, NEW p, NEW n \in 1 .. a, n <= MaxLength,
         NEW ys \in Seq(Nat), Carries(q \o ys, p, c + n)
  PROVE  Wrote([Pop(s, n) EXCEPT !.bytes = ys], a, c, q, p, n)
<1>1. PICK drop : drop = IF b + n > Window THEN (b + n) - Window ELSE 0
  OBVIOUS
<1>2. PICK zs, j, d : zs = SubSeq(xs, drop + 1, Len(xs))
                      /\ j = (IF i + n > Len(xs) THEN 0 ELSE i + n - drop)
                      /\ d = (b + n) - drop
  OBVIOUS
<1>3. Pop(s, n) = StateOf(zs, j, d, a - n, <<>>)
  BY <1>1, <1>2, PopIs
<1>4. [Pop(s, n) EXCEPT !.bytes = ys] = StateOf(zs, j, d, a - n, ys)
  <2>1. PICK e : e = a - n
    OBVIOUS
  <2>2. [StateOf(zs, j, d, e, <<>>) EXCEPT !.bytes = ys] = StateOf(zs, j, d, e, ys)
    BY Fields
  <2> QED
    BY ONLY <1>3, <2>1, <2>2, Zenon
<1>5. Holds(zs, j, d, a - n, c + n)
  BY <1>1, <1>2, PopHolds
<1>6. PICK t : t = StateOf(zs, j, d, a - n, ys)
  OBVIOUS
<1>7. t.buffer = zs /\ t.current = j /\ t.back = d /\ t.ahead = a - n /\ t.bytes = ys
  BY <1>6, Fields
<1>8. Wrote(t, a, c, q, p, n)
  BY <1>5, <1>7, Zenon DEF Wrote
<1> QED
  BY <1>4, <1>6, <1>8, Zenon

LEMMA WriteLiteralWrote ==
  ASSUME NEW xs, NEW i, NEW b, NEW a, NEW c \in Nat, Holds(xs, i, b, a, c), text \in Seq(Byte),
         a > 0, NEW s, s = StateOf(xs, i, b, a, <<>>),
         NEW q \in Seq(Nat), NEW p \in Nat, Carries(q, p, c)
  PROVE  Wrote(WriteLiteral(s), a, c, q, p, 1)
<1>1. /\ b \in Nat /\ a \in Nat /\ i = b + 1 /\ Len(xs) = b + a /\ b <= c /\ c + a <= Len(text)
      /\ Len(text) \in Nat
  BY DEF Holds
<1>2. s.buffer = xs /\ s.current = i
  BY Fields
<1>3. i \in 1 .. b + a /\ c - b + i = c + 1 /\ c < Len(text) /\ c + 1 \in 1 .. Len(text)
  BY ONLY <1>1, a > 0, c \in Nat
<1>4. PICK x : x = xs[i]
  OBVIOUS
<1>5. x = text[c + 1] /\ x \in 0 .. 127
  <2>1. xs[i] = text[c - b + i]
    BY <1>3 DEF Holds
  <2>2. text[c + 1] \in Byte
    BY <1>3
  <2> QED
    BY <1>3, <1>4, <2>1, <2>2, LzssAssumption
<1>6. PICK y : y = LiteralByte(x)
  OBVIOUS
<1>7. y \in Nat /\ y % 2 = 0 /\ text[c + 1] = y \div 2
  BY <1>5, <1>6, LiteralCoded
<1>8. Carries(Append(q, y), p, c + 1)
  BY <1>3, <1>7, CarriesLiteral
<1>9. <<y>> \in Seq(Nat) /\ Append(q, y) = q \o <<y>>
  BY <1>7
<1>10. Wrote([Pop(s, 1) EXCEPT !.bytes = <<y>>], a, c, q, p, 1)
  <2>1. 1 \in 1 .. a /\ 1 <= MaxLength
    BY <1>1, LzssAssumption
  <2> QED
    BY <1>8, <1>9, <2>1, PopWrote
<1> QED
  BY <1>2, <1>4, <1>6, <1>10, Zenon DEF WriteLiteral

LEMMA WriteMatchWrote ==
  ASSUME NEW xs, NEW i, NEW b, NEW a, NEW c \in Nat, Holds(xs, i, b, a, c), text \in Seq(Byte),
         a > 0, NEW s, s = StateOf(xs, i, b, a, <<>>),
         NEW q \in Seq(Nat), NEW p \in Nat, Carries(q, p, c),
         NEW j \in 0 .. b - 1, MatchLength(s, j) > MinLength,
         NEW m, m = [length |-> MatchLength(s, j), back |-> s.back - j - 1]
  PROVE  Wrote(WriteMatch(s, m), a, c, q, p, m.length)
<1>1. PICK n, d : n = MatchLength(s, j) /\ d = b - j - 1
  OBVIOUS
<1>2. m.length = n /\ m.back = d
  <2>1. s.back = b
    BY Fields
  <2> QED
    BY <1>1, <2>1
<1>3. n \in 0 .. a /\ n <= MaxLength /\ Copies(c, n, b - j)
  BY <1>1, MatchLengthIs
<1>4. n > 2 /\ n \in 1 .. a /\ n \in 1 .. 128 /\ a \in Nat
  <2>1. n > 2 /\ a \in Nat
    BY <1>1 DEF MinLength, Holds
  <2> QED
    BY <1>3, <2>1, LzssAssumption
<1>5. d \in 0 .. Window - 1 /\ d \in 0 .. 255 /\ d + 1 = b - j
  <2>1. b \in Nat /\ b <= Window
    BY DEF Holds
  <2> QED
    BY <1>1, <2>1, LzssAssumption
<1>6. PICK x \in Nat : MatchBytes(n, d) = <<x, d>> /\ x % 2 = 1 /\ x \div 2 + 1 = n
  BY <1>4, <1>5, MatchCoded
<1>7. Carries(q \o <<x, d>>, p, c + n)
  <2>1. Copies(c, x \div 2 + 1, d + 1)
    BY <1>3, <1>5, <1>6
  <2>2. Carries(q \o <<x, d>>, p, c + x \div 2 + 1)
    BY <1>5, <1>6, <2>1, CarriesMatch
  <2>3. c + x \div 2 + 1 = c + n
    BY <1>6
  <2> QED
    BY <2>2, <2>3
<1>8. <<x, d>> \in Seq(Nat)
  BY <1>5
<1>9. Wrote([Pop(s, n) EXCEPT !.bytes = <<x, d>>], a, c, q, p, n)
  BY <1>3, <1>4, <1>7, <1>8, PopWrote
<1> QED
  BY <1>2, <1>6, <1>9, Zenon DEF WriteMatch

LEMMA WriteNextWrote ==
  ASSUME NEW xs, NEW i, NEW b, NEW a, NEW c \in Nat, Holds(xs, i, b, a, c), text \in Seq(Byte),
         a > 0, NEW s, s = StateOf(xs, i, b, a, <<>>), NEW t \in WriteNext(s),
         NEW q \in Seq(Nat), NEW p \in Nat, Carries(q, p, c)
  PROVE  \E n : Wrote(t, a, c, q, p, n)
<1>1. s.back = b /\ b \in Nat
  BY Fields DEF Holds
<1>2. CASE t = WriteLiteral(s)
  BY <1>2, WriteLiteralWrote
<1>3. CASE t # WriteLiteral(s)
  <2>1. s.back # 0 /\ \E m \in {LongestMatch(s)} :
                        t = IF m.length > MinLength THEN WriteMatch(s, m) ELSE WriteLiteral(s)
    BY <1>3, Zenon DEF WriteNext
  <2>2. PICK m : m = LongestMatch(s) /\ m.length > MinLength /\ t = WriteMatch(s, m)
    BY <1>3, <2>1, Zenon
  <2>3. \A j \in 0 .. b - 1 : MatchLength(s, j) \in 0 .. MaxLength
    <3>1. ASSUME NEW j \in 0 .. b - 1
          PROVE  MatchLength(s, j) \in 0 .. MaxLength
      <4>1. MatchLength(s, j) \in 0 .. a /\ MatchLength(s, j) <= MaxLength /\ MaxLength \in Nat
        BY MatchLengthIs, LzssAssumption
      <4>2. a \in Nat
        BY DEF Holds
      <4> QED
        BY <4>1, <4>2
    <3> QED
      BY <3>1
  <2>4. s.back \in Nat \ {0} /\ \A j \in 0 .. s.back - 1 : MatchLength(s, j) \in 0 .. MaxLength
    BY <1>1, <2>1, <2>3
  <2>5. PICK j \in 0 .. b - 1 : m = [length |-> MatchLength(s, j), back |-> s.back - j - 1]
    BY <1>1, <2>2, <2>4, LongestMatchIs
  <2>6. MatchLength(s, j) > MinLength
    BY <2>2, <2>5
  <2> QED
    BY <2>2, <2>5, <2>6, WriteMatchWrote
<1> QED
  BY <1>2, <1>3

(* A queue that a compressor added to. *)
LEMMA QueueGrows ==
  ASSUME NEW rest, NEW e, Decompressed(rest, e), UNCHANGED <<text, decompressorVars>>,
         NEW more, NEW end, compressed' \in Seq(Nat),
         Carries(compressed' \o more, Len(output) + length, end)
  PROVE  Decompressed(more, end)'
<1>1. PICK q, p, n, o : q = compressed' \o more /\ p = Len(output) + length
                        /\ n = Len(output) /\ o = offset + 1
  OBVIOUS
<1>2. Carries(q, p, end)'
  BY <1>1, SameText
<1>3. Copies(n, length, o)'
  <2>1. PICK l : l = length
    OBVIOUS
  <2>2. Copies(n, l, o)
    BY <1>1, <2>1, Zenon DEF Decompressed
  <2>3. Copies(n, l, o)'
    BY <2>2, SameText
  <2> QED
    BY <2>1, <2>3 DEF decompressorVars
<1>4. /\ Carries(compressed \o more, Len(output) + length, end)'
      /\ Copies(Len(output), length, offset + 1)'
  BY <1>1, <1>2, <1>3 DEF decompressorVars
<1>5. Remembers(window, Window, Len(output))'
  <2>1. Remembers(window, Window, Len(output))
    BY DEF Decompressed
  <2> QED
    BY <2>1 DEF Remembers, Before, decompressorVars
<1> QED
  BY <1>4, <1>5 DEF Decompressed, decompressorVars

(* What is still to come is the end of the text. *)
Pending(xs) ==
  /\ xs \in Seq(Byte) /\ Len(xs) <= Len(text)
  /\ \A k \in 1 .. Len(xs) : xs[k] = text[(Len(text) - Len(xs)) + k]

LEMMA NextPending ==
  ASSUME NEW xs, Pending(xs), xs # <<>>, text \in Seq(Byte)
  PROVE  /\ Pending(Tail(xs)) /\ Len(xs) \in Nat \ {0} /\ Len(Tail(xs)) = Len(xs) - 1
         /\ Head(xs) \in Byte /\ Head(xs) = text[(Len(text) - Len(xs)) + 1]
<1>1. xs \in Seq(Byte) /\ Len(xs) \in Nat \ {0} /\ Len(xs) <= Len(text) /\ Len(text) \in Nat
  BY DEF Pending
<1>2. PICK ys : ys = Tail(xs)
  OBVIOUS
<1>3. /\ ys \in Seq(Byte) /\ Len(ys) = Len(xs) - 1
      /\ \A k \in 1 .. Len(ys) : ys[k] = xs[k + 1]
  BY <1>1, <1>2
<1>4. Head(xs) \in Byte /\ Head(xs) = xs[1]
  BY <1>1
<1>5. xs[1] = text[(Len(text) - Len(xs)) + 1]
  BY <1>1 DEF Pending
<1>6. ASSUME NEW k \in 1 .. Len(ys)
      PROVE  ys[k] = text[(Len(text) - Len(ys)) + k]
  <2>1. k + 1 \in 1 .. Len(xs) /\ (Len(text) - Len(xs)) + (k + 1) = (Len(text) - Len(ys)) + k
    <3>1. PICK m, n : m = Len(text) /\ n = Len(xs)
      OBVIOUS
    <3>2. m \in Nat /\ n \in Nat \ {0} /\ k \in 1 .. n - 1 /\ Len(ys) = n - 1
      BY <1>1, <1>3, <3>1
    <3>3. k + 1 \in 1 .. n /\ (m - n) + (k + 1) = (m - (n - 1)) + k
      BY ONLY <3>2
    <3> QED
      BY <3>1, <3>2, <3>3
  <2>2. xs[k + 1] = text[(Len(text) - Len(xs)) + (k + 1)]
    BY <2>1 DEF Pending
  <2> QED
    BY <1>3, <2>1, <2>2
<1> QED
  BY <1>1, <1>2, <1>3, <1>4, <1>5, <1>6 DEF Pending

(* How much of the text is compressed. *)
At == (Len(text) - Len(input)) - ahead

(* The inductive invariant of the compressor of the compiler.              *)
SchemeInv ==
  /\ At \in Nat
  /\ Decompressed(<<>>, At)
  /\ Pending(input)
  /\ Holds(buffer, current, back, ahead, At)
  /\ input # <<>> /\ buffer # <<>> => ahead > 0

LEMMA SchemeStarts ==
  ASSUME Init, text \in Seq(Byte)
  PROVE  SchemeInv
<1>1. /\ DecompressorInit /\ compressed = <<>> /\ input = text
      /\ buffer = <<>> /\ current = 0 /\ back = 0 /\ ahead = 0
  BY DEF Init
<1>2. At = 0
  BY <1>1 DEF At
<1>3. Decompressed(<<>>, 0)
  BY <1>1, DecompressorStarts
<1>4. Pending(input)
  BY <1>1 DEF Pending
<1>5. Holds(buffer, current, back, ahead, 0)
  BY <1>1, LzssAssumption DEF Holds
<1> QED
  BY <1>1, <1>2, <1>3, <1>4, <1>5 DEF SchemeInv

LEMMA SamePending ==
  ASSUME UNCHANGED text, NEW xs, Pending(xs)
  PROVE  Pending(xs)'
BY DEF Pending

LEMMA SameHolds ==
  ASSUME UNCHANGED text, NEW xs, NEW i, NEW b, NEW a, NEW c, Holds(xs, i, b, a, c)
  PROVE  Holds(xs, i, b, a, c)'
BY Zenon DEF Holds

(* After a step that turns the compressor into t, with end compressed.     *)
LEMMA SchemeUpdated ==
  ASSUME SchemeInv, UNCHANGED <<text, decompressorVars>>,
         NEW t, Update(t), NEW end \in Nat, end = At',
         Holds(t.buffer, t.current, t.back, t.ahead, end),
         t.bytes \in Seq(Nat), Carries(compressed \o t.bytes, Len(output) + length, end),
         Pending(input'), input' # <<>> /\ t.buffer # <<>> => t.ahead > 0
  PROVE  SchemeInv'
<1>1. /\ buffer' = t.buffer /\ current' = t.current /\ back' = t.back /\ ahead' = t.ahead
      /\ compressed' = compressed \o t.bytes /\ text' = text
  BY DEF Update
<1>2. Decompressed(<<>>, At) /\ compressed \in Seq(Nat)
  BY DEF SchemeInv, Decompressed
<1>3. compressed' \in Seq(Nat) /\ compressed' \o <<>> = compressed'
  BY <1>1, <1>2
<1>4. Decompressed(<<>>, end)'
  BY <1>1, <1>2, <1>3, QueueGrows
<1>5. Decompressed(<<>>, At)'
  BY <1>4
<1>6. Holds(t.buffer, t.current, t.back, t.ahead, end)'
  <2>1. PICK xs, i, b, a : xs = t.buffer /\ i = t.current /\ b = t.back /\ a = t.ahead
    OBVIOUS
  <2>2. Holds(xs, i, b, a, end)
    BY <2>1
  <2>3. Holds(xs, i, b, a, end)'
    BY <1>1, <2>2, SameHolds
  <2> QED
    BY <2>1, <2>3
<1>7. Holds(buffer, current, back, ahead, At)'
  BY <1>1, <1>6, Zenon DEF Holds
<1>8. Pending(input)'
  <2>1. PICK xs : xs = input'
    OBVIOUS
  <2> QED
    BY <1>1, <2>1, SamePending
<1> QED
  BY <1>1, <1>5, <1>7, <1>8 DEF SchemeInv

LEMMA SchemeWrites ==
  ASSUME SchemeInv, CompressorWrite, UNCHANGED <<text, decompressorVars>>
  PROVE  SchemeInv'
<1>1. /\ At \in Nat /\ Decompressed(<<>>, At) /\ Pending(input)
      /\ Holds(buffer, current, back, ahead, At)
      /\ input # <<>> /\ buffer # <<>> => ahead > 0
  BY DEF SchemeInv
<1>2. text \in Seq(Byte) /\ compressed \in Seq(Nat) /\ output \in Seq(Byte) /\ length \in Nat
      /\ Carries(compressed, Len(output) + length, At)
  <2>1. compressed \in Seq(Nat) /\ Carries(compressed \o <<>>, Len(output) + length, At)
    BY <1>1 DEF Decompressed
  <2>2. compressed \o <<>> = compressed
    BY <2>1
  <2> QED
    BY <1>1, <2>1, <2>2 DEF Decompressed
<1>3. input # <<>> /\ input' = Tail(input) /\ ahead \in Nat
  BY <1>1 DEF CompressorWrite, Holds
<1>4. PICK x, n, m, c : x = Head(input) /\ n = Len(input) /\ m = Len(text) /\ c = At
  OBVIOUS
<1>5. /\ Pending(input') /\ n \in Nat \ {0} /\ Len(input') = n - 1 /\ m \in Nat
      /\ x \in Byte /\ x = text[(m - n) + 1] /\ n <= m /\ c = (m - n) - ahead /\ c \in Nat
  BY <1>1, <1>2, <1>3, <1>4, NextPending DEF Pending, At
<1>6. c + ahead < m /\ (m - n) + 1 = (c + ahead) + 1
  BY ONLY <1>3, <1>5
<1>7. buffer = <<>> \/ ahead > 0
  BY <1>1, <1>3
<1>8. PICK a, b, xs, i : a = ahead + 1 /\ b = back /\ xs = Append(buffer, x)
                         /\ i = IF buffer = <<>> THEN 1 ELSE current
  OBVIOUS
<1>9. Holds(xs, i, b, a, c)
  <2>1. Holds(buffer, current, back, ahead, c)
    BY <1>1, <1>4
  <2>2. x = text[c + ahead + 1] /\ c + ahead < Len(text)
    BY <1>4, <1>5, <1>6
  <2>3. Holds(Append(buffer, x), IF buffer = <<>> THEN 1 ELSE current, back, ahead + 1, c)
    BY <1>2, <1>5, <1>7, <2>1, <2>2, PushHolds
  <2> QED
    BY <1>8, <2>3
<1>10. PICK s : s = StateOf(xs, i, b, a, <<>>)
  OBVIOUS
<1>11. s = Push(State, x)
  <2>1. State = StateOf(buffer, current, back, ahead, <<>>)
    BY DEF State, StateOf
  <2> QED
    BY <1>8, <1>10, <2>1, PushIs
<1>12. s.buffer = xs /\ s.current = i /\ s.back = b /\ s.ahead = a /\ s.bytes = <<>>
  BY <1>10, Fields
<1>13. PICK t \in IF s.ahead > MaxLength THEN WriteNext(s) ELSE {s} : Update(t)
  BY <1>4, <1>11, Zenon DEF CompressorWrite
<1>14. ahead' = t.ahead /\ text' = text
  BY <1>13 DEF Update
<1>15. Len(output) + length \in Nat
  BY <1>2
<1>16. CASE a > MaxLength
  <2>1. t \in WriteNext(s)
    BY <1>12, <1>13, <1>16
  <2>2. a > 0
    BY <1>3, <1>8
  <2>3. PICK k : Wrote(t, a, c, compressed, Len(output) + length, k)
    <3>1. Carries(compressed, Len(output) + length, c)
      BY <1>2, <1>4
    <3> QED
      BY <1>2, <1>5, <1>9, <1>10, <1>15, <2>1, <2>2, <3>1, WriteNextWrote
  <2>4. k \in 1 .. a /\ k <= MaxLength /\ t.ahead = a - k /\ MaxLength \in Nat
    BY <2>3, LzssAssumption DEF Wrote
  <2>5. c + k \in Nat /\ c + k = At' /\ t.ahead > 0
    <3>1. At' = (m - (n - 1)) - (a - k)
      BY <1>4, <1>5, <1>14, <2>4 DEF At
    <3>2. a = ahead + 1
      BY <1>8
    <3> QED
      BY ONLY <1>3, <1>5, <1>16, <2>4, <3>1, <3>2
  <2> QED
    BY <1>5, <1>13, <2>3, <2>5, SchemeUpdated DEF Wrote
<1>17. CASE ~(a > MaxLength)
  <2>1. t = s
    BY <1>12, <1>13, <1>17
  <2>2. c = At' /\ a > 0
    <3>1. At' = (m - (n - 1)) - (ahead + 1)
      BY <1>4, <1>5, <1>8, <1>12, <1>14, <2>1 DEF At
    <3> QED
      BY ONLY <1>3, <1>5, <1>8, <3>1
  <2>3. Holds(t.buffer, t.current, t.back, t.ahead, c) /\ t.ahead > 0
    BY <1>9, <1>12, <2>1, <2>2
  <2>4. t.bytes \in Seq(Nat) /\ Carries(compressed \o t.bytes, Len(output) + length, c)
    <3>1. t.bytes = <<>> /\ compressed \o <<>> = compressed
      BY <1>2, <1>12, <2>1
    <3> QED
      BY <1>2, <1>4, <3>1
  <2> QED
    BY <1>5, <1>13, <2>2, <2>3, <2>4, SchemeUpdated
<1> QED
  BY <1>16, <1>17

LEMMA SchemeFlushes ==
  ASSUME SchemeInv, CompressorFlush, UNCHANGED <<text, decompressorVars>>
  PROVE  SchemeInv'
<1>1. /\ At \in Nat /\ Decompressed(<<>>, At) /\ Pending(input)
      /\ Holds(buffer, current, back, ahead, At)
  BY DEF SchemeInv
<1>2. text \in Seq(Byte) /\ compressed \in Seq(Nat) /\ output \in Seq(Byte) /\ length \in Nat
      /\ Carries(compressed, Len(output) + length, At)
  <2>1. compressed \in Seq(Nat) /\ Carries(compressed \o <<>>, Len(output) + length, At)
    BY <1>1 DEF Decompressed
  <2>2. compressed \o <<>> = compressed
    BY <2>1
  <2> QED
    BY <1>1, <2>1, <2>2 DEF Decompressed
<1>3. input = <<>> /\ input' = input /\ current # 0
  BY DEF CompressorFlush
<1>4. PICK a, c : a = ahead /\ c = At
  OBVIOUS
<1>5. a \in Nat /\ a > 0 /\ c \in Nat /\ Holds(buffer, current, back, a, c)
  BY <1>1, <1>3, <1>4 DEF Holds
<1>6. PICK s : s = StateOf(buffer, current, back, a, <<>>)
  OBVIOUS
<1>7. PICK t \in WriteNext(s) : Update(t)
  <2>1. s = State
    BY <1>4, <1>6 DEF State, StateOf
  <2> QED
    BY <2>1, Zenon DEF CompressorFlush
<1>8. Len(output) + length \in Nat
  BY <1>2
<1>9. PICK k : Wrote(t, a, c, compressed, Len(output) + length, k)
  BY <1>2, <1>4, <1>5, <1>6, <1>8, WriteNextWrote
<1>10. k \in 1 .. a /\ t.ahead = a - k /\ ahead' = t.ahead
  BY <1>7, <1>9 DEF Wrote, Update
<1>11. c + k \in Nat /\ c + k = At'
  <2>1. PICK m : m = Len(text) - Len(input)
    OBVIOUS
  <2>2. At' = m - (a - k) /\ c = m - a /\ m \in Int
    BY <1>1, <1>2, <1>3, <1>4, <1>10, <2>1 DEF At
  <2> QED
    BY ONLY <1>5, <1>10, <2>2
<1>12. Pending(input')
  BY <1>1, <1>3
<1> QED
  BY <1>3, <1>7, <1>9, <1>11, <1>12, SchemeUpdated DEF Wrote

LEMMA SchemeStep ==
  ASSUME SchemeInv, [Next]_vars
  PROVE  SchemeInv' /\ [Delivery!Deliver]_(Delivery!vars)
<1>1. CASE Compress
  <2>1. UNCHANGED <<text, decompressorVars>>
    BY <1>1 DEF Compress
  <2>2. SchemeInv'
    BY <1>1, <2>1, SchemeWrites, SchemeFlushes DEF Compress
  <2> QED
    BY <2>1, <2>2 DEF Delivery!vars, decompressorVars
<1>2. CASE Decompress /\ UNCHANGED compressorVars
  <2>1. PICK e : e = At
    OBVIOUS
  <2>2. Decompressed(<<>>, e)
    BY <2>1 DEF SchemeInv
  <2>3. Decompressed(<<>>, e)' /\ Delivery!Deliver /\ UNCHANGED text
    <3>1. <<>> \in Seq(Nat)
      OBVIOUS
    <3> QED
      BY <1>2, <2>2, <3>1, DecompressStep
  <2>4. Decompressed(<<>>, At)' /\ At' = At
    BY <1>2, <2>1, <2>3 DEF At, compressorVars
  <2>5. Holds(buffer, current, back, ahead, At)'
    BY <1>2, <2>3, <2>4, Zenon DEF SchemeInv, Holds, compressorVars
  <2>6. Pending(input)'
    BY <1>2, <2>3 DEF SchemeInv, Pending, compressorVars
  <2> QED
    BY <1>2, <2>3, <2>4, <2>5, <2>6 DEF SchemeInv, compressorVars
<1>3. CASE UNCHANGED vars
  <2>1. UNCHANGED <<text, decompressorVars>> /\ compressed' = compressed
    BY <1>3 DEF vars
  <2>2. PICK e : e = At
    OBVIOUS
  <2>3. Decompressed(<<>>, e) /\ compressed' \in Seq(Nat)
        /\ Carries(compressed' \o <<>>, Len(output) + length, e)
    BY <2>1, <2>2 DEF SchemeInv, Decompressed
  <2>4. Decompressed(<<>>, e)'
    BY <2>1, <2>3, QueueGrows
  <2>5. At' = At
    BY <1>3 DEF At, vars, compressorVars
  <2>6. Holds(buffer, current, back, ahead, At)'
    BY <1>3, <2>5, Zenon DEF SchemeInv, Holds, vars, compressorVars
  <2>7. Pending(input)'
    BY <1>3 DEF SchemeInv, Pending, vars, compressorVars
  <2>8. Decompressed(<<>>, At)'
    BY <2>2, <2>4, <2>5
  <2> QED
    BY <1>3, <2>1, <2>5, <2>6, <2>7, <2>8 DEF SchemeInv, Delivery!vars, decompressorVars, vars, compressorVars
<1> QED
  BY <1>1, <1>2, <1>3 DEF Next

LEMMA SchemeAlways ==
  ASSUME SchemeInv
  PROVE  PointerInStep
BY DEF SchemeInv, Holds, PointerInStep

(* What compressor-write and compressor-flush of compile.scm rely on: the  *)
(* counters agree with the list, and the pointer is at the end of it only  *)
(* when no byte is to come (compressor-push! would leave it there).        *)
THEOREM PointerAlwaysInStep == Spec /\ text \in Seq(Byte) => []PointerInStep
<1>1. Init /\ text \in Seq(Byte) => SchemeInv
  BY SchemeStarts
<1>2. SchemeInv /\ [Next]_vars => SchemeInv'
  BY SchemeStep
<1>3. SchemeInv => PointerInStep
  BY SchemeAlways
<1> QED
  BY <1>1, <1>2, <1>3, PTL DEF Spec

(* What the decompressor of lzss returns of the output of the compressor   *)
(* of compile.scm is the text, from its first byte on and byte for byte,   *)
(* whenever each of them runs: the safety part of RoundTrip.               *)
THEOREM SchemeDelivers ==
  Spec /\ text \in Seq(Byte) => Delivery!Init /\ [][Delivery!Deliver]_(Delivery!vars)
<1>1. Init /\ text \in Seq(Byte) => SchemeInv /\ Delivery!Init
  BY SchemeStarts DEF Init, DecompressorInit, Delivery!Init
<1>2. SchemeInv /\ [Next]_vars => SchemeInv' /\ [Delivery!Deliver]_(Delivery!vars)
  BY SchemeStep
<1> QED
  BY <1>1, <1>2, PTL DEF Spec

-----------------------------------------------------------------------------
(* The compressor of lzss. *)

LEMMA Upwards ==
  ASSUME NEW n \in Nat, NEW S, 0 \in S, \A j \in 1 .. n : j - 1 \in S => j \in S
  PROVE  0 .. n \subseteq S
<1> DEFINE Less == {ss \in Nat \X Nat : ss[1] < ss[2]}
           T == {j \in 0 .. n : j \notin S}
<1>1. SUFFICES ASSUME T # {}
               PROVE  FALSE
  OBVIOUS
<1>2. IsWellFoundedOn(Less, Nat)
  BY NatLessThanWellFounded DEF OpToRel
<1>3. T \subseteq Nat
  OBVIOUS
<1>4. PICK least \in T : \A y \in T : <<y, least>> \notin Less
  <2> HIDE DEF Less, T
  <2> QED
    BY <1>1, <1>2, <1>3, WFMin
<1>5. least \in 1 .. n /\ least \notin S
  <2>1. least \in 0 .. n /\ least \notin S
    BY <1>4
  <2> QED
    BY <2>1
<1>6. least - 1 \in T
  BY <1>5
<1>7. <<least - 1, least>> \in Less
  BY <1>5
<1> QED
  BY <1>4, <1>6, <1>7

LEMMA SameRing ==
  ASSUME NEW r, NEW x
  PROVE  Rust!RingPush(r, x) = RingPush(r, x) /\ Rust!RingAt(r, x) = RingAt(r, x)
         /\ Rust!Ring(x) = Ring(x) /\ Rust!BufferSize = Window + MaxLength
<1>1. ASSUME NEW y
      PROVE  Rust!RingIndex(r, y) = RingIndex(r, y)
  BY Zenon DEF RingIndex, Rust!RingIndex
<1> QED
  BY <1>1, Zenon DEF RingPush, RingAt, Ring, Rust!RingPush, Rust!RingAt, Rust!Ring, Rust!BufferSize

BufferSize == Window + MaxLength

(* A state of the search for a match: input, buffer, bytes read ahead, and *)
(* the match.                                                              *)
Search(xs, r, a, l, k) == [input |-> xs, buffer |-> r, ahead |-> a, length |-> l, back |-> k]

LEMMA SearchFields ==
  ASSUME NEW xs, NEW r, NEW a, NEW l, NEW k
  PROVE  /\ Search(xs, r, a, l, k).input = xs
         /\ Search(xs, r, a, l, k).buffer = r
         /\ Search(xs, r, a, l, k).ahead = a
         /\ Search(xs, r, a, l, k).length = l
         /\ Search(xs, r, a, l, k).back = k
         /\ \A z : [Search(xs, r, a, l, k) EXCEPT !.input = z] = Search(z, r, a, l, k)
         /\ \A z : [Search(xs, r, a, l, k) EXCEPT !.buffer = z] = Search(xs, z, a, l, k)
         /\ \A z : [Search(xs, r, a, l, k) EXCEPT !.ahead = z] = Search(xs, r, z, l, k)
         /\ \A z : [Search(xs, r, a, l, k) EXCEPT !.length = z] = Search(xs, r, a, z, k)
         /\ \A z : [Search(xs, r, a, l, k) EXCEPT !.back = z] = Search(xs, r, a, l, z)
BY DEF Search

(* The buffer remembers what was read of the text, and c of that is        *)
(* compressed.                                                             *)
Reading(xs, r, a, c) ==
  /\ Pending(xs)
  /\ a \in 0 .. MaxLength
  /\ c + a = Len(text) - Len(xs)
  /\ IsRing(r, BufferSize, Byte)
  /\ Remembers(r, BufferSize, c + a)

LEMMA PeekIs ==
  ASSUME NEW xs, NEW r, NEW a, NEW l, NEW k, NEW j, ~(j < a), xs # <<>>
  PROVE  Rust!Peek(Search(xs, r, a, l, k), j) = Search(Tail(xs), RingPush(r, Head(xs)), a + 1, l, k)
<1>1. PICK s : s = Search(xs, r, a, l, k)
  OBVIOUS
<1>2. s.input = xs /\ s.buffer = r /\ s.ahead = a
  BY <1>1, SearchFields
<1>3. \A z1, z2, z3 : [s EXCEPT !.input = z1, !.buffer = z2, !.ahead = z3] = Search(z1, z2, z3, l, k)
  <2>1. ASSUME NEW z1, NEW z2, NEW z3
        PROVE  [s EXCEPT !.input = z1, !.buffer = z2, !.ahead = z3] = Search(z1, z2, z3, l, k)
    <3>1. [s EXCEPT !.input = z1] = Search(z1, r, a, l, k)
      BY <1>1, SearchFields
    <3>2. [Search(z1, r, a, l, k) EXCEPT !.buffer = z2] = Search(z1, z2, a, l, k)
      BY SearchFields
    <3>3. [Search(z1, z2, a, l, k) EXCEPT !.ahead = z3] = Search(z1, z2, z3, l, k)
      BY SearchFields
    <3> QED
      BY <3>1, <3>2, <3>3, Zenon
  <2> QED
    BY <2>1
<1>4. Rust!Peek(s, j) = [s EXCEPT !.input = Tail(xs), !.buffer = RingPush(r, Head(xs)), !.ahead = a + 1]
  BY <1>2, SameRing, Zenon DEF Rust!Peek
<1> QED
  BY <1>1, <1>3, <1>4, Zenon

(* Reading ahead by one byte, which is at most the last that fits.         *)
LEMMA ReadAhead ==
  ASSUME text \in Seq(Byte), NEW c \in Nat, NEW xs, NEW r, NEW a, Reading(xs, r, a, c),
         xs # <<>>, a < MaxLength
  PROVE  Reading(Tail(xs), RingPush(r, Head(xs)), a + 1, c)
<1>1. Pending(xs) /\ a \in 0 .. MaxLength /\ c + a = Len(text) - Len(xs)
      /\ IsRing(r, BufferSize, Byte) /\ Remembers(r, BufferSize, c + a)
  BY DEF Reading
<1>2. PICK ys, x, p : ys = Tail(xs) /\ x = Head(xs) /\ p = c + a
  OBVIOUS
<1>3. /\ Pending(ys) /\ Len(xs) \in Nat \ {0} /\ Len(ys) = Len(xs) - 1
      /\ x \in Byte /\ x = text[p + 1]
  BY <1>1, <1>2, NextPending
<1>4. MaxLength \in Nat /\ BufferSize \in Nat \ {0} /\ p \in Nat /\ a \in Nat
  BY <1>1, <1>2, LzssAssumption DEF BufferSize
<1>5. IsRing(RingPush(r, x), BufferSize, Byte)
  BY <1>1, <1>3, <1>4, RingPushed
<1>6. Remembers(RingPush(r, x), BufferSize, p + 1)
  BY <1>1, <1>2, <1>3, <1>4, RemembersNext
<1>7. a + 1 \in 0 .. MaxLength /\ p + 1 = c + (a + 1)
  BY <1>2, <1>4
<1>8. c + (a + 1) = Len(text) - Len(ys)
  <2>1. PICK m, n : m = Len(text) /\ n = Len(xs)
    OBVIOUS
  <2>2. m \in Nat /\ n \in Nat /\ c + a = m - n /\ a \in Nat
    BY <1>1, <1>3, <1>4, <2>1
  <2>3. c + (a + 1) = m - (n - 1)
    BY ONLY <2>2, c \in Nat
  <2> QED
    BY <1>3, <2>1, <2>3
<1> QED
  BY <1>2, <1>3, <1>5, <1>6, <1>7, <1>8 DEF Reading

LEMMA PeekKeeps ==
  ASSUME text \in Seq(Byte), NEW c \in Nat, NEW xs, NEW r, NEW a, NEW l, NEW k,
         Reading(xs, r, a, c), NEW j \in 0 .. MaxLength - 1
  PROVE  \E ys, q, e : /\ Rust!Peek(Search(xs, r, a, l, k), j) = Search(ys, q, e, l, k)
                       /\ Reading(ys, q, e, c)
                       /\ a <= e
<1>1. MaxLength \in Nat /\ a \in Nat
  BY LzssAssumption DEF Reading
<1>2. CASE j < a \/ xs = <<>>
  <2>1. Rust!Peek(Search(xs, r, a, l, k), j) = Search(xs, r, a, l, k)
    <3>1. PICK s : s = Search(xs, r, a, l, k)
      OBVIOUS
    <3>2. s.ahead = a /\ s.input = xs
      BY <3>1, SearchFields
    <3>3. Rust!Peek(s, j) = s
      BY <1>2, <3>2, Zenon DEF Rust!Peek
    <3> QED
      BY <3>1, <3>3
  <2> QED
    BY <1>1, <2>1
<1>3. CASE ~(j < a) /\ xs # <<>>
  <2>1. a < MaxLength /\ a <= a + 1
    BY <1>1, <1>3
  <2>2. PICK ys, q, e : ys = Tail(xs) /\ q = RingPush(r, Head(xs)) /\ e = a + 1
    OBVIOUS
  <2>3. Reading(ys, q, e, c)
    BY <1>3, <2>1, <2>2, ReadAhead
  <2>4. Rust!Peek(Search(xs, r, a, l, k), j) = Search(ys, q, e, l, k)
    BY <1>3, <2>2, PeekIs
  <2> QED
    BY <2>1, <2>2, <2>3, <2>4
<1> QED
  BY <1>2, <1>3

(* What the compressor finds in its buffer: the bytes to come, and those   *)
(* before them.                                                            *)
LEMMA AheadIs ==
  ASSUME text \in Seq(Byte), NEW c \in Nat, NEW xs, NEW r, NEW a, Reading(xs, r, a, c),
         NEW j \in 0 .. a - 1
  PROVE  RingAt(r, BufferSize - a + j) = text[c + j + 1] /\ c + j + 1 <= Len(text)
<1>1. /\ MaxLength \in Nat /\ Window \in Nat \ {0} /\ BufferSize = Window + MaxLength
      /\ a \in 0 .. MaxLength
  BY LzssAssumption DEF BufferSize, Reading
<1>2. /\ (a - 1) - j \in 0 .. BufferSize - 1
      /\ BufferSize - 1 - ((a - 1) - j) = BufferSize - a + j
      /\ (c + a) - ((a - 1) - j) = c + j + 1 /\ c + j + 1 > 0
  BY <1>1
<1>3. RingAt(r, BufferSize - 1 - ((a - 1) - j)) = Before((c + a) - ((a - 1) - j))
  BY <1>2 DEF Reading, Remembers
<1>4. c + j + 1 <= Len(text)
  <2>1. PICK m, n : m = Len(text) /\ n = Len(xs)
    OBVIOUS
  <2>2. m \in Nat /\ n \in Nat /\ c + a = m - n
    BY <2>1 DEF Reading, Pending
  <2>3. c + j + 1 <= m
    BY ONLY <1>1, <2>2, c \in Nat, j \in 0 .. a - 1
  <2> QED
    BY <2>1, <2>3
<1> QED
  BY <1>2, <1>3, <1>4 DEF Before

LEMMA BackIs ==
  ASSUME text \in Seq(Byte), NEW c \in Nat, NEW xs, NEW r, NEW a, Reading(xs, r, a, c),
         NEW j \in 0 .. a - 1, NEW i \in 0 .. Window - 1
  PROVE  RingAt(r, 2 * BufferSize - a - 1 - i + j) = Before(c + (j + 1) - (i + 1))
<1>1. /\ MaxLength \in Nat /\ Window \in Nat \ {0} /\ BufferSize = Window + MaxLength
      /\ a \in 0 .. MaxLength /\ BufferSize \in Nat \ {0}
  BY LzssAssumption DEF BufferSize, Reading
<1>2. PICK d, n : d = a + i - j /\ n = BufferSize
  OBVIOUS
<1>3. d \in 0 .. n - 1 /\ n - 1 - d \in 0 .. n - 1 /\ (c + a) - d = c + (j + 1) - (i + 1)
      /\ (n - 1 - d) + n = 2 * n - a - 1 - i + j
  BY <1>1, <1>2
<1>4. RingAt(r, n - 1 - d) = Before((c + a) - d)
  BY <1>2, <1>3 DEF Reading, Remembers
<1>5. RingAt(r, (n - 1 - d) + n) = RingAt(r, n - 1 - d)
  BY <1>1, <1>2, <1>3, RingAround DEF Reading
<1> QED
  BY <1>2, <1>3, <1>4, <1>5

LEMMA CopiesMore ==
  ASSUME NEW p \in Nat, NEW m \in Nat, NEW d, Copies(p, m, d), p + m + 1 <= Len(text),
         text[p + m + 1] = Before(p + (m + 1) - d)
  PROVE  Copies(p, m + 1, d)
<1>1. ASSUME NEW j \in 1 .. m + 1
      PROVE  text[p + j] = Before(p + j - d)
  <2>1. CASE j = m + 1
    <3>1. p + j = p + m + 1
      BY <2>1
    <3> QED
      BY <2>1, <3>1
  <2>2. CASE j # m + 1
    <3>1. j \in 1 .. m
      BY <2>2
    <3> QED
      BY <3>1 DEF Copies
  <2> QED
    BY <2>1, <2>2
<1>2. p + (m + 1) <= Len(text)
  <2>1. p + (m + 1) = p + m + 1
    OBVIOUS
  <2> QED
    BY <2>1
<1> QED
  BY <1>1, <1>2 DEF Copies

(* A match i + 1 bytes back that has grown j times; before, low bytes were *)
(* read ahead, and the match found before began at k.                      *)
Growing(s, c, i, k, j, low) ==
  \E xs, r, a, l :
    /\ s = Search(xs, r, a, l, k)
    /\ Reading(xs, r, a, c)
    /\ l \in 0 .. j /\ l <= a /\ low <= a
    /\ Copies(c, l, i + 1)

LEMMA GrowKeeps ==
  ASSUME text \in Seq(Byte), NEW c \in Nat, NEW i \in 0 .. Window - 1, NEW k,
         NEW j \in 0 .. MaxLength - 1, NEW low \in Nat, NEW s, Growing(s, c, i, k, j, low)
  PROVE  Growing(Rust!Grow(s, i, j), c, i, k, j + 1, low)
<1>1. PICK xs, r, a, l : /\ s = Search(xs, r, a, l, k) /\ Reading(xs, r, a, c)
                         /\ l \in 0 .. j /\ l <= a /\ low <= a /\ Copies(c, l, i + 1)
  BY DEF Growing
<1>2. PICK t : t = Rust!Peek(s, j)
  OBVIOUS
<1>3. PICK ys, q, e : t = Search(ys, q, e, l, k) /\ Reading(ys, q, e, c) /\ a <= e
  BY <1>1, <1>2, PeekKeeps
<1>4. /\ a \in Nat /\ e \in Nat /\ j \in Nat /\ l \in 0 .. j + 1 /\ l <= e /\ low <= e
  <2>1. a \in Nat /\ e \in Nat /\ MaxLength \in Nat
    BY <1>1, <1>3, LzssAssumption DEF Reading
  <2> QED
    BY ONLY <1>1, <1>3, <2>1, j \in 0 .. MaxLength - 1, low \in Nat
<1>5. s.length = l /\ t.ahead = e /\ t.buffer = q
  BY <1>1, <1>3, SearchFields
<1>6. CASE Rust!Grow(s, i, j) = s
  <2>1. l \in 0 .. j + 1
    BY <1>4
  <2> QED
    BY <1>1, <1>6, <2>1 DEF Growing
<1>7. CASE Rust!Grow(s, i, j) = t
  BY <1>1, <1>3, <1>4, <1>7 DEF Growing
<1>8. CASE Rust!Grow(s, i, j) # s /\ Rust!Grow(s, i, j) # t
  <2>1. /\ ~(s.length < j) /\ j < t.ahead /\ Rust!Ahead(t, j) = Rust!Back(t, i, j)
        /\ Rust!Grow(s, i, j) = [t EXCEPT !.length = j + 1]
    BY <1>2, <1>8, Zenon DEF Rust!Grow
  <2>2. l = j /\ j \in 0 .. e - 1 /\ j + 1 <= e /\ j + 1 \in 0 .. j + 1
    BY <1>1, <1>4, <1>5, <2>1
  <2>3. [t EXCEPT !.length = j + 1] = Search(ys, q, e, j + 1, k)
    BY <1>3, SearchFields
  <2>4. RingAt(q, BufferSize - e + j) = RingAt(q, 2 * BufferSize - e - 1 - i + j)
    BY <1>5, <2>1, SameRing, Zenon DEF Rust!Ahead, Rust!Back, BufferSize
  <2>5. text[c + j + 1] = Before(c + (j + 1) - (i + 1)) /\ c + j + 1 <= Len(text)
    BY <1>3, <2>2, <2>4, AheadIs, BackIs
  <2>6. Copies(c, j + 1, i + 1)
    BY <1>1, <1>4, <2>2, <2>5, CopiesMore
  <2> QED
    BY <1>3, <1>4, <2>1, <2>2, <2>3, <2>6 DEF Growing
<1> QED
  BY <1>6, <1>7, <1>8

(* The rounds of a match, and that there are such rounds. *)
Grown(g, s, i, n) ==
  g = [j \in 0 .. n |-> IF j = 0
                        THEN {[s EXCEPT !.length = 0]}
                        ELSE {Rust!Grow(t, i, j - 1) : t \in g[j - 1]}]

LEMMA GrownExists ==
  ASSUME NEW s, NEW i, NEW n \in Nat
  PROVE  \E g : Grown(g, s, i, n)
<1> DEFINE S == {m \in Nat : \E g : Grown(g, s, i, m)}
<1>1. 0 \in S
  <2>1. PICK g : g = [j \in 0 .. 0 |-> {[s EXCEPT !.length = 0]}]
    OBVIOUS
  <2>2. Grown(g, s, i, 0)
    BY <2>1 DEF Grown
  <2> QED
    BY <2>2
<1>2. ASSUME NEW m \in 1 .. n, m - 1 \in S
      PROVE  m \in S
  <2>1. PICK g : Grown(g, s, i, m - 1)
    BY <1>2
  <2>2. PICK last : last = {Rust!Grow(t, i, m - 1) : t \in g[m - 1]}
    OBVIOUS
  <2>3. PICK h : h = [j \in 0 .. m |-> IF j < m THEN g[j] ELSE last]
    OBVIOUS
  <2>4. ASSUME NEW j \in 0 .. m
        PROVE  h[j] = IF j = 0 THEN {[s EXCEPT !.length = 0]}
                      ELSE {Rust!Grow(t, i, j - 1) : t \in h[j - 1]}
    <3>1. CASE j = m
      <4>1. h[j] = last /\ h[j - 1] = g[m - 1] /\ j - 1 = m - 1 /\ j # 0
        BY <2>3, <3>1
      <4> QED
        BY <2>2, <4>1, Zenon
    <3>2. CASE j # m
      <4>1. j \in 0 .. m - 1 /\ h[j] = g[j] /\ (j # 0 => h[j - 1] = g[j - 1])
        BY <2>3, <3>2
      <4>2. g[j] = IF j = 0 THEN {[s EXCEPT !.length = 0]}
                   ELSE {Rust!Grow(t, i, j - 1) : t \in g[j - 1]}
        BY <2>1, <4>1, Zenon DEF Grown
      <4> QED
        BY <4>1, <4>2, Zenon
    <3> QED
      BY <3>1, <3>2
  <2>5. Grown(h, s, i, m)
    <3>1. h = [j \in 0 .. m |-> h[j]]
      BY <2>3
    <3> QED
      BY <2>4, <3>1, Zenon DEF Grown
  <2> QED
    BY <2>5
<1>3. 0 .. n \subseteq S
  <2> HIDE DEF S
  <2> QED
    BY <1>1, <1>2, Upwards
<1> QED
  BY <1>3

LEMMA GrownKeeps ==
  ASSUME text \in Seq(Byte), NEW c \in Nat, NEW i \in 0 .. Window - 1, NEW k, NEW low \in Nat,
         NEW s, Growing([s EXCEPT !.length = 0], c, i, k, 0, low),
         NEW g, Grown(g, s, i, MaxLength)
  PROVE  \A t \in g[MaxLength] : Growing(t, c, i, k, MaxLength, low)
<1>1. MaxLength \in Nat /\ MaxLength \in 0 .. MaxLength
  BY ONLY LzssAssumption
<1> DEFINE S == {j \in 0 .. MaxLength : \A t \in g[j] : Growing(t, c, i, k, j, low)}
<1>2. \A j \in 0 .. MaxLength :
        g[j] = IF j = 0 THEN {[s EXCEPT !.length = 0]}
               ELSE {Rust!Grow(t, i, j - 1) : t \in g[j - 1]}
  BY Zenon DEF Grown
<1>3. 0 \in S
  <2>1. 0 \in 0 .. MaxLength
    BY ONLY <1>1
  <2>2. g[0] = {[s EXCEPT !.length = 0]}
    BY <1>2, <2>1, Zenon
  <2>3. \A t \in g[0] : Growing(t, c, i, k, 0, low)
    BY <2>2, Zenon
  <2> QED
    BY <2>1, <2>3, Zenon
<1>4. ASSUME NEW j \in 1 .. MaxLength, j - 1 \in S
      PROVE  j \in S
  <2>1. j \in 0 .. MaxLength /\ j # 0 /\ j - 1 \in 0 .. MaxLength - 1 /\ (j - 1) + 1 = j
    BY <1>1
  <2>2. ASSUME NEW t \in g[j]
        PROVE  Growing(t, c, i, k, j, low)
    <3>1. PICK u \in g[j - 1] : t = Rust!Grow(u, i, j - 1)
      BY <1>2, <2>1, Zenon
    <3>2. Growing(u, c, i, k, j - 1, low)
      BY <1>4
    <3>3. Growing(t, c, i, k, (j - 1) + 1, low)
      BY <2>1, <3>1, <3>2, GrowKeeps
    <3> QED
      BY <2>1, <3>3
  <2> QED
    BY <2>1, <2>2
<1>5. 0 .. MaxLength \subseteq S
  <2> HIDE DEF S
  <2> QED
    BY <1>1, <1>3, <1>4, Upwards
<1> QED
  BY <1>1, <1>5

(* A match found so far: its bytes are read ahead, and repeat the text.    *)
Best(s, c) ==
  \E xs, r, a, l, k :
    /\ s = Search(xs, r, a, l, k)
    /\ Reading(xs, r, a, c)
    /\ l \in 0 .. MaxLength /\ l <= a
    /\ k \in 0 .. Window - 1
    /\ Copies(c, l, k + 1)

LEMMA MatchesAtKeeps ==
  ASSUME text \in Seq(Byte), NEW c \in Nat, NEW i \in 0 .. Window - 1,
         NEW xs, NEW r, NEW a, NEW l, NEW k, Reading(xs, r, a, c),
         NEW t \in Rust!MatchesAt(Search(xs, r, a, l, k), i)
  PROVE  Growing(t, c, i, k, MaxLength, a)
<1>1. PICK s : s = Search(xs, r, a, l, k)
  OBVIOUS
<1> DEFINE Is(grown) ==
             grown = [j \in 0 .. MaxLength |->
                        IF j = 0 THEN {[s EXCEPT !.length = 0]}
                        ELSE {Rust!Grow(u, i, j - 1) : u \in grown[j - 1]}]
           F == CHOOSE grown : Is(grown)
<1>2. Rust!MatchesAt(s, i) = F[MaxLength]
  BY Zenon DEF Rust!MatchesAt
<1>3. MaxLength \in Nat /\ a \in Nat
  BY LzssAssumption DEF Reading
<1>4. PICK g : Is(g)
  <2>1. PICK g : Grown(g, s, i, MaxLength)
    BY <1>3, GrownExists
  <2>2. Is(g)
    BY <2>1, Zenon DEF Grown
  <2> HIDE DEF Is
  <2> QED
    BY <2>2
<1>5. Is(F)
  <2> HIDE DEF Is
  <2> QED
    BY <1>4
<1>6. Grown(F, s, i, MaxLength)
  <2> HIDE DEF F
  <2> QED
    BY <1>5, Zenon DEF Grown
<1>7. Growing([s EXCEPT !.length = 0], c, i, k, 0, a)
  <2>1. [s EXCEPT !.length = 0] = Search(xs, r, a, 0, k)
    BY <1>1, SearchFields
  <2>2. Copies(c, 0, i + 1)
    <3>1. PICK m, n : m = Len(text) /\ n = Len(xs)
      OBVIOUS
    <3>2. c + 0 <= m
      <4>1. m \in Nat /\ n \in Nat /\ c + a = m - n
        BY <3>1 DEF Reading, Pending
      <4> QED
        BY ONLY <1>3, <4>1, c \in Nat
    <3> QED
      BY <3>1, <3>2 DEF Copies
  <2>3. 0 \in 0 .. 0 /\ 0 <= a /\ a <= a
    BY <1>3
  <2> QED
    BY <2>1, <2>2, <2>3 DEF Growing
<1> HIDE DEF F
<1> QED
  BY <1>1, <1>2, <1>3, <1>6, <1>7, GrownKeeps

LEMMA LongerKeeps ==
  ASSUME text \in Seq(Byte), NEW c \in Nat, NEW i \in 0 .. Window - 1,
         NEW b, Best(b, c), NEW s \in Rust!MatchesAt(b, i)
  PROVE  Best(Rust!Longer(s, b, i), c)
<1>1. PICK xs, r, a, l, k :
        /\ b = Search(xs, r, a, l, k) /\ Reading(xs, r, a, c)
        /\ l \in 0 .. MaxLength /\ l <= a /\ k \in 0 .. Window - 1 /\ Copies(c, l, k + 1)
  BY DEF Best
<1>2. Growing(s, c, i, k, MaxLength, a)
  BY <1>1, MatchesAtKeeps
<1>3. PICK ys, q, e, n :
        /\ s = Search(ys, q, e, n, k) /\ Reading(ys, q, e, c)
        /\ n \in 0 .. MaxLength /\ n <= e /\ a <= e /\ Copies(c, n, i + 1)
  BY <1>2 DEF Growing
<1>4. [s EXCEPT !.back = i] = Search(ys, q, e, n, i) /\ [s EXCEPT !.length = l] = Search(ys, q, e, l, k)
  BY <1>3, SearchFields
<1>5. b.length = l
  BY <1>1, SearchFields
<1>6. CASE Rust!Longer(s, b, i) = [s EXCEPT !.back = i]
  BY <1>3, <1>4, <1>6 DEF Best
<1>7. CASE Rust!Longer(s, b, i) = [s EXCEPT !.length = b.length]
  <2>1. l <= e
    <3>1. a \in Nat /\ e \in Nat /\ l \in Nat
      BY <1>1, <1>3, LzssAssumption DEF Reading
    <3> QED
      BY <1>1, <1>3, <3>1
  <2>2. Rust!Longer(s, b, i) = Search(ys, q, e, l, k)
    BY <1>4, <1>5, <1>7
  <2> QED
    BY <1>1, <1>3, <2>1, <2>2 DEF Best
<1> QED
  BY <1>6, <1>7, Zenon DEF Rust!Longer

(* The tries of a search from start. *)
Try(bests, j) ==
  UNION {{Rust!Longer(s, b, Window - j) : s \in Rust!MatchesAt(b, Window - j)} : b \in bests}

LEMMA TryMember ==
  ASSUME NEW bests, NEW j, NEW t \in Try(bests, j)
  PROVE  \E b \in bests : \E s \in Rust!MatchesAt(b, Window - j) : t = Rust!Longer(s, b, Window - j)
BY DEF Try

Tried(g, start, n) ==
  g = [j \in 0 .. n |-> IF j = 0
                        THEN {start}
                        ELSE Try(g[j - 1], j)]

LEMMA TriedExists ==
  ASSUME NEW start, NEW n \in Nat
  PROVE  \E g : Tried(g, start, n)
<1> DEFINE S == {m \in Nat : \E g : Tried(g, start, m)}
<1>1. 0 \in S
  <2>1. PICK g : g = [j \in 0 .. 0 |-> {start}]
    OBVIOUS
  <2>2. Tried(g, start, 0)
    BY <2>1 DEF Tried
  <2> QED
    BY <2>2
<1>2. ASSUME NEW m \in 1 .. n, m - 1 \in S
      PROVE  m \in S
  <2>1. PICK g : Tried(g, start, m - 1)
    BY <1>2
  <2>2. PICK last : last = Try(g[m - 1], m)
    OBVIOUS
  <2>3. PICK h : h = [j \in 0 .. m |-> IF j < m THEN g[j] ELSE last]
    OBVIOUS
  <2>4. ASSUME NEW j \in 0 .. m
        PROVE  h[j] = IF j = 0 THEN {start}
                      ELSE Try(h[j - 1], j)
    <3>1. CASE j = m
      <4>1. h[j] = last /\ h[j - 1] = g[m - 1] /\ j # 0
        BY <2>3, <3>1
      <4> QED
        BY <2>2, <3>1, <4>1, Zenon
    <3>2. CASE j # m
      <4>1. j \in 0 .. m - 1 /\ h[j] = g[j] /\ (j # 0 => h[j - 1] = g[j - 1])
        BY <2>3, <3>2
      <4>2. g[j] = IF j = 0 THEN {start}
                   ELSE Try(g[j - 1], j)
        BY <2>1, <4>1, Zenon DEF Tried
      <4> QED
        BY <4>1, <4>2, Zenon
    <3> QED
      BY <3>1, <3>2
  <2>5. Tried(h, start, m)
    <3>1. h = [j \in 0 .. m |-> h[j]]
      BY <2>3
    <3> QED
      BY <2>4, <3>1, Zenon DEF Tried
  <2> QED
    BY <2>5
<1>3. 0 .. n \subseteq S
  <2> HIDE DEF S
  <2> QED
    BY <1>1, <1>2, Upwards
<1> QED
  BY <1>3

LEMMA TriedKeeps ==
  ASSUME text \in Seq(Byte), NEW c \in Nat, NEW start, Best(start, c),
         NEW g, Tried(g, start, Window)
  PROVE  \A t \in g[Window] : Best(t, c)
<1>1. Window \in Nat /\ Window \in 0 .. Window /\ 0 \in 0 .. Window
  BY ONLY LzssAssumption
<1> DEFINE S == {j \in 0 .. Window : \A t \in g[j] : Best(t, c)}
<1>2. \A j \in 0 .. Window :
        g[j] = IF j = 0 THEN {start}
               ELSE Try(g[j - 1], j)
  BY Zenon DEF Tried
<1>3. 0 \in S
  <2>1. g[0] = {start}
    BY <1>1, <1>2, Zenon
  <2>2. \A t \in g[0] : Best(t, c)
    BY <2>1, Zenon
  <2> QED
    BY <1>1, <2>2, Zenon
<1>4. ASSUME NEW j \in 1 .. Window, j - 1 \in S
      PROVE  j \in S
  <2>1. j \in 0 .. Window /\ j # 0 /\ Window - j \in 0 .. Window - 1
    BY ONLY <1>1, j \in 1 .. Window
  <2>2. ASSUME NEW t \in g[j]
        PROVE  Best(t, c)
    <3>1. t \in Try(g[j - 1], j)
      BY <1>2, <2>1, Zenon
    <3>2. PICK b \in g[j - 1] : \E s \in Rust!MatchesAt(b, Window - j) : t = Rust!Longer(s, b, Window - j)
      BY <3>1, TryMember
    <3>3. Best(b, c)
      BY <1>4
    <3> QED
      BY <2>1, <3>2, <3>3, LongerKeeps
  <2> QED
    BY <2>1, <2>2
<1>5. 0 .. Window \subseteq S
  <2> HIDE DEF S
  <2> QED
    BY <1>1, <1>3, <1>4, Upwards
<1> QED
  BY <1>1, <1>5

LEMMA LongestMatchesKeep ==
  ASSUME text \in Seq(Byte), NEW c \in Nat, Reading(rustInput, rustBuffer, rustAhead, c),
         NEW t \in Rust!LongestMatches
  PROVE  Best(t, c)
<1>1. PICK start : start = Search(rustInput, rustBuffer, rustAhead, 0, 0)
  OBVIOUS
<1> DEFINE Is(best) ==
             best = [j \in 0 .. Window |->
                       IF j = 0 THEN {start}
                       ELSE Try(best[j - 1], j)]
           F == CHOOSE best : Is(best)
<1>2. Rust!LongestMatches = F[Window]
  <2>1. start = [input |-> rustInput, buffer |-> rustBuffer, ahead |-> rustAhead, length |-> 0, back |-> 0]
    BY <1>1 DEF Search
  <2> QED
    BY <2>1, Zenon DEF Rust!LongestMatches, Try
<1>3. Window \in Nat /\ MaxLength \in Nat /\ rustAhead \in Nat /\ 0 \in 0 .. Window - 1
  BY LzssAssumption DEF Reading
<1>4. PICK g : Is(g)
  <2>1. PICK g : Tried(g, start, Window)
    BY <1>3, TriedExists
  <2>2. Is(g)
    BY <2>1, Zenon DEF Tried
  <2> HIDE DEF Is
  <2> QED
    BY <2>2
<1>5. Is(F)
  <2> HIDE DEF Is
  <2> QED
    BY <1>4
<1>6. Tried(F, start, Window)
  <2> HIDE DEF F
  <2> QED
    BY <1>5, Zenon DEF Tried
<1>7. Best(start, c)
  <2>1. Copies(c, 0, 0 + 1)
    <3>1. PICK m, n : m = Len(text) /\ n = Len(rustInput)
      OBVIOUS
    <3>2. c + 0 <= m
      <4>1. m \in Nat /\ n \in Nat /\ c + rustAhead = m - n
        BY <3>1 DEF Reading, Pending
      <4> QED
        BY ONLY <1>3, <4>1, c \in Nat
    <3> QED
      BY <3>1, <3>2 DEF Copies
  <2>2. 0 \in 0 .. MaxLength /\ 0 <= rustAhead
    BY <1>3
  <2> QED
    BY <1>1, <1>3, <2>1, <2>2 DEF Best
<1> HIDE DEF F
<1> QED
  BY <1>2, <1>6, <1>7, TriedKeeps

(* The second byte of a match, which will be in the queue next. *)
Rest == IF rustNext = Rust!None THEN <<>> ELSE <<rustNext>>

RustAt == (Len(text) - Len(rustInput)) - rustAhead

(* The inductive invariant of the compressor of lzss.                      *)
RustInv ==
  /\ RustAt \in Nat
  /\ rustNext \in Nat
  /\ Decompressed(Rest, RustAt)
  /\ Reading(rustInput, rustBuffer, rustAhead, RustAt)

LEMMA RustStarts ==
  ASSUME Rust!Init, text \in Seq(Byte)
  PROVE  RustInv
<1>1. /\ DecompressorInit /\ compressed = <<>> /\ rustInput = text
      /\ rustBuffer = Ring(BufferSize) /\ rustAhead = 0 /\ rustNext = 256
  BY SameRing DEF Rust!Init, Rust!DecompressorInit, DecompressorInit, Rust!None, BufferSize
<1>2. RustAt = 0 /\ Rest = <<>>
  BY <1>1 DEF RustAt, Rest, Rust!None
<1>3. Decompressed(<<>>, 0)
  BY <1>1, DecompressorStarts
<1>4. Reading(rustInput, rustBuffer, rustAhead, 0)
  <2>1. BufferSize \in Nat \ {0} /\ 0 \in Byte /\ 0 \in 0 .. MaxLength
    BY LzssAssumption DEF BufferSize
  <2>2. IsRing(Ring(BufferSize), BufferSize, Byte) /\ Remembers(Ring(BufferSize), BufferSize, 0)
    BY <2>1, NewRing, RemembersNothing
  <2>3. Pending(rustInput) /\ 0 + 0 = Len(text) - Len(rustInput) /\ 0 + 0 = 0
    BY <1>1 DEF Pending
  <2> QED
    BY <1>1, <2>1, <2>2, <2>3 DEF Reading
<1> QED
  BY <1>1, <1>2, <1>3, <1>4 DEF RustInv

LEMMA SameReading ==
  ASSUME UNCHANGED text, NEW xs, NEW r, NEW a, NEW c, Reading(xs, r, a, c)
  PROVE  Reading(xs, r, a, c)'
<1>1. Pending(xs)'
  BY SamePending DEF Reading
<1>2. Remembers(r, BufferSize, c + a)'
  BY Zenon DEF Reading, Remembers, Before
<1> QED
  BY <1>1, <1>2, Zenon DEF Reading

LEMMA RustUpdated ==
  ASSUME RustInv, UNCHANGED <<text, decompressorVars>>,
         NEW more, more = Rest', NEW end \in Nat, end = RustAt', rustNext' \in Nat,
         compressed' \in Seq(Nat), Carries(compressed' \o more, Len(output) + length, end),
         Reading(rustInput', rustBuffer', rustAhead', end)
  PROVE  RustInv'
<1>1. Decompressed(more, end)'
  <2>1. PICK rest, e : rest = Rest /\ e = RustAt
    OBVIOUS
  <2>2. Decompressed(rest, e)
    BY <2>1 DEF RustInv
  <2> QED
    BY <2>2, QueueGrows
<1>2. Reading(rustInput, rustBuffer, rustAhead, RustAt)'
  <2>1. PICK xs, r, a : xs = rustInput' /\ r = rustBuffer' /\ a = rustAhead'
    OBVIOUS
  <2>2. Reading(xs, r, a, end)'
    BY <2>1, SameReading
  <2> QED
    BY <2>1, <2>2
<1>3. Decompressed(Rest, RustAt)'
  BY <1>1
<1> QED
  BY <1>2, <1>3 DEF RustInv

LEMMA RustEnds ==
  ASSUME RustInv, Rust!WriteMatchEnd, UNCHANGED <<text, decompressorVars>>
  PROVE  RustInv'
<1>1. PICK y, e : y = rustNext /\ e = RustAt
  OBVIOUS
<1>2. /\ rustNext # 256 /\ compressed' = Append(compressed, y) /\ rustNext' = 256
      /\ rustInput' = rustInput /\ rustBuffer' = rustBuffer /\ rustAhead' = rustAhead
  BY <1>1 DEF Rust!WriteMatchEnd, Rust!None
<1>3. Rest = <<y>> /\ Rest' = <<>> /\ RustAt' = e
  BY <1>1, <1>2 DEF Rest, RustAt, Rust!None
<1>4. compressed \in Seq(Nat) /\ y \in Nat /\ e \in Nat
      /\ Carries(compressed \o <<y>>, Len(output) + length, e)
      /\ Reading(rustInput', rustBuffer', rustAhead', e)
  BY <1>1, <1>2, <1>3 DEF RustInv, Decompressed
<1>5. compressed' \in Seq(Nat) /\ compressed' \o <<>> = compressed \o <<y>>
  BY <1>2, <1>4
<1>6. Carries(compressed' \o <<>>, Len(output) + length, e)
  BY <1>4, <1>5
<1>7. rustNext' \in Nat
  BY <1>2
<1> QED
  BY <1>3, <1>4, <1>5, <1>6, <1>7, RustUpdated

(* The buffer is the same to a compressor that compressed n more bytes.    *)
LEMMA ReadingOn ==
  ASSUME NEW c \in Nat, NEW xs, NEW r, NEW a, Reading(xs, r, a, c), NEW n \in Nat, n <= a
  PROVE  Reading(xs, r, a - n, c + n)
<1>1. a \in 0 .. MaxLength /\ MaxLength \in Nat
  BY LzssAssumption DEF Reading
<1>2. a - n \in 0 .. MaxLength /\ (c + n) + (a - n) = c + a
  BY ONLY <1>1, c \in Nat, n \in Nat, n <= a
<1> QED
  BY <1>2 DEF Reading

LEMMA RustMatches ==
  ASSUME RustInv, Rust!WriteMatch, UNCHANGED <<text, decompressorVars>>
  PROVE  RustInv'
<1>1. PICK c : c = RustAt
  OBVIOUS
<1>2. /\ text \in Seq(Byte) /\ c \in Nat /\ Reading(rustInput, rustBuffer, rustAhead, c)
      /\ Decompressed(Rest, c) /\ compressed \in Seq(Nat)
      /\ output \in Seq(Byte) /\ length \in Nat
  BY <1>1 DEF RustInv, Decompressed
<1>3. PICK m \in Rust!LongestMatches :
        /\ m.length > 2
        /\ compressed' = Append(compressed, MatchBytes(m.length, m.back)[1])
        /\ rustNext' = MatchBytes(m.length, m.back)[2]
        /\ rustInput' = m.input /\ rustBuffer' = m.buffer /\ rustAhead' = m.ahead - m.length
  BY DEF Rust!WriteMatch, Rust!MinLength, Rust!MatchBytes, MatchBytes
<1>4. rustNext = 256
  BY DEF Rust!WriteMatch, Rust!None
<1>5. Carries(compressed, Len(output) + length, c)
  <2>1. Rest = <<>>
    BY <1>4 DEF Rest, Rust!None
  <2>2. Carries(compressed \o <<>>, Len(output) + length, c)
    BY <1>2, <2>1 DEF Decompressed
  <2>3. compressed \o <<>> = compressed
    BY <1>2
  <2> QED
    BY <2>2, <2>3
<1>6. PICK ys, q, e, n, k :
        /\ m = Search(ys, q, e, n, k) /\ Reading(ys, q, e, c)
        /\ n \in 0 .. MaxLength /\ n <= e /\ k \in 0 .. Window - 1 /\ Copies(c, n, k + 1)
  <2>1. Best(m, c)
    BY <1>2, <1>3, LongestMatchesKeep
  <2> QED
    BY <2>1 DEF Best
<1>7. m.input = ys /\ m.buffer = q /\ m.ahead = e /\ m.length = n /\ m.back = k
  BY <1>6, SearchFields
<1>8. n \in Nat /\ n \in 1 .. 128 /\ k \in 0 .. 255 /\ k \in Nat /\ k # 256
  <2>1. n > 2
    BY <1>3, <1>7
  <2> QED
    BY <1>6, <2>1, LzssAssumption
<1>9. PICK x \in Nat : MatchBytes(n, k) = <<x, k>> /\ x % 2 = 1 /\ x \div 2 + 1 = n
  BY <1>8, MatchCoded
<1>10. compressed' = Append(compressed, x) /\ rustNext' = k
  <2>1. <<x, k>>[1] = x /\ <<x, k>>[2] = k
    OBVIOUS
  <2> QED
    BY <1>3, <1>7, <1>9, <2>1
<1>11. Rest' = <<k>>
  BY <1>8, <1>10 DEF Rest, Rust!None
<1>12. compressed' \in Seq(Nat) /\ compressed' \o <<k>> = compressed \o <<x, k>>
  BY <1>2, <1>8, <1>10
<1>13. Carries(compressed \o <<x, k>>, Len(output) + length, c + n)
  <2>1. Len(output) + length \in Nat /\ Copies(c, x \div 2 + 1, k + 1)
    BY <1>2, <1>6, <1>9
  <2>2. Carries(compressed \o <<x, k>>, Len(output) + length, c + x \div 2 + 1)
    BY <1>2, <1>5, <1>6, <1>9, <2>1, CarriesMatch
  <2>3. c + x \div 2 + 1 = c + n
    BY <1>2, <1>9
  <2> QED
    BY <2>2, <2>3
<1>14. Reading(rustInput', rustBuffer', rustAhead', c + n)
  BY <1>2, <1>3, <1>6, <1>7, <1>8, ReadingOn
<1>15. c + n = RustAt' /\ c + n \in Nat
  <2>1. PICK d : d = Len(text) - Len(ys)
    OBVIOUS
  <2>2. c + e = d /\ e \in Nat
    BY <1>6, <2>1 DEF Reading
  <2>3. RustAt' = d - (e - n)
    BY <1>3, <1>7, <2>1 DEF RustAt
  <2> QED
    BY ONLY <1>2, <1>8, <2>2, <2>3
<1>16. Carries(compressed' \o <<k>>, Len(output) + length, c + n)
  BY <1>12, <1>13
<1>17. rustNext' \in Nat
  BY <1>8, <1>10
<1> QED
  BY <1>11, <1>12, <1>14, <1>15, <1>16, <1>17, RustUpdated

LEMMA RustLiterals ==
  ASSUME RustInv, Rust!WriteLiteral, UNCHANGED <<text, decompressorVars>>
  PROVE  RustInv'
<1>1. PICK c : c = RustAt
  OBVIOUS
<1>2. /\ text \in Seq(Byte) /\ c \in Nat /\ Reading(rustInput, rustBuffer, rustAhead, c)
      /\ Decompressed(Rest, c) /\ compressed \in Seq(Nat)
      /\ output \in Seq(Byte) /\ length \in Nat /\ rustNext \in Nat
  BY <1>1 DEF RustInv, Decompressed
<1>3. PICK m \in Rust!LongestMatches :
        /\ m.ahead > 0
        /\ compressed' = Append(compressed, LiteralByte(Rust!Ahead(m, 0)))
        /\ rustInput' = m.input /\ rustBuffer' = m.buffer /\ rustAhead' = m.ahead - 1
  BY DEF Rust!WriteLiteral, Rust!LiteralByte, LiteralByte
<1>4. rustNext = 256 /\ rustNext' = rustNext
  BY DEF Rust!WriteLiteral, Rust!None
<1>5. Carries(compressed, Len(output) + length, c) /\ Rest' = <<>>
  <2>1. Rest = <<>> /\ Rest' = <<>>
    BY <1>4 DEF Rest, Rust!None
  <2>2. Carries(compressed \o <<>>, Len(output) + length, c)
    BY <1>2, <2>1 DEF Decompressed
  <2>3. compressed \o <<>> = compressed
    BY <1>2
  <2> QED
    BY <2>1, <2>2, <2>3
<1>6. PICK ys, q, e, n, k : m = Search(ys, q, e, n, k) /\ Reading(ys, q, e, c)
  <2>1. Best(m, c)
    BY <1>2, <1>3, LongestMatchesKeep
  <2> QED
    BY <2>1 DEF Best
<1>7. m.input = ys /\ m.buffer = q /\ m.ahead = e
  BY <1>6, SearchFields
<1>8. e \in Nat /\ 1 <= e /\ 0 \in 0 .. e - 1
  <2>1. e \in Nat
    BY <1>6, LzssAssumption DEF Reading
  <2> QED
    BY <1>3, <1>7, <2>1
<1>9. Rust!Ahead(m, 0) = text[c + 0 + 1] /\ c + 0 + 1 <= Len(text)
  <2>1. RingAt(q, BufferSize - e + 0) = text[c + 0 + 1] /\ c + 0 + 1 <= Len(text)
    BY <1>2, <1>6, <1>8, AheadIs
  <2>2. Rust!Ahead(m, 0) = RingAt(q, BufferSize - e + 0)
    BY <1>7, SameRing, Zenon DEF Rust!Ahead, BufferSize
  <2> QED
    BY <2>1, <2>2
<1>10. PICK x : x = text[c + 1]
  OBVIOUS
<1>11. Rust!Ahead(m, 0) = x /\ c < Len(text) /\ x \in 0 .. 127
  <2>1. c + 0 + 1 = c + 1 /\ c < Len(text)
    BY <1>2, <1>9
  <2>2. c + 1 \in 1 .. Len(text)
    BY <1>2, <2>1
  <2>3. x \in Byte
    BY <1>2, <1>10, <2>2
  <2> QED
    BY <1>9, <1>10, <2>1, <2>3, LzssAssumption
<1>12. PICK y : y = LiteralByte(x)
  OBVIOUS
<1>13. y \in Nat /\ y % 2 = 0 /\ text[c + 1] = y \div 2
  BY <1>10, <1>11, <1>12, LiteralCoded
<1>14. compressed' = Append(compressed, y)
  BY <1>3, <1>11, <1>12
<1>15. Len(output) + length \in Nat
  BY <1>2
<1>16. Carries(Append(compressed, y), Len(output) + length, c + 1)
  BY <1>2, <1>5, <1>11, <1>13, <1>15, CarriesLiteral
<1>17. compressed' \in Seq(Nat) /\ compressed' \o <<>> = Append(compressed, y)
  BY <1>2, <1>13, <1>14
<1>18. Reading(rustInput', rustBuffer', rustAhead', c + 1)
  BY <1>2, <1>3, <1>6, <1>7, <1>8, ReadingOn
<1>19. c + 1 = RustAt' /\ c + 1 \in Nat
  <2>1. PICK d : d = Len(text) - Len(ys)
    OBVIOUS
  <2>2. c + e = d
    BY <1>6, <2>1 DEF Reading
  <2>3. RustAt' = d - (e - 1)
    BY <1>3, <1>7, <2>1 DEF RustAt
  <2> QED
    BY ONLY <1>2, <1>8, <2>2, <2>3
<1>20. Carries(compressed' \o <<>>, Len(output) + length, c + 1) /\ rustNext' \in Nat
  BY <1>2, <1>4, <1>16, <1>17
<1> QED
  BY <1>5, <1>17, <1>18, <1>19, <1>20, RustUpdated

LEMMA SameDecompress ==
  Rust!Decompress => Decompress
<1>1. ASSUME NEW x
      PROVE  Rust!Return(x) = Return(x)
  BY SameRing, Zenon DEF Return, Rust!Return
<1>2. Rust!CopyNext => CopyNext
  BY <1>1, SameRing, Zenon DEF CopyNext, Rust!CopyNext
<1>3. Rust!ReadLiteral => ReadLiteral
  BY <1>1, Zenon DEF ReadLiteral, Rust!ReadLiteral
<1>4. Rust!ReadMatch => ReadMatch
  BY <1>1, SameRing, Zenon DEF ReadMatch, Rust!ReadMatch
<1> QED
  BY <1>2, <1>3, <1>4, Zenon DEF Decompress, Rust!Decompress

LEMMA RustStep ==
  ASSUME RustInv, [Rust!Next]_(Rust!vars)
  PROVE  RustInv' /\ [Delivery!Deliver]_(Delivery!vars)
<1>1. CASE Rust!Compress
  <2>1. UNCHANGED <<text, decompressorVars>>
    BY <1>1 DEF Rust!Compress, Rust!decompressorVars, decompressorVars
  <2>2. RustInv'
    BY <1>1, <2>1, RustEnds, RustMatches, RustLiterals DEF Rust!Compress
  <2> QED
    BY <2>1, <2>2 DEF Delivery!vars, decompressorVars
<1>2. CASE Rust!Decompress /\ UNCHANGED Rust!compressorVars
  <2>1. PICK rest, e : rest = Rest /\ e = RustAt
    OBVIOUS
  <2>2. Decompressed(rest, e) /\ rest \in Seq(Nat)
    BY <2>1 DEF RustInv, Rest
  <2>3. Decompressed(rest, e)' /\ Delivery!Deliver /\ UNCHANGED text
    BY <1>2, <2>2, DecompressStep, SameDecompress
  <2>4. UNCHANGED <<rustInput, rustBuffer, rustAhead, rustNext>>
    BY <1>2 DEF Rust!compressorVars
  <2>5. rest = Rest' /\ e = RustAt'
    BY <2>1, <2>3, <2>4 DEF Rest, RustAt
  <2>6. Reading(rustInput, rustBuffer, rustAhead, RustAt)'
    <3>1. PICK xs, r, a : xs = rustInput /\ r = rustBuffer /\ a = rustAhead
      OBVIOUS
    <3>2. Reading(xs, r, a, e)
      BY <2>1, <3>1 DEF RustInv
    <3>3. Reading(xs, r, a, e)'
      BY <2>3, <3>2, SameReading
    <3> QED
      BY <2>4, <2>5, <3>1, <3>3
  <2>7. Decompressed(Rest, RustAt)'
    BY <2>3, <2>5
  <2> QED
    BY <2>1, <2>3, <2>4, <2>5, <2>6, <2>7 DEF RustInv
<1>3. CASE UNCHANGED Rust!vars
  <2>1. UNCHANGED <<text, compressed, rustInput, rustBuffer, rustAhead, rustNext>>
        /\ UNCHANGED decompressorVars
    BY <1>3 DEF Rust!vars, Rust!compressorVars, Rust!decompressorVars, decompressorVars
  <2>2. PICK rest, e : rest = Rest /\ e = RustAt
    OBVIOUS
  <2>3. Decompressed(rest, e) /\ compressed' \in Seq(Nat)
        /\ Carries(compressed' \o rest, Len(output) + length, e)
    BY <2>1, <2>2 DEF RustInv, Decompressed
  <2>4. rest = Rest' /\ e = RustAt' /\ e \in Nat /\ rustNext' \in Nat
    BY <2>1, <2>2 DEF Rest, RustAt, RustInv
  <2>5. Reading(rustInput', rustBuffer', rustAhead', e)
    BY <2>1, <2>2 DEF RustInv
  <2>6. RustInv'
    BY <2>1, <2>3, <2>4, <2>5, RustUpdated
  <2> QED
    BY <2>1, <2>6 DEF Delivery!vars, decompressorVars
<1> QED
  BY <1>1, <1>2, <1>3 DEF Rust!Next

LEMMA RustAlways ==
  ASSUME RustInv
  PROVE  WindowIntact
<1>1. PICK r, a, c : r = rustBuffer /\ a = rustAhead /\ c = RustAt
  OBVIOUS
<1>2. /\ a \in 0 .. MaxLength /\ c \in Nat /\ MaxLength \in Nat /\ Window \in Nat
      /\ BufferSize = Window + MaxLength
      /\ \A k \in 0 .. BufferSize - 1 : RingAt(r, BufferSize - 1 - k) = Before((c + a) - k)
  BY <1>1, LzssAssumption DEF RustInv, Reading, Remembers, BufferSize
<1>3. ASSUME NEW k \in 0 .. Window - 1
      PROVE  RingAt(r, BufferSize - a - 1 - k) = IF k < c THEN text[c - k] ELSE 0
  <2>1. a + k \in 0 .. BufferSize - 1 /\ BufferSize - 1 - (a + k) = BufferSize - a - 1 - k
        /\ (c + a) - (a + k) = c - k /\ (c - k > 0 <=> k < c)
    BY ONLY <1>2, k \in 0 .. Window - 1
  <2> QED
    BY <1>2, <2>1 DEF Before
<1>4. RustAt = Rust!Consumed
  <2>1. PICK m, n : m = Len(text) /\ n = Len(rustInput)
    OBVIOUS
  <2> QED
    BY <2>1 DEF RustAt, Rust!Consumed
<1> QED
  BY <1>1, <1>3, <1>4, SameRing DEF WindowIntact, Rust!WindowIntact, BufferSize

(* Reading ahead, LzssCompressionIterator of lzss never overwrites a byte  *)
(* of its window, which the next match may begin at and the decompressor   *)
(* will have.                                                              *)
THEOREM WindowAlwaysIntact == Rust!Spec /\ text \in Seq(Byte) => []WindowIntact
<1>1. Rust!Init /\ text \in Seq(Byte) => RustInv
  BY RustStarts
<1>2. RustInv /\ [Rust!Next]_(Rust!vars) => RustInv'
  BY RustStep
<1>3. RustInv => WindowIntact
  BY RustAlways
<1> QED
  BY <1>1, <1>2, <1>3, PTL DEF Rust!Spec

(* What the decompressor of lzss returns of the output of the compressor   *)
(* of lzss is the text, byte for byte.                                     *)
THEOREM RustDelivers ==
  Rust!Spec /\ text \in Seq(Byte) => Delivery!Init /\ [][Delivery!Deliver]_(Delivery!vars)
<1>1. Rust!Init /\ text \in Seq(Byte) => RustInv /\ Delivery!Init
  BY RustStarts DEF Rust!Init, Rust!DecompressorInit, Delivery!Init
<1>2. RustInv /\ [Rust!Next]_(Rust!vars) => RustInv' /\ [Delivery!Deliver]_(Delivery!vars)
  BY RustStep
<1> QED
  BY <1>1, <1>2, PTL DEF Rust!Spec

=============================================================================
