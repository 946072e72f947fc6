------------------------------ MODULE PortsProofs ------------------------------
(***************************************************************************)
(* Proofs about Ports: which characters are written as UTF-8 has them, and *)
(* that a port is a stream of bytes, read in any way.                      *)
(*                                                                         *)
(* The bytes of a character first, then what each loop of the read         *)
(* procedures comes to, in closed form, by induction over its rounds; the  *)
(* sequence of characters that a sequence of bytes is (there is one: no    *)
(* byte that follows one of a character begins one); the invariant; and a  *)
(* lemma for each step.                                                    *)
(***************************************************************************)
EXTENDS Ports, WellFoundedInduction, SequenceTheorems, TLAPS

-----------------------------------------------------------------------------
(* Induction over the rounds of a loop, and FlattenSeq, a recursive        *)
(* function of the prefixes of its argument.                               *)

LEMMA Upwards ==
  ASSUME NEW n \in Nat, NEW S, 0 \in S, \A j \in 1 .. n : j - 1 \in S => j \in S
  PROVE  0 .. n \subseteq S
<1> DEFINE Less == {ss \in Nat \X Nat : ss[1] < ss[2]}
           T == {j \in 0 .. n : j \notin S}
<1>1. SUFFICES ASSUME T # {}
               PROVE  FALSE
  OBVIOUS
<1>2. IsWellFoundedOn(Less, Nat)
  BY NatLessThanWellFounded DEF OpToRel
<1>3. T \subseteq Nat
  OBVIOUS
<1>4. PICK least \in T : \A y \in T : <<y, least>> \notin Less
  <2> HIDE DEF Less, T
  <2> QED
    BY <1>1, <1>2, <1>3, WFMin
<1>5. least \in 1 .. n /\ least \notin S
  <2>1. least \in 0 .. n /\ least \notin S
    BY <1>4
  <2> QED
    BY <2>1
<1>6. least - 1 \in T
  BY <1>5
<1>7. <<least - 1, least>> \in Less
  BY <1>5
<1> QED
  BY <1>4, <1>6, <1>7

LEMMA LeastOf ==
  ASSUME NEW S, S \subseteq Nat, S # {}
  PROVE  Min(S) \in S /\ \A n \in S : Min(S) <= n
<1> DEFINE Less == {ss \in Nat \X Nat : ss[1] < ss[2]}
<1>1. IsWellFoundedOn(Less, Nat)
  BY NatLessThanWellFounded DEF OpToRel
<1>2. PICK least \in S : \A n \in S : <<n, least>> \notin Less
  <2> HIDE DEF Less
  <2> QED
    BY <1>1, WFMin
<1>3. ASSUME NEW n \in S
      PROVE  least <= n
  <2>1. <<n, least>> \in Nat \X Nat /\ <<n, least>> \notin Less
    BY <1>2, <1>3
  <2>2. ~(n < least)
    BY <2>1
  <2> QED
    BY <2>2, <1>3
<1> QED
  BY <1>3 DEF Min

LEMMA FirstOf ==
  ASSUME NEW Bad, Bad \subseteq Nat, Bad # {}
  PROVE  \E m \in Bad : m - 1 \notin Bad
<1>1. Min(Bad) \in Bad /\ \A k \in Bad : Min(Bad) <= k
  BY LeastOf
<1>2. PICK m \in Bad : \A k \in Bad : m <= k
  BY <1>1
<1>3. m - 1 \in Bad => m <= m - 1
  BY <1>2
<1>4. m \in Nat
  OBVIOUS
<1>5. ~(m <= m - 1)
  BY <1>4
<1> QED
  BY <1>2, <1>3, <1>5

Flattens(s, T, g, n) ==
  /\ g \in [1 .. n -> Seq(T)]
  /\ \A i \in 1 .. n : g[i] = IF i = 1 THEN s[i] ELSE g[i - 1] \o s[i]

LEMMA FlattenExists ==
  ASSUME NEW T, NEW s \in Seq(Seq(T)), NEW n \in 0 .. Len(s)
  PROVE  \E g : Flattens(s, T, g, n)
<1> DEFINE Bad == {m \in 0 .. Len(s) : ~\E g : Flattens(s, T, g, m)}
<1>1. SUFFICES ASSUME Bad # {}
               PROVE  FALSE
  OBVIOUS
<1>2. Bad \subseteq Nat
  OBVIOUS
<1>3. PICK m \in Bad : m - 1 \notin Bad
  <2> HIDE DEF Bad
  <2> QED
    BY <1>1, <1>2, FirstOf
<1>4. m \in 0 .. Len(s) /\ ~\E g : Flattens(s, T, g, m)
  BY <1>3
<1>5. m # 0
  <2>1. Flattens(s, T, [i \in 1 .. 0 |-> <<>>], 0)
    BY DEF Flattens
  <2> QED
    BY <1>4, <2>1
<1>6. m - 1 \in 0 .. Len(s) /\ m - 1 \notin Bad
  <2>1. m - 1 \in 0 .. Len(s)
    BY <1>4, <1>5
  <2> HIDE DEF Bad
  <2> QED
    BY <1>3, <2>1
<1>7. PICK g : Flattens(s, T, g, m - 1)
  BY <1>6
<1> DEFINE last == IF m = 1 THEN s[1] ELSE g[m - 1] \o s[m]
           h == [i \in 1 .. m |-> IF i < m THEN g[i] ELSE last]
<1>8. s[1] \in Seq(T) /\ s[m] \in Seq(T)
  BY <1>4, <1>5
<1>9. g \in [1 .. m - 1 -> Seq(T)]
      /\ \A i \in 1 .. m - 1 : g[i] = IF i = 1 THEN s[i] ELSE g[i - 1] \o s[i]
  BY <1>7 DEF Flattens
<1>10. last \in Seq(T)
  <2>1. CASE m = 1
    BY <2>1, <1>8
  <2>2. CASE m # 1
    <3>1. g[m - 1] \in Seq(T)
      BY <1>4, <1>5, <1>9, <2>2
    <3> QED
      BY <2>2, <3>1, <1>8, ConcatProperties
  <2> QED
    BY <2>1, <2>2
<1>11. h \in [1 .. m -> Seq(T)]
  <2> HIDE DEF last
  <2>1. \A i \in 1 .. m : i < m => g[i] \in Seq(T)
    BY <1>4, <1>9
  <2> QED
    BY <2>1, <1>10
<1>12. \A i \in 1 .. m : h[i] = IF i = 1 THEN s[i] ELSE h[i - 1] \o s[i]
  <2>1. ASSUME NEW i \in 1 .. m
        PROVE  h[i] = IF i = 1 THEN s[i] ELSE h[i - 1] \o s[i]
    <3>1. CASE i < m
      <4>1. h[i] = g[i] /\ (i # 1 => h[i - 1] = g[i - 1])
        <5> HIDE DEF last
        <5> QED
          BY <1>4, <3>1
      <4>2. g[i] = IF i = 1 THEN s[i] ELSE g[i - 1] \o s[i]
        <5>1. i \in 1 .. m - 1
          BY <1>4, <3>1
        <5> HIDE DEF h
        <5> QED
          BY <1>9, <5>1, Zenon
      <4> HIDE DEF h
      <4> QED
        BY <4>1, <4>2
    <3>2. CASE i = m
      <4>1. h[i] = last /\ (i # 1 => h[i - 1] = g[i - 1])
        <5> HIDE DEF last
        <5> QED
          BY <1>4, <1>5, <3>2
      <4> HIDE DEF h
      <4> QED
        BY <3>2, <4>1
    <3> QED
      BY <1>4, <3>1, <3>2
  <2> QED
    BY <2>1
<1> HIDE DEF h
<1> QED
  BY <1>4, <1>11, <1>12 DEF Flattens

LEMMA FlattenIs ==
  ASSUME NEW T, NEW s \in Seq(Seq(T))
  PROVE  \E g : /\ Flattens(s, T, g, Len(s))
                /\ FlattenSeq(s) = IF s = <<>> THEN <<>> ELSE g[Len(s)]
<1> DEFINE Is(flatten) ==
             flatten = [i \in 1 .. Len(s) |-> IF i = 1 THEN s[i] ELSE flatten[i - 1] \o s[i]]
           F == CHOOSE flatten : Is(flatten)
<1>1. PICK g : Flattens(s, T, g, Len(s))
  BY FlattenExists
<1>2. FlattenSeq(s) = IF s = <<>> THEN <<>> ELSE F[Len(s)]
  <2>1. Len(s) = 0 <=> s = <<>>
    OBVIOUS
  <2>2. FlattenSeq(s) = IF Len(s) = 0 THEN s ELSE F[Len(s)]
    BY Zenon DEF FlattenSeq
  <2> HIDE DEF F
  <2> QED
    BY <2>1, <2>2, Zenon
<1>3. Is(g)
  BY <1>1 DEF Flattens
<1>4. Is(F)
  <2> HIDE DEF Is
  <2> QED
    BY <1>3
<1> HIDE DEF F
<1> DEFINE Bad == {m \in 1 .. Len(s) : F[m] # g[m]}
<1>5. Bad = {}
  <2>1. SUFFICES ASSUME Bad # {}
                 PROVE  FALSE
    OBVIOUS
  <2>2. Bad \subseteq Nat
    OBVIOUS
  <2>3. PICK m \in Bad : m - 1 \notin Bad
    <3> HIDE DEF Bad
    <3> QED
      BY <2>1, <2>2, FirstOf
  <2>4. m \in 1 .. Len(s) /\ F[m] # g[m] /\ m - 1 \notin Bad
    BY <2>3
  <2>5. m # 1 => F[m - 1] = g[m - 1]
    BY <2>4
  <2>6. F[m] = IF m = 1 THEN s[m] ELSE F[m - 1] \o s[m]
    BY <1>4
  <2>7. g[m] = IF m = 1 THEN s[m] ELSE g[m - 1] \o s[m]
    BY <1>1 DEF Flattens
  <2> QED
    BY <2>4, <2>5, <2>6, <2>7
<1>6. s # <<>> => F[Len(s)] = g[Len(s)]
  <2>1. s # <<>> => Len(s) \in 1 .. Len(s)
    OBVIOUS
  <2> QED
    BY <1>5, <2>1
<1> QED
  BY <1>1, <1>2, <1>6

LEMMA FlattenType ==
  ASSUME NEW T, NEW s \in Seq(Seq(T))
  PROVE  FlattenSeq(s) \in Seq(T) /\ FlattenSeq(<<>>) = <<>>
<1>1. PICK g : /\ Flattens(s, T, g, Len(s))
               /\ FlattenSeq(s) = IF s = <<>> THEN <<>> ELSE g[Len(s)]
  BY FlattenIs
<1>2. s # <<>> => Len(s) \in 1 .. Len(s)
  OBVIOUS
<1>3. FlattenSeq(<<>>) = <<>>
  BY DEF FlattenSeq
<1> QED
  BY <1>1, <1>2, <1>3 DEF Flattens

LEMMA Associative ==
  ASSUME NEW T
  PROVE  \A x, y, z \in Seq(T) : (x \o y) \o z = x \o (y \o z)
<1>1. ASSUME NEW x, NEW y, NEW z, x \in Seq(T), y \in Seq(T), z \in Seq(T)
      PROVE  (x \o y) \o z = x \o (y \o z)
  BY <1>1, ConcatAssociative
<1> QED
  BY <1>1

LEMMA FlattenFirst ==
  ASSUME NEW T, NEW s \in Seq(Seq(T)), s # <<>>
  PROVE  FlattenSeq(s) = s[1] \o FlattenSeq(Tail(s))
<1> DEFINE t == Tail(s)
<1>1. t \in Seq(Seq(T)) /\ Len(t) = Len(s) - 1 /\ Len(s) \in Nat \ {0} /\ Len(t) \in Nat
      /\ \A i \in 1 .. Len(t) : t[i] = s[i + 1]
  BY HeadTailProperties
<1> HIDE DEF t
<1>2. PICK f : Flattens(s, T, f, Len(s)) /\ FlattenSeq(s) = f[Len(s)]
  BY FlattenIs
<1>3. PICK g : /\ Flattens(t, T, g, Len(t))
               /\ FlattenSeq(t) = IF t = <<>> THEN <<>> ELSE g[Len(t)]
  BY <1>1, FlattenIs
<1>a. \A i \in 1 .. Len(s) : s[i] \in Seq(T)
  BY ElementOfSeq
<1>b. \A i \in 1 .. Len(t) : t[i] \in Seq(T)
  BY <1>1, ElementOfSeq
<1>c. \A x, y, z \in Seq(T) : (x \o y) \o z = x \o (y \o z)
  BY Associative
<1>4. \A i \in 1 .. Len(s) : /\ f[i] \in Seq(T)
                             /\ f[i] = IF i = 1 THEN s[i] ELSE f[i - 1] \o s[i]
  BY <1>2 DEF Flattens
<1>5. \A i \in 1 .. Len(t) : /\ g[i] \in Seq(T)
                             /\ g[i] = IF i = 1 THEN t[i] ELSE g[i - 1] \o t[i]
  BY <1>1, <1>3 DEF Flattens
<1>6. CASE t = <<>>
  <2>1. Len(s) = 1 /\ FlattenSeq(t) = <<>>
    BY <1>1, <1>3, <1>6
  <2>2. s[1] \o <<>> = s[1]
    BY <1>1, <1>a, ConcatEmptySeq
  <2> QED
    BY <1>2, <1>4, <2>1, <2>2 DEF t
<1>7. CASE t # <<>>
  <2> DEFINE Bad == {m \in 1 .. Len(t) : f[m + 1] # s[1] \o g[m]}
  <2>1. Bad = {}
    <3>1. SUFFICES ASSUME Bad # {}
                   PROVE  FALSE
      OBVIOUS
    <3>2. Bad \subseteq Nat
      <4>1. 1 .. Len(t) \subseteq Nat
        OBVIOUS
      <4>2. Bad \subseteq 1 .. Len(t)
        BY Zenon
      <4> QED
        BY <4>1, <4>2, Zenon
    <3>3. PICK m \in Bad : m - 1 \notin Bad
      <4> HIDE DEF Bad
      <4> QED
        BY <3>1, <3>2, FirstOf
    <3>4. m \in 1 .. Len(t) /\ f[m + 1] # s[1] \o g[m] /\ m - 1 \notin Bad
      BY <3>3
    <3>5. m + 1 \in 1 .. Len(s) /\ m + 1 # 1 /\ (m + 1) - 1 = m
      BY <1>1
    <3>6. f[m + 1] = f[m] \o t[m]
      BY <1>1, <1>4, <3>5
    <3>7. CASE m = 1
      <4>1. f[1] = s[1] /\ g[1] = t[1]
        BY <1>1, <1>4, <1>5, <3>4, <3>7
      <4>2. f[m + 1] = s[1] \o g[m]
        BY <3>6, <3>7, <4>1
      <4> QED
        BY <3>4, <4>2
    <3>8. CASE m # 1
      <4>1. m - 1 \in 1 .. Len(t) /\ (m - 1) + 1 = m
        BY <1>1, <3>8
      <4>2. f[m] = s[1] \o g[m - 1]
        BY <3>4, <4>1
      <4>3. g[m] = g[m - 1] \o t[m]
        BY <1>5, <3>8
      <4>4. (s[1] \o g[m - 1]) \o t[m] = s[1] \o (g[m - 1] \o t[m])
        <5>1. s[1] \in Seq(T) /\ g[m - 1] \in Seq(T) /\ t[m] \in Seq(T)
          BY <1>1, <1>a, <1>b, <1>5, <3>4, <4>1
        <5> QED
          BY <5>1, <1>c, Zenon
      <4> QED
        BY <3>4, <3>6, <4>2, <4>3, <4>4
    <3> QED
      BY <3>7, <3>8
  <2>2. Len(t) \in 1 .. Len(t) /\ Len(t) + 1 = Len(s)
    BY <1>1, <1>7
  <2>3. f[Len(s)] = s[1] \o g[Len(t)]
    BY <2>1, <2>2
  <2> QED
    BY <1>2, <1>3, <1>7, <2>3 DEF t
<1> QED
  BY <1>6, <1>7

(* The last sequence comes last. *)
LEMMA FlattenLast ==
  ASSUME NEW T, NEW s \in Seq(Seq(T)), NEW x \in Seq(T)
  PROVE  FlattenSeq(Append(s, x)) = FlattenSeq(s) \o x
<1> DEFINE t == Append(s, x)
           n == Len(s)
<1>1. /\ t \in Seq(Seq(T)) /\ n \in Nat /\ Len(t) = n + 1 /\ t # <<>>
      /\ \A i \in 1 .. n : t[i] = s[i]
      /\ t[n + 1] = x
  BY AppendProperties
<1>2. PICK f : /\ Flattens(s, T, f, n)
               /\ FlattenSeq(s) = IF s = <<>> THEN <<>> ELSE f[n]
  BY FlattenIs
<1>3. PICK g : Flattens(t, T, g, n + 1) /\ FlattenSeq(t) = g[n + 1]
  BY <1>1, FlattenIs
<1> HIDE DEF t, n
<1>4. \A i \in 1 .. n : f[i] = IF i = 1 THEN s[i] ELSE f[i - 1] \o s[i]
  BY <1>2 DEF Flattens
<1>5. \A i \in 1 .. n + 1 : g[i] = IF i = 1 THEN t[i] ELSE g[i - 1] \o t[i]
  BY <1>3 DEF Flattens
<1>6. CASE n = 0
  <2>1. s = <<>> /\ g[n + 1] = x
    BY <1>1, <1>5, <1>6 DEF n
  <2>2. <<>> \o x = x
    BY ConcatEmptySeq
  <2> QED
    BY <1>2, <1>3, <2>1, <2>2 DEF t
<1>7. CASE n # 0
  <2> DEFINE Same == {i \in 0 .. n : i = 0 \/ f[i] = g[i]}
  <2>1. ASSUME NEW j \in 1 .. n, j - 1 \in Same
        PROVE  j \in Same
    <3>1. f[j] = (IF j = 1 THEN s[j] ELSE f[j - 1] \o s[j])
          /\ g[j] = IF j = 1 THEN s[j] ELSE g[j - 1] \o s[j]
      BY <1>1, <1>4, <1>5
    <3>2. j # 1 => f[j - 1] = g[j - 1]
      BY <2>1
    <3> QED
      BY <1>1, <3>1, <3>2
  <2>2. 0 .. n \subseteq Same
    <3>1. 0 \in Same
      BY <1>1
    <3> HIDE DEF Same
    <3> QED
      BY <1>1, <2>1, <3>1, Upwards
  <2>3. f[n] = g[n]
    BY <1>1, <1>7, <2>2
  <2>4. g[n + 1] = g[n] \o x
    <3>1. n + 1 \in 1 .. n + 1 /\ n + 1 # 1 /\ (n + 1) - 1 = n
      BY <1>1, <1>7
    <3> QED
      BY <1>1, <1>5, <3>1
  <2>5. s # <<>>
    BY <1>7 DEF n
  <2> QED
    BY <1>2, <1>3, <2>3, <2>4, <2>5 DEF t
<1> QED
  BY <1>6, <1>7

-----------------------------------------------------------------------------
(* UTF-8.  A character of the program is one that write-char writes as     *)
(* UTF-8 has it: write-trailing-bytes leaves out a group of six bits that  *)
(* is zero if it is the highest.                                           *)

CodePoints == {x \in Nat : x < 1114112}
Byte == {b \in Nat : b < 256}
Trailing == {b \in Byte : 128 <= b /\ b < 192}

Survives(x) ==
  /\ x \in CodePoints
  /\ 2048 <= x /\ x < 65536 => (x \div 64) % 64 # 0
  /\ 65536 <= x => (x \div 4096) % 64 # 0

LEMMA ParseIs ==
  ASSUME NEW coded \in Seq(Int), Len(coded) \in 1 .. 4
  PROVE  /\ Len(coded) = 1 => ParseChar(coded) = coded[1]
         /\ Len(coded) = 2 => ParseChar(coded) = (64 * coded[1] + (coded[2] - 128)) % 2048
         /\ Len(coded) = 3 =>
              ParseChar(coded) =
                (64 * (64 * coded[1] + (coded[2] - 128)) + (coded[3] - 128)) % 65536
         /\ Len(coded) = 4 =>
              ParseChar(coded) =
                (64 * (64 * (64 * coded[1] + (coded[2] - 128)) + (coded[3] - 128))
                  + (coded[4] - 128)) % 2097152
<1> DEFINE n == Len(coded)
           Round(w, i) == [code |-> 64 * w.code + (coded[i] - 128), size |-> w.size * 32]
           Is(loop) ==
             loop = [i \in 1 .. n |->
                       IF i = 1 THEN [code |-> coded[1], size |-> 64] ELSE Round(loop[i - 1], i)]
           F == CHOOSE loop : Is(loop)
<1>1. ParseChar(coded) = IF n = 1 THEN coded[1] ELSE F[n].code % F[n].size
  BY Zenon DEF ParseChar
<1>2. n \in 1 .. 4
  OBVIOUS
<1>3. PICK one : one = [code |-> coded[1], size |-> 64]
  OBVIOUS
<1>4. PICK two : two = Round(one, 2)
  OBVIOUS
<1>5. PICK three : three = Round(two, 3)
  OBVIOUS
<1>6. PICK four : four = Round(three, 4)
  OBVIOUS
<1>7. /\ two.code = 64 * coded[1] + (coded[2] - 128) /\ two.size = 2048
      /\ three.code = 64 * (64 * coded[1] + (coded[2] - 128)) + (coded[3] - 128)
      /\ three.size = 65536
      /\ four.code = 64 * (64 * (64 * coded[1] + (coded[2] - 128)) + (coded[3] - 128))
                       + (coded[4] - 128)
      /\ four.size = 2097152
  BY <1>3, <1>4, <1>5, <1>6
<1>a. /\ \A i \in 1 .. n : i = 1 \/ i = 2 \/ i = 3 \/ i = 4
      /\ 1 \in 1 .. n
      /\ n = 2 => 2 \in 1 .. n
      /\ n = 3 => 2 \in 1 .. n /\ 3 \in 1 .. n
      /\ n = 4 => 2 \in 1 .. n /\ 3 \in 1 .. n /\ 4 \in 1 .. n
      /\ \A i \in 1 .. n : i # 1 => i - 1 \in 1 .. n
      /\ 2 - 1 = 1 /\ 3 - 1 = 2 /\ 4 - 1 = 3
  <2>1. PICK m : m = n
    OBVIOUS
  <2>2. m \in 1 .. 4
    BY <1>2, <2>1
  <2> HIDE DEF n
  <2> QED
    BY <2>1, <2>2
<1> HIDE DEF Round, n
<1>8. Is(F)
  <2> DEFINE g == [i \in 1 .. n |->
                     IF i = 1 THEN one ELSE IF i = 2 THEN two ELSE IF i = 3 THEN three ELSE four]
             h == [i \in 1 .. n |-> IF i = 1 THEN one ELSE Round(g[i - 1], i)]
  <2>1. ASSUME NEW i \in 1 .. n
        PROVE  g[i] = h[i]
    <3>1. g[i] = IF i = 1 THEN one ELSE IF i = 2 THEN two ELSE IF i = 3 THEN three ELSE four
      OBVIOUS
    <3>2. h[i] = IF i = 1 THEN one ELSE Round(g[i - 1], i)
      <4> HIDE DEF g
      <4> QED
        OBVIOUS
    <3>3. /\ 1 \in 1 .. n => g[1] = one
          /\ 2 \in 1 .. n => g[2] = two
          /\ 3 \in 1 .. n => g[3] = three
      OBVIOUS
    <3>4. i # 1 => i - 1 \in 1 .. n
      BY <1>a
    <3> HIDE DEF g, h
    <3>5. CASE i = 1
      BY <3>1, <3>2, <3>5
    <3>6. CASE i = 2
      BY <1>4, <1>a, <3>1, <3>2, <3>3, <3>4, <3>6
    <3>7. CASE i = 3
      BY <1>5, <1>a, <3>1, <3>2, <3>3, <3>4, <3>7
    <3>8. CASE i = 4
      BY <1>6, <1>a, <3>1, <3>2, <3>3, <3>4, <3>8
    <3> QED
      BY <1>a, <3>5, <3>6, <3>7, <3>8
  <2>2. g = h
    <3>1. g = [i \in 1 .. n |-> g[i]] /\ h = [i \in 1 .. n |-> h[i]]
      <4> DEFINE k == g
      <4>1. g = [i \in 1 .. n |-> g[i]]
        OBVIOUS
      <4>2. h = [i \in 1 .. n |-> h[i]]
        <5> HIDE DEF g
        <5> QED
          OBVIOUS
      <4> QED
        BY <4>1, <4>2
    <3> HIDE DEF g, h
    <3> QED
      BY <2>1, <3>1
  <2>3. Is(g)
    BY <1>3, <2>2, Zenon
  <2> HIDE DEF Is, g
  <2> QED
    BY <2>3
<1> HIDE DEF F
<1>9. \A i \in 1 .. n : F[i] = IF i = 1 THEN one ELSE Round(F[i - 1], i)
  <2>1. F = [i \in 1 .. n |-> IF i = 1 THEN one ELSE Round(F[i - 1], i)]
    BY <1>3, <1>8, Zenon
  <2> QED
    BY <2>1, Zenon
<1>10. n = 2 => F[n] = two
  BY <1>4, <1>9, <1>a
<1>11. n = 3 => F[n] = three
  BY <1>4, <1>5, <1>9, <1>a
<1>12. n = 4 => F[n] = four
  BY <1>4, <1>5, <1>6, <1>9, <1>a
<1>13. /\ n = 1 => ParseChar(coded) = coded[1]
       /\ n = 2 => ParseChar(coded) = two.code % two.size
       /\ n = 3 => ParseChar(coded) = three.code % three.size
       /\ n = 4 => ParseChar(coded) = four.code % four.size
  BY <1>1, <1>10, <1>11, <1>12
<1>14. PICK m : m = n
  OBVIOUS
<1>15. m = Len(coded)
  BY <1>14 DEF n
<1>16. CASE m = 1
  BY <1>13, <1>14, <1>15, <1>16
<1>17. CASE m = 2
  BY <1>7, <1>13, <1>14, <1>15, <1>17
<1>18. CASE m = 3
  BY <1>7, <1>13, <1>14, <1>15, <1>18
<1>19. CASE m = 4
  BY <1>7, <1>13, <1>14, <1>15, <1>19
<1> QED
  BY <1>2, <1>14, <1>16, <1>17, <1>18, <1>19

(* The form of each character. *)
LEMMA Utf8Forms ==
  ASSUME NEW x \in CodePoints
  PROVE  \/ x < 128 /\ Utf8(x) = <<x>>
         \/ /\ 128 <= x /\ x < 2048
            /\ Utf8(x) = <<192 + x \div 64, 128 + (x % 64)>>
         \/ /\ 2048 <= x /\ x < 65536
            /\ Utf8(x) = <<224 + x \div 4096, 128 + ((x \div 64) % 64), 128 + (x % 64)>>
         \/ /\ 65536 <= x /\ x < 1114112
            /\ Utf8(x) = <<240 + x \div 262144, 128 + ((x \div 4096) % 64),
                           128 + ((x \div 64) % 64), 128 + (x % 64)>>
BY DEF CodePoints, Utf8

(* One byte that is not a trailing one, for as many as are. *)
IsCharacter(u) ==
  /\ u \in Seq(Byte)
  /\ Len(u) \in 1 .. 4
  /\ u[1] \notin Trailing
  /\ \A i \in 2 .. Len(u) : u[i] \in Trailing
  /\ Following(u[1]) = Len(u) - 1

LEMMA Utf8Is ==
  ASSUME NEW x \in CodePoints
  PROVE  IsCharacter(Utf8(x)) /\ ParseChar(Utf8(x)) = x
<1>1. x \in Nat /\ x < 1114112
  BY DEF CodePoints
<1>2. CASE x < 128 /\ Utf8(x) = <<x>>
  <2>1. x \in Byte /\ x \notin Trailing /\ Following(x) = 0
    BY <1>1, <1>2 DEF Byte, Trailing, Following
  <2>2. IsCharacter(<<x>>)
    BY <2>1 DEF IsCharacter
  <2>3. ParseChar(<<x>>) = x
    <3>1. PICK u : u = <<x>>
      OBVIOUS
    <3>2. u \in Seq(Int) /\ Len(u) = 1 /\ u[1] = x
      BY <1>1, <3>1
    <3>3. ParseChar(u) = u[1]
      BY <3>2, ParseIs, SMTT(20)
    <3> QED
      BY <3>1, <3>2, <3>3
  <2> QED
    BY <1>2, <2>2, <2>3
<1>3. CASE 128 <= x /\ x < 2048 /\ Utf8(x) = <<192 + x \div 64, 128 + (x % 64)>>
  <2>1. PICK a : a = 192 + x \div 64
    OBVIOUS
  <2>2. PICK b : b = 128 + (x % 64)
    OBVIOUS
  <2>3. /\ a \in Byte /\ a \notin Trailing /\ Following(a) = 1
        /\ b \in Byte /\ b \in Trailing
    BY <1>1, <1>3, <2>1, <2>2 DEF Byte, Trailing, Following
  <2>4. IsCharacter(<<a, b>>)
    BY <2>3 DEF IsCharacter
  <2>5. ParseChar(<<a, b>>) = (64 * a + (b - 128)) % 2048
    <3>1. a \in Int /\ b \in Int
      BY <2>3 DEF Byte
    <3>2. PICK u : u = <<a, b>>
      OBVIOUS
    <3>3. u \in Seq(Int) /\ Len(u) = 2 /\ u[1] = a /\ u[2] = b
      BY <3>1, <3>2
    <3>4. ParseChar(u) = (64 * u[1] + (u[2] - 128)) % 2048
      BY <3>3, ParseIs, SMTT(20)
    <3> QED
      BY <3>2, <3>3, <3>4
  <2>6. 64 * a + (b - 128) = 6 * 2048 + x
    BY <1>1, <2>1, <2>2
  <2>7. (6 * 2048 + x) % 2048 = x
    BY <1>1, <1>3
  <2> QED
    BY <1>3, <2>1, <2>2, <2>4, <2>5, <2>6, <2>7
<1>4. CASE /\ 2048 <= x /\ x < 65536
           /\ Utf8(x) = <<224 + x \div 4096, 128 + ((x \div 64) % 64), 128 + (x % 64)>>
  <2>1. PICK a : a = 224 + x \div 4096
    OBVIOUS
  <2>2. PICK b : b = 128 + ((x \div 64) % 64)
    OBVIOUS
  <2>3. PICK c : c = 128 + (x % 64)
    OBVIOUS
  <2>4. /\ a \in Byte /\ a \notin Trailing /\ Following(a) = 2
        /\ b \in Byte /\ b \in Trailing
        /\ c \in Byte /\ c \in Trailing
    BY <1>1, <1>4, <2>1, <2>2, <2>3 DEF Byte, Trailing, Following
  <2>5. IsCharacter(<<a, b, c>>)
    <3>1. <<a, b, c>> \in Seq(Byte) /\ Len(<<a, b, c>>) = 3
      BY <2>4
    <3>2. \A i \in 2 .. 3 : i = 2 \/ i = 3
      OBVIOUS
    <3> QED
      BY <2>4, <3>1, <3>2 DEF IsCharacter
  <2>6. ParseChar(<<a, b, c>>) = (64 * (64 * a + (b - 128)) + (c - 128)) % 65536
    <3>1. a \in Int /\ b \in Int /\ c \in Int
      BY <2>4 DEF Byte
    <3>2. PICK u : u = <<a, b, c>>
      OBVIOUS
    <3>3. u \in Seq(Int) /\ Len(u) = 3 /\ u[1] = a /\ u[2] = b /\ u[3] = c
      BY <3>1, <3>2
    <3>4. ParseChar(u) = (64 * (64 * u[1] + (u[2] - 128)) + (u[3] - 128)) % 65536
      BY <3>3, ParseIs, SMTT(20)
    <3> QED
      BY <3>2, <3>3, <3>4
  <2>7. 64 * (64 * a + (b - 128)) + (c - 128) = 14 * 65536 + x
    BY <1>1, <2>1, <2>2, <2>3
  <2>8. (14 * 65536 + x) % 65536 = x
    BY <1>1, <1>4
  <2> QED
    BY <1>4, <2>1, <2>2, <2>3, <2>5, <2>6, <2>7, <2>8
<1>5. CASE /\ 65536 <= x /\ x < 1114112
           /\ Utf8(x) = <<240 + x \div 262144, 128 + ((x \div 4096) % 64),
                          128 + ((x \div 64) % 64), 128 + (x % 64)>>
  <2>1. PICK a : a = 240 + x \div 262144
    OBVIOUS
  <2>2. PICK b : b = 128 + ((x \div 4096) % 64)
    OBVIOUS
  <2>3. PICK c : c = 128 + ((x \div 64) % 64)
    OBVIOUS
  <2>4. PICK d : d = 128 + (x % 64)
    OBVIOUS
  <2>5. /\ a \in Byte /\ a \notin Trailing /\ Following(a) = 3
        /\ b \in Byte /\ b \in Trailing
        /\ c \in Byte /\ c \in Trailing
        /\ d \in Byte /\ d \in Trailing
    BY <1>1, <1>5, <2>1, <2>2, <2>3, <2>4 DEF Byte, Trailing, Following
  <2>6. IsCharacter(<<a, b, c, d>>)
    <3>1. <<a, b, c, d>> \in Seq(Byte) /\ Len(<<a, b, c, d>>) = 4
      BY <2>5
    <3>2. \A i \in 2 .. 4 : i = 2 \/ i = 3 \/ i = 4
      OBVIOUS
    <3> QED
      BY <2>5, <3>1, <3>2 DEF IsCharacter
  <2>7. ParseChar(<<a, b, c, d>>) =
          (64 * (64 * (64 * a + (b - 128)) + (c - 128)) + (d - 128)) % 2097152
    <3>1. a \in Int /\ b \in Int /\ c \in Int /\ d \in Int
      BY <2>5 DEF Byte
    <3>2. PICK u : u = <<a, b, c, d>>
      OBVIOUS
    <3>3. u \in Seq(Int) /\ Len(u) = 4 /\ u[1] = a /\ u[2] = b /\ u[3] = c /\ u[4] = d
      BY <3>1, <3>2
    <3>4. ParseChar(u) =
            (64 * (64 * (64 * u[1] + (u[2] - 128)) + (u[3] - 128)) + (u[4] - 128)) % 2097152
      BY <3>3, ParseIs, SMTT(20)
    <3> QED
      BY <3>2, <3>3, <3>4
  <2>8. 64 * (64 * (64 * a + (b - 128)) + (c - 128)) + (d - 128) = 30 * 2097152 + x
    BY <1>1, <2>1, <2>2, <2>3, <2>4
  <2>9. (30 * 2097152 + x) % 2097152 = x
    BY <1>1, <1>5
  <2> QED
    BY <1>5, <2>1, <2>2, <2>3, <2>4, <2>6, <2>7, <2>8, <2>9
<1> QED
  BY <1>2, <1>3, <1>4, <1>5, Utf8Forms

LEMMA ConcatIs ==
  ASSUME NEW T, NEW s \in Seq(T), NEW t \in Seq(T), NEW u \in Seq(T),
         Len(u) = Len(s) + Len(t),
         \A i \in 1 .. Len(s) : u[i] = s[i],
         \A i \in 1 .. Len(t) : u[Len(s) + i] = t[i]
  PROVE  s \o t = u
<1> DEFINE v == s \o t
<1>1. v \in Seq(T) /\ Len(v) = Len(s) + Len(t)
      /\ \A i \in 1 .. Len(s) + Len(t) :
           v[i] = IF i <= Len(s) THEN s[i] ELSE t[i - Len(s)]
  BY ConcatProperties
<1> HIDE DEF v
<1>2. PICK m \in Nat, n \in Nat : m = Len(s) /\ n = Len(t)
  <2>1. Len(s) \in Nat /\ Len(t) \in Nat
    OBVIOUS
  <2> QED
    BY <2>1
<1>3. ASSUME NEW i \in 1 .. m + n
      PROVE  v[i] = u[i]
  <2>1. CASE i <= m
    BY <1>1, <1>2, <2>1
  <2>2. CASE ~(i <= m)
    <3>1. PICK j \in 1 .. n : i = m + j
      <4>1. i - m \in 1 .. n /\ i = m + (i - m)
        BY <1>2, <2>2
      <4> QED
        BY <4>1
    <3>2. i - m = j
      BY <1>2, <3>1
    <3>3. v[i] = t[j]
      BY <1>1, <1>2, <2>2, <3>2
    <3>4. u[i] = t[j]
      BY <1>2, <3>1
    <3> QED
      BY <3>3, <3>4
  <2> QED
    BY <2>1, <2>2
<1>4. v = u
  BY <1>1, <1>2, <1>3, SeqEqual
<1> QED
  BY <1>4 DEF v

LEMMA Alone ==
  ASSUME NEW a \in Int
  PROVE  <<>> \o <<a>> = <<a>>
<1>1. <<a>> \in Seq(Int)
  OBVIOUS
<1> QED
  BY <1>1, ConcatEmptySeq

LEMMA Pair ==
  ASSUME NEW a \in Int, NEW b \in Int
  PROVE  <<a>> \o <<b>> = <<a, b>>
<1>1. PICK s : s = <<a>>
  OBVIOUS
<1>2. PICK t : t = <<b>>
  OBVIOUS
<1>3. PICK u : u = <<a, b>>
  OBVIOUS
<1>4. s \in Seq(Int) /\ Len(s) = 1 /\ s[1] = a
  BY <1>1
<1>5. t \in Seq(Int) /\ Len(t) = 1 /\ t[1] = b
  BY <1>2
<1>6. u \in Seq(Int) /\ Len(u) = 2 /\ u[1] = a /\ u[2] = b
  BY <1>3
<1>7. /\ \A i \in 1 .. Len(s) : u[i] = s[i]
      /\ \A i \in 1 .. Len(t) : u[Len(s) + i] = t[i]
  <2>1. /\ \A i \in 1 .. 1 : i = 1
        /\ \A i \in 1 .. 1 : i = 1
        /\ 1 + 1 = 2
    OBVIOUS
  <2> QED
    BY <1>4, <1>5, <1>6, <2>1
<1>9. Len(u) = Len(s) + Len(t)
  BY <1>4, <1>5, <1>6
<1>8. s \o t = u
  BY <1>4, <1>5, <1>6, <1>7, <1>9, ConcatIs, Zenon
<1> QED
  BY <1>1, <1>2, <1>3, <1>8

LEMMA PairAndOne ==
  ASSUME NEW a \in Int, NEW b \in Int, NEW c \in Int
  PROVE  <<a, b>> \o <<c>> = <<a, b, c>>
<1>1. PICK s : s = <<a, b>>
  OBVIOUS
<1>2. PICK t : t = <<c>>
  OBVIOUS
<1>3. PICK u : u = <<a, b, c>>
  OBVIOUS
<1>4. s \in Seq(Int) /\ Len(s) = 2 /\ s[1] = a /\ s[2] = b
  BY <1>1
<1>5. t \in Seq(Int) /\ Len(t) = 1 /\ t[1] = c
  BY <1>2
<1>6. u \in Seq(Int) /\ Len(u) = 3 /\ u[1] = a /\ u[2] = b /\ u[3] = c
  BY <1>3
<1>7. /\ \A i \in 1 .. Len(s) : u[i] = s[i]
      /\ \A i \in 1 .. Len(t) : u[Len(s) + i] = t[i]
  <2>1. /\ \A i \in 1 .. 2 : i = 1 \/ i = 2
        /\ \A i \in 1 .. 1 : i = 1
        /\ 2 + 1 = 3
    OBVIOUS
  <2> QED
    BY <1>4, <1>5, <1>6, <2>1
<1>9. Len(u) = Len(s) + Len(t)
  BY <1>4, <1>5, <1>6
<1>8. s \o t = u
  BY <1>4, <1>5, <1>6, <1>7, <1>9, ConcatIs, Zenon
<1> QED
  BY <1>1, <1>2, <1>3, <1>8

LEMMA OneAndPair ==
  ASSUME NEW a \in Int, NEW b \in Int, NEW c \in Int
  PROVE  <<a>> \o <<b, c>> = <<a, b, c>>
<1>1. PICK s : s = <<a>>
  OBVIOUS
<1>2. PICK t : t = <<b, c>>
  OBVIOUS
<1>3. PICK u : u = <<a, b, c>>
  OBVIOUS
<1>4. s \in Seq(Int) /\ Len(s) = 1 /\ s[1] = a
  BY <1>1
<1>5. t \in Seq(Int) /\ Len(t) = 2 /\ t[1] = b /\ t[2] = c
  BY <1>2
<1>6. u \in Seq(Int) /\ Len(u) = 3 /\ u[1] = a /\ u[2] = b /\ u[3] = c
  BY <1>3
<1>7. /\ \A i \in 1 .. Len(s) : u[i] = s[i]
      /\ \A i \in 1 .. Len(t) : u[Len(s) + i] = t[i]
  <2>1. /\ \A i \in 1 .. 1 : i = 1
        /\ \A i \in 1 .. 2 : i = 1 \/ i = 2
        /\ 1 + 1 = 2 /\ 1 + 2 = 3
    OBVIOUS
  <2> QED
    BY <1>4, <1>5, <1>6, <2>1
<1>9. Len(u) = Len(s) + Len(t)
  BY <1>4, <1>5, <1>6
<1>8. s \o t = u
  BY <1>4, <1>5, <1>6, <1>7, <1>9, ConcatIs, Zenon
<1> QED
  BY <1>1, <1>2, <1>3, <1>8

LEMMA OneAndTriple ==
  ASSUME NEW a \in Int, NEW b \in Int, NEW c \in Int, NEW d \in Int
  PROVE  <<a>> \o <<b, c, d>> = <<a, b, c, d>>
<1>1. PICK s : s = <<a>>
  OBVIOUS
<1>2. PICK t : t = <<b, c, d>>
  OBVIOUS
<1>3. PICK u : u = <<a, b, c, d>>
  OBVIOUS
<1>4. s \in Seq(Int) /\ Len(s) = 1 /\ s[1] = a
  BY <1>1
<1>5. t \in Seq(Int) /\ Len(t) = 3 /\ t[1] = b /\ t[2] = c /\ t[3] = d
  BY <1>2
<1>6. u \in Seq(Int) /\ Len(u) = 4 /\ u[1] = a /\ u[2] = b /\ u[3] = c /\ u[4] = d
  BY <1>3
<1>7. /\ \A i \in 1 .. Len(s) : u[i] = s[i]
      /\ \A i \in 1 .. Len(t) : u[Len(s) + i] = t[i]
  <2>1. /\ \A i \in 1 .. 1 : i = 1
        /\ \A i \in 1 .. 3 : i = 1 \/ i = 2 \/ i = 3
        /\ 1 + 1 = 2 /\ 1 + 2 = 3 /\ 1 + 3 = 4
    OBVIOUS
  <2> QED
    BY <1>4, <1>5, <1>6, <2>1
<1>9. Len(u) = Len(s) + Len(t)
  BY <1>4, <1>5, <1>6
<1>8. s \o t = u
  BY <1>4, <1>5, <1>6, <1>7, <1>9, ConcatIs, Zenon
<1> QED
  BY <1>1, <1>2, <1>3, <1>8

(* What write-trailing-bytes writes: no byte for the groups above the      *)
(* highest one that is not zero.                                           *)
ThreeGroups == 262144

Groups(n) ==
  IF n < 64 THEN <<128 + n>>
  ELSE IF n < 4096 THEN <<128 + n \div 64, 128 + (n % 64)>>
  ELSE <<128 + n \div 4096, 128 + ((n \div 64) % 64), 128 + (n % 64)>>

LEMMA GroupsStep ==
  ASSUME NEW n \in Nat, n < ThreeGroups
  PROVE  Groups(n) = (IF n \div 64 = 0 THEN <<>> ELSE Groups(n \div 64)) \o <<128 + (n % 64)>>
<1>1. n \div 64 \in Nat /\ n % 64 \in Nat /\ (n \div 64) % 64 \in Nat /\ n \div 4096 \in Nat
      /\ (n \div 64) \div 64 = n \div 4096
  OBVIOUS
<1>2. CASE n < 64
  <2>1. n \div 64 = 0 /\ n % 64 = n
    BY <1>2
  <2> QED
    BY <1>1, <1>2, <2>1, Alone, Pair, PairAndOne DEF Groups
<1>3. CASE 64 <= n /\ n < 4096
  <2>1. n \div 64 # 0 /\ n \div 64 < 64 /\ ~(n < 64)
    BY <1>3
  <2> QED
    BY <1>1, <1>3, <2>1, Alone, Pair, PairAndOne DEF Groups
<1>4. CASE 4096 <= n
  <2>1. n \div 64 # 0 /\ ~(n \div 64 < 64) /\ n \div 64 < 4096 /\ ~(n < 64) /\ ~(n < 4096)
    BY <1>4 DEF ThreeGroups
  <2> QED
    BY <1>1, <1>4, <2>1, Alone, Pair, PairAndOne DEF Groups
<1> QED
  BY <1>2, <1>3, <1>4

LEMMA TrailingIs ==
  ASSUME NEW n \in Nat, n < ThreeGroups
  PROVE  TrailingBytes(n) = Groups(n)
<1> DEFINE Is(f) ==
             f = [m \in 0 .. n |->
                    (IF m \div 64 = 0 THEN <<>> ELSE f[m \div 64]) \o <<128 + (m % 64)>>]
           F == CHOOSE f : Is(f)
           g == [m \in 0 .. n |-> Groups(m)]
<1>1. TrailingBytes(n) = F[n]
  BY DEF TrailingBytes
<1>2. ASSUME NEW m \in 0 .. n
      PROVE  /\ m \in Nat /\ m < ThreeGroups
             /\ m \div 64 \in 0 .. n
  BY DEF ThreeGroups
<1>3. Is(g)
  <2>1. \A m \in 0 .. n : g[m] = Groups(m)
    OBVIOUS
  <2>2. g = [m \in 0 .. n |-> g[m]]
    OBVIOUS
  <2> HIDE DEF g
  <2>3. ASSUME NEW m \in 0 .. n
        PROVE  g[m] = (IF m \div 64 = 0 THEN <<>> ELSE g[m \div 64]) \o <<128 + (m % 64)>>
    <3>1. g[m] = Groups(m) /\ g[m \div 64] = Groups(m \div 64)
      BY <1>2, <2>1
    <3>2. Groups(m) = (IF m \div 64 = 0 THEN <<>> ELSE Groups(m \div 64)) \o <<128 + (m % 64)>>
      BY <1>2, GroupsStep, Zenon
    <3> QED
      BY <3>1, <3>2
  <2> QED
    BY <2>2, <2>3
<1>4. Is(F)
  <2> HIDE DEF Is, g
  <2> QED
    BY <1>3
<1> HIDE DEF F
<1>5. \A m \in 0 .. n : F[m] = (IF m \div 64 = 0 THEN <<>> ELSE F[m \div 64]) \o <<128 + (m % 64)>>
  <2> QED
    BY <1>4
<1> HIDE DEF Is
<1>6. ASSUME NEW m \in 0 .. n, m \div 64 # 0 => F[m \div 64] = Groups(m \div 64)
      PROVE  F[m] = Groups(m)
  <2>1. F[m] = (IF m \div 64 = 0 THEN <<>> ELSE F[m \div 64]) \o <<128 + (m % 64)>>
    BY <1>5
  <2>2. Groups(m) = (IF m \div 64 = 0 THEN <<>> ELSE Groups(m \div 64)) \o <<128 + (m % 64)>>
    BY <1>2, GroupsStep, Zenon
  <2> QED
    BY <1>6, <2>1, <2>2
<1>7. ASSUME NEW m \in 0 .. n, m < 64
      PROVE  F[m] = Groups(m)
  <2>1. m \div 64 = 0
    BY <1>2, <1>7
  <2> QED
    BY <1>6, <2>1
<1>8. ASSUME NEW m \in 0 .. n, m < 4096
      PROVE  F[m] = Groups(m)
  <2>1. m \div 64 \in 0 .. n /\ m \div 64 < 64
    BY <1>2, <1>8
  <2> QED
    BY <1>6, <1>7, <2>1
<1>9. n \in 0 .. n /\ n \div 64 \in 0 .. n /\ n \div 64 < 4096
  BY DEF ThreeGroups
<1> QED
  BY <1>1, <1>6, <1>8, <1>9

(* The bytes of a character, by how many UTF-8 has. *)
IsOne(x) == x < 128
IsTwo(x) == 128 <= x /\ x < 2048
IsThree(x) == 2048 <= x /\ x < 65536
IsFour(x) == 65536 <= x
Two(x) == <<192 + x \div 64>> \o TrailingBytes(x % 64)
Three(x) == <<224 + x \div 4096>> \o TrailingBytes(x % 4096)
Four(x) == <<240 + x \div 262144>> \o TrailingBytes(x % 262144)

LEMMA CharBytesForms ==
  ASSUME NEW x \in CodePoints
  PROVE  /\ IsOne(x) => CharBytes(x) = <<x>>
         /\ IsTwo(x) => CharBytes(x) = Two(x)
         /\ IsThree(x) => CharBytes(x) = Three(x)
         /\ IsFour(x) => CharBytes(x) = Four(x)
<1>1. x \in Nat /\ x < 1114112
  BY DEF CodePoints
<1> DEFINE Fits(i) == /\ x \div (HeadSize[i] * Offset[i]) = 0
                      /\ \A j \in 1 .. i - 1 : x \div (HeadSize[j] * Offset[j]) # 0
           k == CHOOSE i \in 1 .. 3 : Fits(i)
<1>2. CharBytes(x) = IF x \div 128 = 0
                     THEN <<x>>
                     ELSE <<Mask[k] + x \div Offset[k]>> \o TrailingBytes(x % Offset[k])
  BY DEF CharBytes
<1>3. /\ HeadSize[1] * Offset[1] = 2048 /\ HeadSize[2] * Offset[2] = 65536
      /\ HeadSize[3] * Offset[3] = 2097152
      /\ Offset[1] = 64 /\ Offset[2] = 4096 /\ Offset[3] = 262144
      /\ Mask[1] = 192 /\ Mask[2] = 224 /\ Mask[3] = 240
  BY DEF HeadSize, Offset, Mask
<1>4. /\ Fits(1) <=> x < 2048
      /\ Fits(2) <=> 2048 <= x /\ x < 65536
      /\ Fits(3) <=> 65536 <= x
  <2>1. Fits(1) <=> x < 2048
    <3>1. x \div 2048 = 0 <=> x < 2048
      BY <1>1
    <3>2. 1 .. 1 - 1 = {}
      OBVIOUS
    <3> QED
      BY <1>3, <3>1, <3>2
  <2>2. Fits(2) <=> 2048 <= x /\ x < 65536
    <3>1. x \div 2048 # 0 <=> 2048 <= x
      BY <1>1
    <3>2. x \div 65536 = 0 <=> x < 65536
      BY <1>1
    <3>3. 1 .. 2 - 1 = {1}
      OBVIOUS
    <3> QED
      BY <1>3, <3>1, <3>2, <3>3
  <2>3. Fits(3) <=> 65536 <= x
    <3>1. x \div 2048 # 0 <=> 2048 <= x
      BY <1>1
    <3>2. x \div 65536 # 0 <=> 65536 <= x
      BY <1>1
    <3>3. x \div 2097152 = 0
      BY <1>1
    <3>4. 1 .. 3 - 1 = {1, 2}
      OBVIOUS
    <3>5. 65536 <= x => 2048 <= x
      BY <1>1
    <3> QED
      BY <1>3, <3>1, <3>2, <3>3, <3>4, <3>5
  <2> QED
    BY <2>1, <2>2, <2>3
<1> HIDE DEF Fits
<1>5. \A i \in 1 .. 3 : Fits(i) => k = i
  <2>1. \A i, j \in 1 .. 3 : Fits(i) /\ Fits(j) => i = j
    <3>1. \A i \in 1 .. 3 : i = 1 \/ i = 2 \/ i = 3
      OBVIOUS
    <3>2. ~(Fits(1) /\ Fits(2)) /\ ~(Fits(1) /\ Fits(3)) /\ ~(Fits(2) /\ Fits(3))
      BY <1>1, <1>4
    <3> QED
      BY <3>1, <3>2
  <2> QED
    BY <2>1
<1> HIDE DEF k
<1>6. ASSUME x < 128
      PROVE  CharBytes(x) = <<x>>
  <2>1. x \div 128 = 0
    BY <1>1, <1>6
  <2> QED
    BY <1>2, <2>1, Zenon
<1>a. Offset[1] = 64 /\ Offset[2] = 4096 /\ Mask[1] = 192 /\ Mask[2] = 224 /\ Mask[3] = 240
  BY DEF Offset, Mask
<1>b. Offset[3] = 262144
  BY DEF Offset
<1>c. ASSUME x \div 128 # 0, k = 1
      PROVE  CharBytes(x) = <<192 + x \div 64>> \o TrailingBytes(x % 64)
  BY <1>2, <1>a, <1>c, SMT
<1>d. ASSUME x \div 128 # 0, k = 2
      PROVE  CharBytes(x) = <<224 + x \div 4096>> \o TrailingBytes(x % 4096)
  BY <1>2, <1>a, <1>d, SMT
<1>e. ASSUME x \div 128 # 0, k = 3
      PROVE  CharBytes(x) = <<240 + x \div 262144>> \o TrailingBytes(x % 262144)
  BY <1>2, <1>a, <1>b, <1>e, SMT
<1>7. ASSUME 128 <= x, x < 2048
      PROVE  x \div 128 # 0 /\ k = 1
  BY <1>1, <1>4, <1>5, <1>7
<1>8. ASSUME 2048 <= x, x < 65536
      PROVE  x \div 128 # 0 /\ k = 2
  BY <1>1, <1>4, <1>5, <1>8
<1>9. ASSUME 65536 <= x
      PROVE  x \div 128 # 0 /\ k = 3
  BY <1>1, <1>4, <1>5, <1>9
<1>10. IsOne(x) => CharBytes(x) = <<x>>
  BY <1>6 DEF IsOne
<1>11. IsTwo(x) => CharBytes(x) = Two(x)
  BY <1>7, <1>c DEF IsTwo, Two
<1>12. IsThree(x) => CharBytes(x) = Three(x)
  BY <1>8, <1>d DEF IsThree, Three
<1>13. IsFour(x) => CharBytes(x) = Four(x)
  BY <1>9, <1>e DEF IsFour, Four
<1> QED
  BY <1>10, <1>11, <1>12, <1>13, Zenon

(* A character that survives is written as UTF-8 has it. *)
LEMMA CharBytesIs ==
  ASSUME NEW x, Survives(x)
  PROVE  CharBytes(x) = Utf8(x)
<1>a. x \in CodePoints
  BY DEF Survives
<1>1. x \in Nat /\ x < 1114112
  BY <1>a DEF CodePoints
<1>2. /\ IsOne(x) => CharBytes(x) = <<x>>
      /\ IsTwo(x) => CharBytes(x) = Two(x)
      /\ IsThree(x) => CharBytes(x) = Three(x)
      /\ IsFour(x) => CharBytes(x) = Four(x)
  BY <1>a, CharBytesForms, Zenon
<1>6. CASE x < 128
  BY <1>2, <1>6 DEF Utf8, IsOne
<1>7. CASE 128 <= x /\ x < 2048
  <2>2. PICK h : h = 192 + x \div 64
    OBVIOUS
  <2>3. PICK r : r = x % 64
    OBVIOUS
  <2>4. PICK t : t = 128 + (x % 64)
    OBVIOUS
  <2>5. h \in Int /\ r \in Nat /\ r < 64 /\ r < ThreeGroups /\ t = 128 + r /\ t \in Int
    BY <1>1, <2>2, <2>3, <2>4 DEF ThreeGroups
  <2>6. TrailingBytes(r) = <<t>>
    <3>1. TrailingBytes(r) = Groups(r)
      BY <2>5, TrailingIs, Zenon
    <3> QED
      BY <2>5, <3>1 DEF Groups
  <2>7. <<h>> \o <<t>> = <<h, t>>
    BY <2>5, Pair, Zenon
  <2>8. CharBytes(x) = <<h, t>>
    <3>1. CharBytes(x) = <<h>> \o TrailingBytes(r)
      BY <1>2, <1>7, <2>2, <2>3 DEF IsTwo, Two
    <3> QED
      BY <2>6, <2>7, <3>1, Zenon
  <2>9. ~(x < 128)
    BY <1>1, <1>7
  <2> QED
    BY <1>7, <2>2, <2>4, <2>8, <2>9 DEF Utf8
<1>8. CASE 2048 <= x /\ x < 65536
  <2>2. PICK h : h = 224 + x \div 4096
    OBVIOUS
  <2>3. PICK r : r = x % 4096
    OBVIOUS
  <2>4. PICK t : t = 128 + ((x \div 64) % 64)
    OBVIOUS
  <2>5. PICK u : u = 128 + (x % 64)
    OBVIOUS
  <2>6. r \in Nat /\ r < 4096 /\ r \div 64 = (x \div 64) % 64 /\ r % 64 = x % 64
    BY <1>1, <2>3
  <2>7. ~(r < 64)
    BY <1>8, <2>6 DEF Survives
  <2>8. h \in Int /\ t = 128 + r \div 64 /\ u = 128 + (r % 64) /\ t \in Int /\ u \in Int
        /\ r < ThreeGroups
    BY <1>1, <2>2, <2>4, <2>5, <2>6 DEF ThreeGroups
  <2>9. TrailingBytes(r) = <<t, u>>
    <3>1. TrailingBytes(r) = Groups(r)
      <4>1. r \in Nat /\ r < ThreeGroups
        BY <2>6, <2>8
      <4> QED
        BY <4>1, TrailingIs, Zenon
    <3> QED
      BY <2>6, <2>7, <2>8, <3>1 DEF Groups
  <2>10. <<h>> \o <<t, u>> = <<h, t, u>>
    <3>1. h \in Int /\ t \in Int /\ u \in Int
      BY <2>8
    <3> QED
      BY <3>1, OneAndPair, Zenon
  <2>11. CharBytes(x) = <<h, t, u>>
    <3>1. CharBytes(x) = <<h>> \o TrailingBytes(r)
      BY <1>2, <1>8, <2>2, <2>3 DEF IsThree, Three
    <3> QED
      BY <2>9, <2>10, <3>1, Zenon
  <2>12. ~(x < 128) /\ ~(x < 2048)
    BY <1>1, <1>8
  <2> QED
    BY <1>8, <2>2, <2>4, <2>5, <2>11, <2>12 DEF Utf8
<1>9. CASE 65536 <= x
  <2>2. PICK h : h = 240 + x \div 262144
    OBVIOUS
  <2>3. PICK r : r = x % 262144
    OBVIOUS
  <2>4. PICK t : t = 128 + ((x \div 4096) % 64)
    OBVIOUS
  <2>5. PICK u : u = 128 + ((x \div 64) % 64)
    OBVIOUS
  <2>6. PICK v : v = 128 + (x % 64)
    OBVIOUS
  <2>7. /\ r \in Nat /\ r < ThreeGroups
        /\ r \div 4096 = (x \div 4096) % 64
        /\ (r \div 64) % 64 = (x \div 64) % 64
        /\ r % 64 = x % 64
    BY <1>1, <2>3 DEF ThreeGroups
  <2>8. ~(r < 4096)
    BY <1>9, <2>7 DEF Survives
  <2>9. ~(r < 64)
    BY <2>7, <2>8
  <2>10. /\ h \in Int /\ t \in Int /\ u \in Int /\ v \in Int
         /\ t = 128 + r \div 4096 /\ u = 128 + ((r \div 64) % 64) /\ v = 128 + (r % 64)
    BY <1>1, <2>2, <2>4, <2>5, <2>6, <2>7
  <2>11. TrailingBytes(r) = <<t, u, v>>
    <3>1. TrailingBytes(r) = Groups(r)
      <4>1. r \in Nat /\ r < ThreeGroups
        BY <2>7
      <4> QED
        BY <4>1, TrailingIs, Zenon
    <3> QED
      BY <2>8, <2>9, <2>10, <3>1 DEF Groups
  <2>12. <<h>> \o <<t, u, v>> = <<h, t, u, v>>
    <3>1. h \in Int /\ t \in Int /\ u \in Int /\ v \in Int
      BY <2>10
    <3> QED
      BY <3>1, OneAndTriple, Zenon
  <2>13. CharBytes(x) = <<h, t, u, v>>
    <3>1. CharBytes(x) = <<h>> \o TrailingBytes(r)
      BY <1>2, <1>9, <2>2, <2>3 DEF IsFour, Four
    <3> QED
      BY <2>11, <2>12, <3>1, Zenon
  <2>14. ~(x < 128) /\ ~(x < 2048) /\ ~(x < 65536)
    BY <1>1, <1>9
  <2> QED
    BY <2>2, <2>4, <2>5, <2>6, <2>13, <2>14 DEF Utf8
<1> QED
  BY <1>1, <1>6, <1>7, <1>8, <1>9

(* One that does not is written by fewer bytes. *)
LEMMA CharBytesShort ==
  ASSUME NEW x \in CodePoints, ~Survives(x)
  PROVE  CharBytes(x) # Utf8(x)
<1>1. x \in Nat /\ x < 1114112
  BY DEF CodePoints
<1>2. CASE 2048 <= x /\ x < 65536
  <2>1. PICK h, r : h = 224 + x \div 4096 /\ r = x % 4096
    OBVIOUS
  <2>2. h \in Int /\ r \in Nat /\ r < 64 /\ r < ThreeGroups
    BY <1>1, <1>2, <2>1 DEF Survives, ThreeGroups
  <2>3. TrailingBytes(r) = <<128 + r>>
    <3>1. TrailingBytes(r) = Groups(r)
      BY <2>2, TrailingIs, Zenon
    <3> QED
      BY <2>2, <3>1 DEF Groups
  <2>4. CharBytes(x) = <<h>> \o <<128 + r>>
    <3>1. IsThree(x)
      BY <1>2 DEF IsThree
    <3>2. CharBytes(x) = Three(x)
      BY <3>1, CharBytesForms, Zenon
    <3> QED
      BY <2>1, <2>3, <3>2 DEF Three
  <2>5. Len(<<h>> \o <<128 + r>>) = 2
    OBVIOUS
  <2>6. Len(Utf8(x)) = 3
    BY <1>1, <1>2 DEF Utf8
  <2> QED
    BY <2>4, <2>5, <2>6
<1>3. CASE 65536 <= x
  <2>1. PICK h, r : h = 240 + x \div 262144 /\ r = x % 262144
    OBVIOUS
  <2>2. h \in Int /\ r \in Nat /\ r < 4096 /\ r < ThreeGroups
    BY <1>1, <1>3, <2>1 DEF Survives, ThreeGroups
  <2>3. TrailingBytes(r) \in {<<128 + r>>, <<128 + r \div 64, 128 + (r % 64)>>}
    <3>1. TrailingBytes(r) = Groups(r)
      <4>1. r \in Nat /\ r < ThreeGroups
        BY <2>2
      <4> QED
        BY <4>1, TrailingIs, Zenon
    <3> QED
      BY <2>2, <3>1 DEF Groups
  <2>4. CharBytes(x) = <<h>> \o TrailingBytes(r)
    <3>1. IsFour(x)
      BY <1>3 DEF IsFour
    <3>2. CharBytes(x) = Four(x)
      BY <3>1, CharBytesForms, Zenon
    <3> QED
      BY <2>1, <3>2 DEF Four
  <2>5. /\ Len(<<h>> \o <<128 + r>>) = 2
        /\ Len(<<h>> \o <<128 + r \div 64, 128 + (r % 64)>>) = 3
    OBVIOUS
  <2>6. Len(Utf8(x)) = 4
    BY <1>1, <1>3 DEF Utf8
  <2>7. CASE TrailingBytes(r) = <<128 + r>>
    BY <2>4, <2>5, <2>6, <2>7
  <2>8. CASE TrailingBytes(r) = <<128 + r \div 64, 128 + (r % 64)>>
    BY <2>4, <2>5, <2>6, <2>8
  <2> QED
    BY <2>3, <2>7, <2>8
<1> QED
  BY <1>1, <1>2, <1>3 DEF Survives

-----------------------------------------------------------------------------
(* Loops. *)

RestRound(r) ==
  LET s == ReadByte(r.port)
  IN IF r.value = <<>> THEN r
     ELSE Read(IF s.value = EndOfFile THEN <<>> ELSE Append(r.value, s.value), s.port)

(* The values that the rounds of a loop have. *)
RestRun(w, xs, n, p) ==
  w[0] = Read(xs, p) /\ \A i \in 1 .. n : w[i] = RestRound(w[i - 1])
CharRun(w, count, p) ==
  /\ w[0] = Loop(<<>>, p, FALSE)
  /\ \A i \in 1 .. count + 1 :
       w[i] = IF w[i - 1].ended THEN w[i - 1] ELSE CharRound(w[i - 1], count)
ByteRun(w, count, p) ==
  /\ w[0] = Loop(<<>>, p, FALSE)
  /\ \A i \in 1 .. count + 1 :
       w[i] = IF w[i - 1].ended THEN w[i - 1] ELSE ByteRound(w[i - 1], count)
Longest(p) == Len(p.data) + Len(p.source) + 1
LineRun(w, n, p) ==
  /\ w[0] = Loop(<<>>, p, FALSE)
  /\ \A i \in 1 .. n : w[i] = IF w[i - 1].ended THEN w[i - 1] ELSE LineRound(w[i - 1])
IntoRun(w, count, p) ==
  /\ w[0] = Loop(<<>>, p, FALSE)
  /\ \A i \in 1 .. count + 1 :
       w[i] = IF w[i - 1].ended THEN w[i - 1] ELSE IntoRound(w[i - 1], count)

(* The rounds of each loop are those of the model. *)
LEMMA RestAre ==
  ASSUME NEW xs, NEW m \in Nat, NEW p, NEW w, RestRun(w, xs, m, p)
  PROVE  ReadRest(xs, m, p) = w[m]
<1> DEFINE n == m
           first == Read(xs, p)
           Round(x) == RestRound(x)
           Is(f) == f = [i \in 0 .. n |-> IF i = 0 THEN {first} ELSE {Round(x) : x \in f[i - 1]}]
           F == CHOOSE f : Is(f)
           end == CHOOSE x \in F[n] : TRUE
<1>1. ReadRest(xs, m, p) = end
  BY Zenon DEF ReadRest, RestRound
<1>2. n \in Nat
  OBVIOUS
<1>3. w[0] = first /\ \A i \in 1 .. n : w[i] = Round(w[i - 1])
  BY Zenon DEF RestRun
<1> HIDE DEF n, first, Round
<1>4. Is([i \in 0 .. n |-> {w[i]}])
  <2> DEFINE g == [i \in 0 .. n |-> {w[i]}]
  <2>1. \A i \in 0 .. n : g[i] = {w[i]}
    OBVIOUS
  <2>2. g = [i \in 0 .. n |-> g[i]]
    OBVIOUS
  <2> HIDE DEF g
  <2>3. ASSUME NEW i \in 0 .. n
        PROVE  g[i] = IF i = 0 THEN {first} ELSE {Round(x) : x \in g[i - 1]}
    <3>1. CASE i = 0
      BY <1>3, <2>1, <3>1
    <3>2. CASE i # 0
      <4>1. i \in 1 .. n /\ i - 1 \in 0 .. n
        BY <1>2, <3>2
      <4>2. g[i] = {Round(w[i - 1])} /\ g[i - 1] = {w[i - 1]}
        BY <1>3, <2>1, <4>1
      <4> QED
        BY <3>2, <4>2
    <3> QED
      BY <3>1, <3>2
  <2>4. Is(g)
    BY <2>2, <2>3
  <2> QED
    BY <2>4 DEF g
<1>5. Is(F)
  <2> HIDE DEF Is
  <2> QED
    BY <1>4
<1> HIDE DEF F
<1>6. \A i \in 0 .. n : F[i] = IF i = 0 THEN {first} ELSE {Round(x) : x \in F[i - 1]}
  BY <1>5
<1> HIDE DEF Is
<1> DEFINE Same == {i \in 0 .. n : F[i] = {w[i]}}
<1>7. 0 \in Same
  <2>1. 0 \in 0 .. n
    BY <1>2
  <2>2. F[0] = {first}
    BY <1>6, <2>1
  <2> QED
    BY <1>3, <2>1, <2>2
<1>8. ASSUME NEW i \in 1 .. n, i - 1 \in Same
      PROVE  i \in Same
  <2>1. i \in 0 .. n /\ i # 0 /\ F[i - 1] = {w[i - 1]}
    BY <1>2, <1>8
  <2>2. F[i] = {Round(x) : x \in F[i - 1]}
    BY <1>6, <2>1
  <2>3. w[i] = Round(w[i - 1])
    BY <1>3
  <2> QED
    BY <2>1, <2>2, <2>3
<1>9. F[n] = {w[n]}
  <2>1. 0 .. n \subseteq Same
    <3> HIDE DEF Same
    <3> QED
      BY <1>2, <1>7, <1>8, Upwards
  <2> QED
    BY <1>2, <2>1
<1>10. end = w[n]
  BY <1>9
<1> HIDE DEF end
<1> QED
  BY <1>1, <1>10, Zenon DEF n

LEMMA CharsAre ==
  ASSUME NEW count \in Nat, NEW p, NEW w, CharRun(w, count, p)
  PROVE  ReadChars(count, p) = Read(w[count + 1].value, w[count + 1].port)
<1> DEFINE n == count + 1
           first == Loop(<<>>, p, FALSE)
           Round(x) == IF x.ended THEN x ELSE CharRound(x, count)
           Is(f) == f = [i \in 0 .. n |-> IF i = 0 THEN {first} ELSE {Round(x) : x \in f[i - 1]}]
           F == CHOOSE f : Is(f)
           end == CHOOSE x \in F[n] : TRUE
<1>1. ReadChars(count, p) = Read(end.value, end.port)
  BY Zenon DEF ReadChars, Rounds
<1>2. n \in Nat
  OBVIOUS
<1>3. w[0] = first /\ \A i \in 1 .. n : w[i] = Round(w[i - 1])
  BY Zenon DEF CharRun
<1> HIDE DEF n, first, Round
<1>4. Is([i \in 0 .. n |-> {w[i]}])
  <2> DEFINE g == [i \in 0 .. n |-> {w[i]}]
  <2>1. \A i \in 0 .. n : g[i] = {w[i]}
    OBVIOUS
  <2>2. g = [i \in 0 .. n |-> g[i]]
    OBVIOUS
  <2> HIDE DEF g
  <2>3. ASSUME NEW i \in 0 .. n
        PROVE  g[i] = IF i = 0 THEN {first} ELSE {Round(x) : x \in g[i - 1]}
    <3>1. CASE i = 0
      BY <1>3, <2>1, <3>1
    <3>2. CASE i # 0
      <4>1. i \in 1 .. n /\ i - 1 \in 0 .. n
        BY <1>2, <3>2
      <4>2. g[i] = {Round(w[i - 1])} /\ g[i - 1] = {w[i - 1]}
        BY <1>3, <2>1, <4>1
      <4> QED
        BY <3>2, <4>2
    <3> QED
      BY <3>1, <3>2
  <2>4. Is(g)
    BY <2>2, <2>3
  <2> QED
    BY <2>4 DEF g
<1>5. Is(F)
  <2> HIDE DEF Is
  <2> QED
    BY <1>4
<1> HIDE DEF F
<1>6. \A i \in 0 .. n : F[i] = IF i = 0 THEN {first} ELSE {Round(x) : x \in F[i - 1]}
  BY <1>5
<1> HIDE DEF Is
<1> DEFINE Same == {i \in 0 .. n : F[i] = {w[i]}}
<1>7. 0 \in Same
  <2>1. 0 \in 0 .. n
    BY <1>2
  <2>2. F[0] = {first}
    BY <1>6, <2>1
  <2> QED
    BY <1>3, <2>1, <2>2
<1>8. ASSUME NEW i \in 1 .. n, i - 1 \in Same
      PROVE  i \in Same
  <2>1. i \in 0 .. n /\ i # 0 /\ F[i - 1] = {w[i - 1]}
    BY <1>2, <1>8
  <2>2. F[i] = {Round(x) : x \in F[i - 1]}
    BY <1>6, <2>1
  <2>3. w[i] = Round(w[i - 1])
    BY <1>3
  <2> QED
    BY <2>1, <2>2, <2>3
<1>9. F[n] = {w[n]}
  <2>1. 0 .. n \subseteq Same
    <3> HIDE DEF Same
    <3> QED
      BY <1>2, <1>7, <1>8, Upwards
  <2> QED
    BY <1>2, <2>1
<1>10. end = w[n]
  BY <1>9
<1> HIDE DEF end
<1> QED
  BY <1>1, <1>10, Zenon DEF n

LEMMA BytesAre ==
  ASSUME NEW count \in Nat, NEW p, NEW w, ByteRun(w, count, p)
  PROVE  ReadBytes(count, p) = Read(w[count + 1].value, w[count + 1].port)
<1> DEFINE n == count + 1
           first == Loop(<<>>, p, FALSE)
           Round(x) == IF x.ended THEN x ELSE ByteRound(x, count)
           Is(f) == f = [i \in 0 .. n |-> IF i = 0 THEN {first} ELSE {Round(x) : x \in f[i - 1]}]
           F == CHOOSE f : Is(f)
           end == CHOOSE x \in F[n] : TRUE
<1>1. ReadBytes(count, p) = Read(end.value, end.port)
  BY Zenon DEF ReadBytes, Rounds
<1>2. n \in Nat
  OBVIOUS
<1>3. w[0] = first /\ \A i \in 1 .. n : w[i] = Round(w[i - 1])
  BY Zenon DEF ByteRun
<1> HIDE DEF n, first, Round
<1>4. Is([i \in 0 .. n |-> {w[i]}])
  <2> DEFINE g == [i \in 0 .. n |-> {w[i]}]
  <2>1. \A i \in 0 .. n : g[i] = {w[i]}
    OBVIOUS
  <2>2. g = [i \in 0 .. n |-> g[i]]
    OBVIOUS
  <2> HIDE DEF g
  <2>3. ASSUME NEW i \in 0 .. n
        PROVE  g[i] = IF i = 0 THEN {first} ELSE {Round(x) : x \in g[i - 1]}
    <3>1. CASE i = 0
      BY <1>3, <2>1, <3>1
    <3>2. CASE i # 0
      <4>1. i \in 1 .. n /\ i - 1 \in 0 .. n
        BY <1>2, <3>2
      <4>2. g[i] = {Round(w[i - 1])} /\ g[i - 1] = {w[i - 1]}
        BY <1>3, <2>1, <4>1
      <4> QED
        BY <3>2, <4>2
    <3> QED
      BY <3>1, <3>2
  <2>4. Is(g)
    BY <2>2, <2>3
  <2> QED
    BY <2>4 DEF g
<1>5. Is(F)
  <2> HIDE DEF Is
  <2> QED
    BY <1>4
<1> HIDE DEF F
<1>6. \A i \in 0 .. n : F[i] = IF i = 0 THEN {first} ELSE {Round(x) : x \in F[i - 1]}
  BY <1>5
<1> HIDE DEF Is
<1> DEFINE Same == {i \in 0 .. n : F[i] = {w[i]}}
<1>7. 0 \in Same
  <2>1. 0 \in 0 .. n
    BY <1>2
  <2>2. F[0] = {first}
    BY <1>6, <2>1
  <2> QED
    BY <1>3, <2>1, <2>2
<1>8. ASSUME NEW i \in 1 .. n, i - 1 \in Same
      PROVE  i \in Same
  <2>1. i \in 0 .. n /\ i # 0 /\ F[i - 1] = {w[i - 1]}
    BY <1>2, <1>8
  <2>2. F[i] = {Round(x) : x \in F[i - 1]}
    BY <1>6, <2>1
  <2>3. w[i] = Round(w[i - 1])
    BY <1>3
  <2> QED
    BY <2>1, <2>2, <2>3
<1>9. F[n] = {w[n]}
  <2>1. 0 .. n \subseteq Same
    <3> HIDE DEF Same
    <3> QED
      BY <1>2, <1>7, <1>8, Upwards
  <2> QED
    BY <1>2, <2>1
<1>10. end = w[n]
  BY <1>9
<1> HIDE DEF end
<1> QED
  BY <1>1, <1>10, Zenon DEF n

LEMMA LineAre ==
  ASSUME NEW p, NEW n \in Nat, n = Longest(p), NEW w, LineRun(w, n, p)
  PROVE  ReadToNewline(p) = Read(w[n].value, w[n].port)
<1> DEFINE first == Loop(<<>>, p, FALSE)
           Round(x) == IF x.ended THEN x ELSE LineRound(x)
           Is(f) == f = [i \in 0 .. n |-> IF i = 0 THEN {first} ELSE {Round(x) : x \in f[i - 1]}]
           F == CHOOSE f : Is(f)
           end == CHOOSE x \in F[n] : TRUE
<1>1. ReadToNewline(p) = Read(end.value, end.port)
  BY Zenon DEF ReadToNewline, Rounds, Longest
<1>2. n \in Nat
  OBVIOUS
<1>3. w[0] = first /\ \A i \in 1 .. n : w[i] = Round(w[i - 1])
  BY Zenon DEF LineRun
<1> HIDE DEF first, Round
<1>4. Is([i \in 0 .. n |-> {w[i]}])
  <2> DEFINE g == [i \in 0 .. n |-> {w[i]}]
  <2>1. \A i \in 0 .. n : g[i] = {w[i]}
    OBVIOUS
  <2>2. g = [i \in 0 .. n |-> g[i]]
    OBVIOUS
  <2> HIDE DEF g
  <2>3. ASSUME NEW i \in 0 .. n
        PROVE  g[i] = IF i = 0 THEN {first} ELSE {Round(x) : x \in g[i - 1]}
    <3>1. CASE i = 0
      BY <1>3, <2>1, <3>1
    <3>2. CASE i # 0
      <4>1. i \in 1 .. n /\ i - 1 \in 0 .. n
        BY <1>2, <3>2
      <4>2. g[i] = {Round(w[i - 1])} /\ g[i - 1] = {w[i - 1]}
        BY <1>3, <2>1, <4>1
      <4> QED
        BY <3>2, <4>2
    <3> QED
      BY <3>1, <3>2
  <2>4. Is(g)
    BY <2>2, <2>3
  <2> QED
    BY <2>4 DEF g
<1>5. Is(F)
  <2> HIDE DEF Is
  <2> QED
    BY <1>4
<1> HIDE DEF F
<1>6. \A i \in 0 .. n : F[i] = IF i = 0 THEN {first} ELSE {Round(x) : x \in F[i - 1]}
  BY <1>5
<1> HIDE DEF Is
<1> DEFINE Same == {i \in 0 .. n : F[i] = {w[i]}}
<1>7. 0 \in Same
  <2>1. 0 \in 0 .. n
    BY <1>2
  <2>2. F[0] = {first}
    BY <1>6, <2>1
  <2> QED
    BY <1>3, <2>1, <2>2
<1>8. ASSUME NEW i \in 1 .. n, i - 1 \in Same
      PROVE  i \in Same
  <2>1. i \in 0 .. n /\ i # 0 /\ F[i - 1] = {w[i - 1]}
    BY <1>2, <1>8
  <2>2. F[i] = {Round(x) : x \in F[i - 1]}
    BY <1>6, <2>1
  <2>3. w[i] = Round(w[i - 1])
    BY <1>3
  <2> QED
    BY <2>1, <2>2, <2>3
<1>9. F[n] = {w[n]}
  <2>1. 0 .. n \subseteq Same
    <3> HIDE DEF Same
    <3> QED
      BY <1>2, <1>7, <1>8, Upwards
  <2> QED
    BY <1>2, <2>1
<1>10. end = w[n]
  BY <1>9
<1> HIDE DEF end
<1> QED
  BY <1>1, <1>10, Zenon

LEMMA IntoAre ==
  ASSUME NEW count \in Nat, NEW p, NEW w, IntoRun(w, count, p)
  PROVE  ReadInto(count, p) = Read(w[count + 1].value, w[count + 1].port)
<1> DEFINE n == count + 1
           first == Loop(<<>>, p, FALSE)
           Round(x) == IF x.ended THEN x ELSE IntoRound(x, count)
           Is(f) == f = [i \in 0 .. n |-> IF i = 0 THEN {first} ELSE {Round(x) : x \in f[i - 1]}]
           F == CHOOSE f : Is(f)
           end == CHOOSE x \in F[n] : TRUE
<1>1. ReadInto(count, p) = Read(end.value, end.port)
  BY Zenon DEF ReadInto, Rounds
<1>2. n \in Nat
  OBVIOUS
<1>3. w[0] = first /\ \A i \in 1 .. n : w[i] = Round(w[i - 1])
  BY Zenon DEF IntoRun
<1> HIDE DEF n, first, Round
<1>4. Is([i \in 0 .. n |-> {w[i]}])
  <2> DEFINE g == [i \in 0 .. n |-> {w[i]}]
  <2>1. \A i \in 0 .. n : g[i] = {w[i]}
    OBVIOUS
  <2>2. g = [i \in 0 .. n |-> g[i]]
    OBVIOUS
  <2> HIDE DEF g
  <2>3. ASSUME NEW i \in 0 .. n
        PROVE  g[i] = IF i = 0 THEN {first} ELSE {Round(x) : x \in g[i - 1]}
    <3>1. CASE i = 0
      BY <1>3, <2>1, <3>1
    <3>2. CASE i # 0
      <4>1. i \in 1 .. n /\ i - 1 \in 0 .. n
        BY <1>2, <3>2
      <4>2. g[i] = {Round(w[i - 1])} /\ g[i - 1] = {w[i - 1]}
        BY <1>3, <2>1, <4>1
      <4> QED
        BY <3>2, <4>2
    <3> QED
      BY <3>1, <3>2
  <2>4. Is(g)
    BY <2>2, <2>3
  <2> QED
    BY <2>4 DEF g
<1>5. Is(F)
  <2> HIDE DEF Is
  <2> QED
    BY <1>4
<1> HIDE DEF F
<1>6. \A i \in 0 .. n : F[i] = IF i = 0 THEN {first} ELSE {Round(x) : x \in F[i - 1]}
  BY <1>5
<1> HIDE DEF Is
<1> DEFINE Same == {i \in 0 .. n : F[i] = {w[i]}}
<1>7. 0 \in Same
  <2>1. 0 \in 0 .. n
    BY <1>2
  <2>2. F[0] = {first}
    BY <1>6, <2>1
  <2> QED
    BY <1>3, <2>1, <2>2
<1>8. ASSUME NEW i \in 1 .. n, i - 1 \in Same
      PROVE  i \in Same
  <2>1. i \in 0 .. n /\ i # 0 /\ F[i - 1] = {w[i - 1]}
    BY <1>2, <1>8
  <2>2. F[i] = {Round(x) : x \in F[i - 1]}
    BY <1>6, <2>1
  <2>3. w[i] = Round(w[i - 1])
    BY <1>3
  <2> QED
    BY <2>1, <2>2, <2>3
<1>9. F[n] = {w[n]}
  <2>1. 0 .. n \subseteq Same
    <3> HIDE DEF Same
    <3> QED
      BY <1>2, <1>7, <1>8, Upwards
  <2> QED
    BY <1>2, <2>1
<1>10. end = w[n]
  BY <1>9
<1> HIDE DEF end
<1> QED
  BY <1>1, <1>10, Zenon DEF n

-----------------------------------------------------------------------------
(* Sequences from and up to a place. *)

Drop(s, n) == SubSeq(s, n + 1, Len(s))
Take(s, n) == SubSeq(s, 1, n)

LEMMA LenIs ==
  ASSUME NEW T, NEW s \in Seq(T)
  PROVE  /\ Len(s) \in Nat
         /\ \A i \in 1 .. Len(s) : s[i] \in T
         /\ s = <<>> <=> Len(s) = 0
OBVIOUS

LEMMA DropIs ==
  ASSUME NEW T, NEW s \in Seq(T), NEW n \in Nat
  PROVE  /\ Drop(s, n) \in Seq(T)
         /\ Len(Drop(s, n)) = IF n <= Len(s) THEN Len(s) - n ELSE 0
         /\ \A i \in 1 .. Len(s) - n : Drop(s, n)[i] = s[n + i]
<1>1. PICK l \in Nat : l = Len(s)
  BY LenIs
<1>2. \A i \in n + 1 .. l : s[i] \in T
  BY <1>1, LenIs
<1>3. /\ SubSeq(s, n + 1, l) \in Seq(T)
      /\ Len(SubSeq(s, n + 1, l)) = IF n + 1 <= l THEN l - (n + 1) + 1 ELSE 0
      /\ \A i \in 1 .. l - (n + 1) + 1 : SubSeq(s, n + 1, l)[i] = s[(n + 1) + i - 1]
  BY <1>2, SubSeqProperties
<1>4. l - (n + 1) + 1 = l - n /\ \A i \in 1 .. l - n : (n + 1) + i - 1 = n + i
  OBVIOUS
<1>5. PICK d : d = SubSeq(s, n + 1, l)
  OBVIOUS
<1>6. Len(d) = IF n <= l THEN l - n ELSE 0
  BY <1>3, <1>5
<1>7. \A i \in 1 .. l - n : d[i] = s[n + i]
  BY <1>3, <1>4, <1>5
<1> QED
  BY <1>1, <1>3, <1>5, <1>6, <1>7 DEF Drop

LEMMA DropEnds ==
  ASSUME NEW T, NEW s \in Seq(T), NEW n \in Nat
  PROVE  /\ Drop(s, 0) = s
         /\ n >= Len(s) => Drop(s, n) = <<>>
<1>1. Drop(s, 0) = s
  BY SubSeqFull DEF Drop
<1>2. ASSUME n >= Len(s)
      PROVE  Drop(s, n) = <<>>
  <2>1. Len(s) \in Int /\ n + 1 \in Int /\ Len(s) < n + 1
    BY <1>2, LenIs
  <2> QED
    BY <2>1, SubSeqEmpty, Zenon DEF Drop
<1> QED
  BY <1>1, <1>2

LEMMA DropNext ==
  ASSUME NEW T, NEW s \in Seq(T), NEW n \in Nat, n < Len(s)
  PROVE  /\ Drop(s, n) # <<>>
         /\ Head(Drop(s, n)) = s[n + 1]
         /\ Tail(Drop(s, n)) = Drop(s, n + 1)
<1>1. Len(s) \in Nat /\ n + 1 \in 1 .. Len(s) /\ Len(s) \in n + 1 .. Len(s)
  BY LenIs
<1>2. Head(Drop(s, n)) = s[n + 1] /\ Tail(Drop(s, n)) = Drop(s, n + 1)
  BY <1>1, HeadTailOfSubSeq, Zenon DEF Drop
<1>3. Len(Drop(s, n)) # 0
  BY <1>1, DropIs
<1> QED
  BY <1>2, <1>3

LEMMA TakeIs ==
  ASSUME NEW T, NEW s \in Seq(T), NEW n \in 0 .. Len(s)
  PROVE  /\ Take(s, n) \in Seq(T)
         /\ Len(Take(s, n)) = n
         /\ \A i \in 1 .. n : Take(s, n)[i] = s[i]
         /\ Take(s, 0) = <<>>
         /\ Take(s, Len(s)) = s
<1>1. PICK l \in Nat : l = Len(s)
  BY LenIs
<1>2. \A i \in 1 .. n : s[i] \in T
  BY <1>1, LenIs
<1>3. /\ SubSeq(s, 1, n) \in Seq(T)
      /\ Len(SubSeq(s, 1, n)) = IF 1 <= n THEN n - 1 + 1 ELSE 0
      /\ \A i \in 1 .. n - 1 + 1 : SubSeq(s, 1, n)[i] = s[1 + i - 1]
  BY <1>1, <1>2, SubSeqProperties
<1>4. n - 1 + 1 = n /\ \A i \in 1 .. n : 1 + i - 1 = i
  BY <1>1
<1>5. PICK d : d = SubSeq(s, 1, n)
  OBVIOUS
<1>6. Len(d) = n
  BY <1>1, <1>3, <1>5
<1>7. \A i \in 1 .. n : d[i] = s[i]
  BY <1>3, <1>4, <1>5
<1>8. Take(s, 0) = <<>>
  BY SubSeqEmpty DEF Take
<1>9. Take(s, Len(s)) = s
  BY SubSeqFull, Zenon DEF Take
<1> QED
  BY <1>3, <1>5, <1>6, <1>7, <1>8, <1>9 DEF Take

LEMMA TakeNext ==
  ASSUME NEW T, NEW s \in Seq(T), NEW n \in Nat, n < Len(s)
  PROVE  Append(Take(s, n), s[n + 1]) = Take(s, n + 1)
<1>1. Len(s) \in Nat /\ n + 1 \in 1 .. Len(s) /\ 1 \in 1 .. Len(s) /\ (n + 1) - 1 = n
      /\ n \in 0 .. Len(s) /\ s[n + 1] \in T
  BY LenIs
<1>2. SubSeq(s, 1, n + 1) = SubSeq(s, 1, (n + 1) - 1) \o <<s[n + 1]>>
  BY <1>1, SubSeqRecursiveSecond
<1>3. Take(s, n) \in Seq(T)
  BY <1>1, TakeIs
<1>4. Append(Take(s, n), s[n + 1]) = Take(s, n) \o <<s[n + 1]>>
  BY <1>1, <1>3, AppendIsConcat
<1> QED
  BY <1>1, <1>2, <1>4 DEF Take

LEMMA TakeDrop ==
  ASSUME NEW T, NEW s \in Seq(T), NEW n \in 0 .. Len(s)
  PROVE  Take(s, n) \o Drop(s, n) = s
<1>1. Len(s) \in Nat /\ 1 \in 1 .. Len(s) + 1 /\ n \in 1 - 1 .. Len(s) /\ Len(s) \in n .. Len(s)
  BY LenIs
<1>2. SubSeq(s, 1, n) \o SubSeq(s, n + 1, Len(s)) = SubSeq(s, 1, Len(s))
  BY <1>1, ConcatAdjacentSubSeq
<1> QED
  BY <1>2, SubSeqFull DEF Take, Drop

LEMMA FirstIs ==
  ASSUME NEW T, NEW s \in Seq(T), s # <<>>
  PROVE  /\ Head(s) = s[1] /\ s[1] \in T
         /\ Tail(s) = Drop(s, 1) /\ Tail(s) \in Seq(T)
         /\ Len(s) >= 1
         /\ <<s[1]>> \o Tail(s) = s
<1>1. Len(s) \in Nat /\ Len(s) >= 1
  BY LenIs
<1>2. Head(s) = s[1] /\ s[1] \in T
  BY <1>1, LenIs
<1>3. Tail(s) = Drop(s, 1)
  BY TailIsSubSeq DEF Drop
<1>4. Take(s, 1) = <<s[1]>>
  <2>1. Append(Take(s, 0), s[1]) = Take(s, 1)
    <3>1. 0 \in Nat /\ 0 < Len(s) /\ 0 + 1 = 1
      BY <1>1
    <3>2. Append(Take(s, 0), s[0 + 1]) = Take(s, 0 + 1)
      BY <3>1, TakeNext
    <3> QED
      BY <3>1, <3>2
  <2>2. Take(s, 0) = <<>>
    BY <1>1, TakeIs
  <2>3. Append(<<>>, s[1]) = <<s[1]>>
    OBVIOUS
  <2> QED
    BY <2>1, <2>2, <2>3
<1>5. Take(s, 1) \o Drop(s, 1) = s
  BY <1>1, TakeDrop
<1> QED
  BY <1>1, <1>2, <1>3, <1>4, <1>5, HeadTailProperties

LEMMA CancelLeft ==
  ASSUME NEW T, NEW s \in Seq(T), NEW t \in Seq(T), NEW v \in Seq(T), s \o t = s \o v
  PROVE  t = v
BY ConcatSimplifications, Zenon

LEMMA ConcatFirst ==
  ASSUME NEW T, NEW s \in Seq(T), NEW t \in Seq(T), s # <<>>
  PROVE  /\ s \o t # <<>> /\ s \o t \in Seq(T)
         /\ Head(s \o t) = Head(s)
         /\ Tail(s \o t) = Tail(s) \o t
<1>1. s[1] \in T /\ Tail(s) \in Seq(T) /\ <<s[1]>> \o Tail(s) = s /\ Head(s) = s[1]
  BY FirstIs
<1>2. s \o t \in Seq(T) /\ s \o t # <<>>
  BY ConcatProperties, ConcatEqualIffEmpty
<1>3. (s \o t)[1] = s[1]
  BY <1>2, ConcatProperties, FirstIs
<1>4. Head(s \o t) = (s \o t)[1] /\ <<(s \o t)[1]>> \o Tail(s \o t) = s \o t
      /\ Tail(s \o t) \in Seq(T)
  BY <1>2, FirstIs
<1>5. s \o t = <<s[1]>> \o (Tail(s) \o t)
  <2>1. <<s[1]>> \in Seq(T)
    BY <1>1
  <2> QED
    <3>1. (<<s[1]>> \o Tail(s)) \o t = <<s[1]>> \o (Tail(s) \o t)
      BY <1>1, <2>1, ConcatAssociative
    <3> QED
      BY <1>1, <3>1, Zenon
<1>6. Tail(s \o t) = Tail(s) \o t
  <2>1. <<s[1]>> \in Seq(T) /\ Tail(s) \o t \in Seq(T)
    BY <1>1, ConcatProperties
  <2>2. <<s[1]>> \o Tail(s \o t) = <<s[1]>> \o (Tail(s) \o t)
    BY <1>3, <1>4, <1>5, Zenon
  <2> QED
    BY <1>4, <2>1, <2>2, CancelLeft
<1> QED
  BY <1>2, <1>3, <1>4, <1>6, <1>1

LEMMA ConcatTaken ==
  ASSUME NEW T, NEW s \in Seq(T), NEW t \in Seq(T)
  PROVE  /\ Take(s \o t, Len(s)) = s
         /\ Drop(s \o t, Len(s)) = t
         /\ Len(s \o t) = Len(s) + Len(t)
         /\ s \o t \in Seq(T)
<1> DEFINE v == s \o t
<1>1. /\ v \in Seq(T) /\ Len(v) = Len(s) + Len(t)
      /\ \A i \in 1 .. Len(s) + Len(t) : v[i] = IF i <= Len(s) THEN s[i] ELSE t[i - Len(s)]
  BY ConcatProperties
<1>2. v = s \o t
  OBVIOUS
<1> HIDE DEF v
<1>3. Len(s) \in Nat /\ Len(t) \in Nat /\ Len(s) \in 0 .. Len(v)
  BY <1>1, LenIs
<1>4. PICK w : w = Take(v, Len(s))
  OBVIOUS
<1>5. w \in Seq(T) /\ Len(w) = Len(s) /\ \A i \in 1 .. Len(s) : w[i] = v[i]
  BY <1>1, <1>3, <1>4, TakeIs
<1>6. \A i \in 1 .. Len(s) : i \in 1 .. Len(s) + Len(t) /\ i <= Len(s)
  BY <1>3
<1>7. w = s
  BY <1>1, <1>5, <1>6, SeqEqual
<1>8. Take(v, Len(s)) \o Drop(v, Len(s)) = v /\ Drop(v, Len(s)) \in Seq(T)
  BY <1>1, <1>3, TakeDrop, DropIs
<1>9. s \o Drop(v, Len(s)) = s \o t
  BY <1>2, <1>4, <1>7, <1>8
<1>10. Drop(v, Len(s)) = t
  BY <1>8, <1>9, CancelLeft
<1> QED
  BY <1>1, <1>2, <1>4, <1>7, <1>10

LEMMA PrefixIs ==
  ASSUME NEW T, NEW u \in Seq(T), NEW s \in Seq(T)
  PROVE  /\ IsPrefix(u, s) =>
              /\ Len(u) <= Len(s)
              /\ s = u \o Drop(s, Len(u))
         /\ \A t \in Seq(T) : s = u \o t => IsPrefix(u, s)
<1>1. Len(u) \in Nat /\ Len(s) \in Nat
  BY LenIs
<1>2. SubSeq(u, 1, Len(u)) = u
  BY SubSeqFull
<1>3. ASSUME IsPrefix(u, s)
      PROVE  Len(u) <= Len(s) /\ s = u \o Drop(s, Len(u))
  <2>1. Len(u) <= Len(s) /\ Take(s, Len(u)) = u
    BY <1>2, <1>3 DEF IsPrefix, Take
  <2>2. Len(u) \in 0 .. Len(s)
    BY <1>1, <2>1
  <2> QED
    BY <2>1, <2>2, TakeDrop
<1>4. ASSUME NEW t \in Seq(T), s = u \o t
      PROVE  IsPrefix(u, s)
  <2>1. Take(s, Len(u)) = u /\ Len(s) = Len(u) + Len(t) /\ Len(t) \in Nat
    BY <1>4, ConcatTaken, LenIs
  <2> QED
    BY <1>1, <1>2, <2>1 DEF IsPrefix, Take
<1> QED
  BY <1>3, <1>4

(* A sequence of bytes begins with one character at most. *)
LEMMA OneCharacter ==
  ASSUME NEW u, NEW v, IsCharacter(u), IsCharacter(v), NEW s \in Seq(Byte), NEW t \in Seq(Byte),
         u \o s = v \o t
  PROVE  u = v /\ s = t
<1>1. u \in Seq(Byte) /\ v \in Seq(Byte) /\ Len(u) \in Nat /\ Len(v) \in Nat
  BY LenIs DEF IsCharacter
<1>2. u # <<>> /\ v # <<>>
  BY LenIs DEF IsCharacter
<1>3. u[1] = v[1]
  <2>1. Head(u \o s) = u[1] /\ Head(v \o t) = v[1]
    BY <1>1, <1>2, ConcatFirst, FirstIs
  <2> QED
    BY <2>1
<1>4. Len(u) = Len(v)
  BY <1>1, <1>3 DEF IsCharacter
<1>5. Take(u \o s, Len(u)) = u /\ Take(v \o t, Len(v)) = v
  BY <1>1, ConcatTaken
<1>6. Drop(u \o s, Len(u)) = s /\ Drop(v \o t, Len(v)) = t
  BY <1>1, ConcatTaken
<1> QED
  BY <1>4, <1>5, <1>6

-----------------------------------------------------------------------------
(* Reading a byte, and a character where one begins.                       *)

Ended == <<EndOfFile>>

IsPort(p) ==
  /\ p \in [data : Seq(Byte) \cup {Ended}, source : Seq(Byte)]
  /\ p.data = Ended => p.source = <<>>

(* What a port has for its reader. *)
Left(p) == (IF p.data = Ended THEN <<>> ELSE p.data) \o p.source

NoMore == [data |-> <<>>, source |-> <<>>]

LEMMA EndedIs ==
  /\ Ended \notin Seq(Byte) /\ Ended # <<>>
  /\ Head(Ended) = EndOfFile /\ Tail(Ended) = <<>> /\ Len(Ended) = 1
  /\ EndOfFile \notin Byte /\ EndOfFile \notin CodePoints
<1>1. EndOfFile \notin Byte /\ EndOfFile \notin CodePoints
  BY DEF EndOfFile, Byte, CodePoints
<1>2. /\ Len(Ended) = 1 /\ Ended[1] = EndOfFile /\ Ended # <<>>
      /\ Head(Ended) = EndOfFile /\ Tail(Ended) = <<>>
  BY DEF Ended
<1>3. Ended \notin Seq(Byte)
  <2>1. SUFFICES ASSUME Ended \in Seq(Byte)
                 PROVE  FALSE
    OBVIOUS
  <2>2. Ended[1] \in Byte
    BY <1>2, <2>1
  <2> QED
    BY <1>1, <1>2, <2>2
<1> QED
  BY <1>1, <1>2, <1>3

LEMMA LeftType ==
  ASSUME NEW p, IsPort(p)
  PROVE  /\ Left(p) \in Seq(Byte)
         /\ p = [data |-> p.data, source |-> p.source]
         /\ p.source \in Seq(Byte)
         /\ p.data # Ended => p.data \in Seq(Byte) /\ Left(p) = p.data \o p.source
         /\ p.data = Ended => p.source = <<>> /\ Left(p) = <<>>
         /\ p.data = <<>> => Left(p) = p.source
<1>1. /\ p = [data |-> p.data, source |-> p.source]
      /\ p.source \in Seq(Byte)
      /\ p.data # Ended => p.data \in Seq(Byte)
      /\ p.data = Ended => p.source = <<>>
  BY DEF IsPort
<1>2. CASE p.data = Ended
  <2>1. <<>> \o <<>> = <<>>
    BY ConcatEmptySeq
  <2> QED
    BY <1>1, <1>2, <2>1, EndedIs DEF Left
<1>3. CASE p.data # Ended
  <2>1. Left(p) = p.data \o p.source
    BY <1>3 DEF Left
  <2>2. Left(p) \in Seq(Byte)
    BY <1>1, <1>3, <2>1, ConcatProperties
  <2>3. p.data = <<>> => Left(p) = p.source
    BY <1>1, <2>1, ConcatEmptySeq
  <2> QED
    BY <1>1, <1>3, <2>1, <2>2, <2>3
<1> QED
  BY <1>2, <1>3

LEMMA PortUpdated ==
  ASSUME NEW p, IsPort(p), NEW x
  PROVE  /\ [p EXCEPT !.data = x] = [data |-> x, source |-> p.source]
         /\ [p EXCEPT !.source = x] = [data |-> p.data, source |-> x]
<1>1. PICK D, S : p \in [data : D, source : S]
  BY DEF IsPort
<1> QED
  BY <1>1

LEMMA ByteRead ==
  ASSUME NEW p, IsPort(p)
  PROVE  /\ IsPort(ReadByte(p).port)
         /\ Left(p) = <<>> => ReadByte(p) = Read(EndOfFile, NoMore)
         /\ Left(p) # <<>> =>
              /\ ReadByte(p).value = Head(Left(p))
              /\ ReadByte(p).value \in Byte
              /\ Left(ReadByte(p).port) = Tail(Left(p))
              /\ ReadByte(p).port.data = IF p.data = <<>> THEN <<>> ELSE Tail(p.data)
              /\ p.data # Ended
<1>1. /\ p = [data |-> p.data, source |-> p.source]
      /\ p.source \in Seq(Byte)
      /\ p.data # Ended => p.data \in Seq(Byte) /\ Left(p) = p.data \o p.source
      /\ p.data = Ended => p.source = <<>> /\ Left(p) = <<>>
      /\ p.data = <<>> => Left(p) = p.source
  BY LeftType
<1>2. PICK d, s : d = p.data /\ s = p.source
  OBVIOUS
<1>3. /\ [p EXCEPT !.data = Tail(@)] = [data |-> Tail(d), source |-> s]
      /\ [p EXCEPT !.source = Tail(@)] = [data |-> d, source |-> Tail(s)]
  BY <1>2, PortUpdated
<1>4. CASE p.data = Ended
  <2>1. ReadByte(p) = Read(EndOfFile, NoMore)
    <3>1. d # <<>> /\ Head(d) = EndOfFile /\ Tail(d) = <<>> /\ s = <<>>
      BY <1>1, <1>2, <1>4, EndedIs
    <3>2. ReadByte(p) = Read(Head(d), [p EXCEPT !.data = Tail(@)])
      BY <1>2, <3>1, Zenon DEF ReadByte
    <3> QED
      BY <1>3, <3>1, <3>2, Zenon DEF NoMore
  <2>2. IsPort(NoMore) /\ Read(EndOfFile, NoMore).port = NoMore
    BY EndedIs DEF IsPort, NoMore, Read
  <2> QED
    BY <1>1, <1>4, <2>1, <2>2
<1>5. CASE p.data # Ended /\ p.data # <<>>
  <2>1. /\ p.data \in Seq(Byte) /\ Left(p) = p.data \o p.source
        /\ Tail(p.data) \in Seq(Byte) /\ Head(p.data) \in Byte
    BY <1>1, <1>5, FirstIs
  <2>2. PICK q : q = [data |-> Tail(d), source |-> s]
    OBVIOUS
  <2>3. ReadByte(p) = Read(Head(p.data), q)
    <3>1. ReadByte(p) = Read(Head(p.data), [p EXCEPT !.data = Tail(@)])
      BY <1>5, Zenon DEF ReadByte
    <3> QED
      BY <1>3, <2>2, <3>1, Zenon
  <2>4. Tail(p.data) # Ended
    BY <2>1, EndedIs
  <2>5. q.data = Tail(p.data) /\ q.source = p.source
    BY <1>2, <2>2
  <2>6. IsPort(q) /\ Left(q) = Tail(p.data) \o p.source
    BY <1>1, <1>2, <2>1, <2>2, <2>4, <2>5 DEF IsPort, Left
  <2>7. Left(p) # <<>> /\ Head(Left(p)) = Head(p.data) /\ Tail(Left(p)) = Tail(p.data) \o p.source
    BY <1>1, <1>5, <2>1, ConcatFirst
  <2>8. ReadByte(p).value = Head(p.data) /\ ReadByte(p).port = q
    BY <2>3 DEF Read
  <2> QED
    BY <1>5, <2>1, <2>5, <2>6, <2>7, <2>8
<1>6. CASE p.data = <<>> /\ p.source # <<>>
  <2>1. Left(p) = p.source /\ Tail(p.source) \in Seq(Byte) /\ Head(p.source) \in Byte
    BY <1>1, <1>6, FirstIs
  <2>2. PICK q : q = [data |-> d, source |-> Tail(s)]
    OBVIOUS
  <2>3. ReadByte(p) = Read(Head(p.source), q)
    <3>1. ReadByte(p) = Read(Head(p.source), [p EXCEPT !.source = Tail(@)])
      BY <1>6, SMT DEF ReadByte
    <3> QED
      BY <1>3, <2>2, <3>1, Zenon
  <2>4. q.data = <<>> /\ q.source = Tail(p.source) /\ <<>> # Ended
    BY <1>2, <1>6, <2>2, EndedIs
  <2>5. IsPort(q)
    <3>1. d = <<>> /\ Tail(s) \in Seq(Byte) /\ <<>> \in Seq(Byte)
      BY <1>2, <1>6, <2>1
    <3>2. q \in [data : Seq(Byte) \cup {Ended}, source : Seq(Byte)]
      BY <2>2, <3>1
    <3> QED
      BY <2>4, <3>2 DEF IsPort
  <2>6. Left(q) = Tail(p.source)
    BY <2>4, <2>5, LeftType
  <2>7. ReadByte(p).value = Head(p.source) /\ ReadByte(p).port = q
    BY <2>3 DEF Read
  <2>8. p.data # Ended
    BY <1>6, EndedIs
  <2> QED
    BY <1>6, <2>1, <2>4, <2>5, <2>6, <2>7, <2>8
<1>7. CASE p.data = <<>> /\ p.source = <<>>
  <2>1. ReadByte(p) = Read(EndOfFile, NoMore) /\ Left(p) = <<>>
    <3>1. p = NoMore
      BY <1>1, <1>7, Zenon DEF NoMore
    <3>2. ReadByte(p) = Read(EndOfFile, p)
      BY <1>7, SMT DEF ReadByte
    <3> QED
      BY <1>1, <1>7, <3>1, <3>2
  <2>2. IsPort(NoMore) /\ Read(EndOfFile, NoMore).port = NoMore
    BY EndedIs DEF IsPort, NoMore, Read
  <2> QED
    BY <2>1, <2>2
<1> QED
  BY <1>4, <1>5, <1>6, <1>7

(* A function can be iterated. *)
Iteration(w, F, S, s, n) ==
  w \in [0 .. n -> S] /\ w[0] = s /\ \A i \in 1 .. n : w[i] = F[w[i - 1]]

LEMMA Iterated ==
  ASSUME NEW S, NEW F, F \in [S -> S], NEW s \in S, NEW n \in Nat
  PROVE  \E w : Iteration(w, F, S, s, n)
<1> DEFINE Iterates(w, m) ==
             w \in [0 .. m -> S] /\ w[0] = s /\ \A i \in 1 .. m : w[i] = F[w[i - 1]]
           Can == {m \in 0 .. n : \E w : Iterates(w, m)}
<1>1. 0 \in Can
  <2>1. Iterates([i \in 0 .. 0 |-> s], 0)
    <3>1. /\ [i \in 0 .. 0 |-> s] \in [0 .. 0 -> S]
          /\ [i \in 0 .. 0 |-> s][0] = s
          /\ \A i \in 1 .. 0 : FALSE
      OBVIOUS
    <3> QED
      BY <3>1
  <2>2. 0 \in 0 .. n
    OBVIOUS
  <2> HIDE DEF Iterates
  <2> QED
    BY <2>1, <2>2
<1>2. ASSUME NEW m \in 1 .. n, m - 1 \in Can
      PROVE  m \in Can
  <2>1. PICK w : Iterates(w, m - 1)
    BY <1>2
  <2>2. m - 1 \in 0 .. m - 1 /\ w[m - 1] \in S
    BY <2>1
  <2> DEFINE v == [i \in 0 .. m |-> IF i = m THEN F[w[m - 1]] ELSE w[i]]
  <2>3. \A i \in 0 .. m : i # m => i \in 0 .. m - 1 /\ w[i] \in S
    BY <2>1
  <2>4. v \in [0 .. m -> S]
    BY <2>2, <2>3
  <2>5. v[m] = F[w[m - 1]] /\ \A i \in 0 .. m : i # m => v[i] = w[i]
    OBVIOUS
  <2> HIDE DEF v
  <2>6. v[0] = s
    BY <2>1, <2>5
  <2>7. ASSUME NEW i \in 1 .. m
        PROVE  v[i] = F[v[i - 1]]
    <3>1. i \in 0 .. m /\ i - 1 \in 0 .. m /\ i - 1 # m
      OBVIOUS
    <3>2. v[i - 1] = w[i - 1]
      BY <2>5, <3>1
    <3>3. CASE i = m
      BY <2>5, <3>2, <3>3
    <3>4. CASE i # m
      <4>1. i \in 1 .. m - 1 /\ v[i] = w[i]
        BY <2>5, <3>1, <3>4
      <4>2. w[i] = F[w[i - 1]]
        BY <2>1, <4>1
      <4> QED
        BY <3>2, <4>1, <4>2
    <3> QED
      BY <3>3, <3>4
  <2>8. Iterates(v, m)
    BY <2>4, <2>6, <2>7
  <2> QED
    BY <2>8
<1>3. n \in Can
  <2>1. 0 .. n \subseteq Can
    <3> HIDE DEF Can
    <3> QED
      BY <1>1, <1>2, Upwards
  <2> QED
    BY <2>1
<1> QED
  BY <1>3 DEF Iteration

PortSet == {p \in [data : Seq(Byte) \cup {Ended}, source : Seq(Byte)] : IsPort(p)}

LEMMA PortSetIs ==
  ASSUME NEW p
  PROVE  p \in PortSet <=> IsPort(p)
BY DEF PortSet, IsPort

LEMMA NoMoreIs ==
  IsPort(NoMore) /\ Left(NoMore) = <<>> /\ NoMore.data = <<>>
<1>1. IsPort(NoMore) /\ NoMore.data = <<>> /\ NoMore.source = <<>>
  BY EndedIs DEF IsPort, NoMore
<1> QED
  BY <1>1, LeftType

LEMMA RestRoundIs ==
  ASSUME NEW r \in [value : Seq(Byte), port : PortSet]
  PROVE  /\ RestRound(r) \in [value : Seq(Byte), port : PortSet]
         /\ r.value = <<>> => RestRound(r) = r
         /\ r.value # <<>> /\ Left(r.port) = <<>> => RestRound(r).value = <<>>
         /\ r.value # <<>> /\ Left(r.port) # <<>> =>
              /\ RestRound(r).value = Append(r.value, Head(Left(r.port)))
              /\ RestRound(r).port = ReadByte(r.port).port
<1>1. r.value \in Seq(Byte) /\ r.port \in PortSet
  OBVIOUS
<1>2. IsPort(r.port)
  BY <1>1, PortSetIs
<1>3. PICK b, q : b = ReadByte(r.port).value /\ q = ReadByte(r.port).port
  OBVIOUS
<1>4. IsPort(q) /\ q \in PortSet
  BY <1>2, <1>3, ByteRead, PortSetIs
<1>5. CASE r.value = <<>>
  <2>1. RestRound(r) = r
    BY <1>5 DEF RestRound
  <2> QED
    BY <1>5, <2>1
<1>6. CASE r.value # <<>> /\ Left(r.port) = <<>>
  <2>1. b = EndOfFile
    BY <1>2, <1>3, <1>6, ByteRead DEF Read
  <2>2. RestRound(r) = Read(<<>>, q)
    BY <1>3, <1>6, <2>1 DEF RestRound
  <2>3. <<>> \in Seq(Byte)
    OBVIOUS
  <2> QED
    BY <1>4, <1>6, <2>2, <2>3 DEF Read
<1>7. CASE r.value # <<>> /\ Left(r.port) # <<>>
  <2>1. b = Head(Left(r.port)) /\ b \in Byte
    BY <1>2, <1>3, <1>7, ByteRead
  <2>2. b # EndOfFile
    BY <2>1, EndedIs
  <2>3. RestRound(r) = Read(Append(r.value, b), q)
    BY <1>3, <1>7, <2>2 DEF RestRound
  <2>4. Append(r.value, b) \in Seq(Byte)
    BY <1>1, <2>1
  <2> QED
    BY <1>3, <1>4, <1>7, <2>1, <2>3, <2>4 DEF Read
<1> QED
  BY <1>5, <1>6, <1>7

(* The bytes after the first one: n of them, or none if there are less.    *)
LEMMA RestIs ==
  ASSUME NEW p, IsPort(p), NEW xs \in Seq(Byte), xs # <<>>, NEW n \in Nat
  PROVE  /\ n <= Len(Left(p)) =>
              /\ ReadRest(xs, n, p).value = xs \o Take(Left(p), n)
              /\ IsPort(ReadRest(xs, n, p).port)
              /\ Left(ReadRest(xs, n, p).port) = Drop(Left(p), n)
              /\ ReadRest(xs, n, p) =
                   Read(ReadRest(xs, n, p).value, ReadRest(xs, n, p).port)
              /\ \/ ReadRest(xs, n, p).port.data = <<>>
                 \/ Len(ReadRest(xs, n, p).port.data) + n <= Len(p.data)
         /\ n > Len(Left(p)) => ReadRest(xs, n, p).value = <<>>
<1> DEFINE S == [value : Seq(Byte), port : PortSet]
           F == [r \in S |-> RestRound(r)]
           L == Left(p)
<1>1. L \in Seq(Byte) /\ Len(L) \in Nat
  BY LeftType, LenIs
<1>2. Read(xs, p) \in S
  BY PortSetIs DEF Read
<1>3. F \in [S -> S]
  BY RestRoundIs
<1>4. PICK w : /\ w \in [0 .. n -> S]
               /\ w[0] = Read(xs, p)
               /\ \A i \in 1 .. n : w[i] = F[w[i - 1]]
  <2> HIDE DEF S, F
  <2>1. PICK w : Iteration(w, F, S, Read(xs, p), n)
    BY <1>2, <1>3, Iterated, Zenon
  <2> QED
    BY <2>1 DEF Iteration
<1>5. \A i \in 1 .. n : i - 1 \in 0 .. n /\ w[i - 1] \in S /\ w[i] = RestRound(w[i - 1])
  <2>1. ASSUME NEW i \in 1 .. n
        PROVE  i - 1 \in 0 .. n /\ w[i - 1] \in S /\ w[i] = RestRound(w[i - 1])
    <3>1. i - 1 \in 0 .. n
      OBVIOUS
    <3> HIDE DEF S
    <3>2. w[i - 1] \in S
      BY <1>4, <3>1
    <3> QED
      BY <1>4, <3>1, <3>2
  <2> QED
    BY <2>1
<1>6. ReadRest(xs, n, p) = w[n]
  <2>1. w[0] = Read(xs, p)
    BY <1>4
  <2>2. \A i \in 1 .. n : w[i] = RestRound(w[i - 1])
    BY <1>5
  <2>3. RestRun(w, xs, n, p)
    BY <2>1, <2>2 DEF RestRun
  <2> QED
    BY <2>3, RestAre, Zenon
<1> DEFINE Fine(i) ==
             /\ i <= Len(L) =>
                  /\ w[i].value = xs \o Take(L, i)
                  /\ Left(w[i].port) = Drop(L, i)
                  /\ w[i].port.data = <<>> \/ Len(w[i].port.data) + i <= Len(p.data)
             /\ i > Len(L) => w[i].value = <<>>
           Good == {i \in 0 .. n : Fine(i)}
<1>7. 0 \in Good
  <2>1. Take(L, 0) = <<>> /\ Drop(L, 0) = L /\ 0 \in 0 .. Len(L)
    BY <1>1, TakeIs, DropEnds
  <2>2. xs \o <<>> = xs
    BY ConcatEmptySeq
  <2>3. w[0].value = xs /\ w[0].port = p
    BY <1>4 DEF Read
  <2>4. Len(p.data) + 0 <= Len(p.data)
    <3>1. p.data \in Seq(Byte) \/ p.data = Ended
      BY LeftType
    <3>2. Len(p.data) \in Nat
      BY <3>1, EndedIs, LenIs
    <3> QED
      BY <3>2
  <2> HIDE DEF L
  <2>5. 0 <= Len(L) /\ ~(0 > Len(L))
    BY <1>1
  <2>6. /\ w[0].value = xs \o Take(L, 0)
        /\ Len(w[0].port.data) + 0 <= Len(p.data)
    BY <2>1, <2>2, <2>3, <2>4
  <2>7. Left(w[0].port) = Drop(L, 0)
    BY <2>1, <2>3 DEF L
  <2>8. Fine(0)
    BY <2>5, <2>6, <2>7
  <2> HIDE DEF Fine
  <2> QED
    BY <2>8
<1>8. ASSUME NEW i \in 1 .. n, i - 1 \in Good
      PROVE  i \in Good
  <2>1. PICK r : r = w[i - 1]
    OBVIOUS
  <2>2. r \in S /\ w[i] = RestRound(r) /\ IsPort(r.port) /\ r.value \in Seq(Byte)
    BY <1>5, <2>1, PortSetIs
  <2>3. Fine(i - 1) /\ i - 1 \in Nat /\ i \in Nat
    <3> HIDE DEF Fine
    <3> QED
      BY <1>8
  <2>4. CASE i - 1 < Len(L)
    <3>1. /\ r.value = xs \o Take(L, i - 1)
          /\ Left(r.port) = Drop(L, i - 1)
          /\ r.port.data = <<>> \/ Len(r.port.data) + (i - 1) <= Len(p.data)
      BY <2>1, <2>3, <2>4
    <3> HIDE DEF S, L
    <3>2. /\ Drop(L, i - 1) # <<>> /\ Head(Drop(L, i - 1)) = L[i]
          /\ Tail(Drop(L, i - 1)) = Drop(L, i)
          /\ Append(Take(L, i - 1), L[i]) = Take(L, i)
      <4>1. (i - 1) + 1 = i
        OBVIOUS
      <4>2. /\ Drop(L, i - 1) # <<>> /\ Head(Drop(L, i - 1)) = L[(i - 1) + 1]
            /\ Tail(Drop(L, i - 1)) = Drop(L, (i - 1) + 1)
            /\ Append(Take(L, i - 1), L[(i - 1) + 1]) = Take(L, (i - 1) + 1)
        BY <1>1, <2>3, <2>4, DropNext, TakeNext
      <4> QED
        BY <4>1, <4>2
    <3>3. Take(L, i - 1) \in Seq(Byte) /\ L[i] \in Byte
      BY <1>1, <2>3, <2>4, TakeIs, LenIs
    <3>4. r.value # <<>>
      BY <3>1, <3>3, ConcatFirst
    <3>5. w[i].value = Append(xs \o Take(L, i - 1), L[i]) /\ w[i].port = ReadByte(r.port).port
      BY <2>2, <3>1, <3>2, <3>4, RestRoundIs DEF S
    <3>6. Append(xs \o Take(L, i - 1), L[i]) = xs \o Take(L, i)
      <4>1. <<L[i]>> \in Seq(Byte) /\ xs \o Take(L, i - 1) \in Seq(Byte)
        BY <3>3, ConcatProperties
      <4>2. Append(xs \o Take(L, i - 1), L[i]) = (xs \o Take(L, i - 1)) \o <<L[i]>>
        BY <3>3, <4>1, AppendIsConcat
      <4>3. Append(Take(L, i - 1), L[i]) = Take(L, i - 1) \o <<L[i]>>
        BY <3>3, AppendIsConcat
      <4>4. (xs \o Take(L, i - 1)) \o <<L[i]>> = xs \o (Take(L, i - 1) \o <<L[i]>>)
        BY <3>3, <4>1, ConcatAssociative
      <4> QED
        BY <3>2, <4>2, <4>3, <4>4, Zenon
    <3>7. /\ Left(w[i].port) = Drop(L, i)
          /\ w[i].port.data = (IF r.port.data = <<>> THEN <<>> ELSE Tail(r.port.data))
          /\ r.port.data # Ended
      BY <2>2, <3>1, <3>2, <3>5, ByteRead
    <3>8. w[i].port.data = <<>> \/ Len(w[i].port.data) + i <= Len(p.data)
      <4>1. CASE r.port.data = <<>>
        BY <3>7, <4>1
      <4>2. CASE r.port.data # <<>>
        <5>1. r.port.data \in Seq(Byte)
          BY <2>2, <3>7, LeftType
        <5>2. w[i].port.data = Tail(r.port.data) /\ Len(Tail(r.port.data)) = Len(r.port.data) - 1
              /\ Len(r.port.data) \in Nat
          BY <3>7, <4>2, <5>1, HeadTailProperties, LenIs
        <5>3. Len(p.data) \in Nat
          <6>1. p.data \in Seq(Byte) \/ p.data = Ended
            BY LeftType
          <6> QED
            BY <6>1, EndedIs, LenIs
        <5>4. PICK a, b : a = Len(r.port.data) /\ b = Len(p.data)
          OBVIOUS
        <5>5. a + (i - 1) <= b /\ a \in Nat /\ b \in Nat
          BY <3>1, <4>2, <5>2, <5>3, <5>4
        <5>6. (a - 1) + i <= b
          BY <2>3, <5>5
        <5> QED
          BY <5>2, <5>4, <5>6
      <4> QED
        BY <4>1, <4>2
    <3>9. Fine(i)
      <4>1. i <= Len(L) /\ ~(i > Len(L))
        BY <1>1, <2>3, <2>4
      <4> QED
        BY <3>5, <3>6, <3>7, <3>8, <4>1
    <3> HIDE DEF Fine
    <3> QED
      BY <3>9
  <2>5. CASE ~(i - 1 < Len(L))
    <3>1. i > Len(L) /\ ~(i <= Len(L))
      <4>1. i \in Nat
        OBVIOUS
      <4> HIDE DEF L
      <4> QED
        BY <1>1, <2>5, <4>1
    <3>2. w[i].value = <<>>
      <4>1. CASE i - 1 > Len(L)
        <5>1. r.value = <<>>
          BY <2>1, <2>3, <4>1
        <5> QED
          BY <2>2, <5>1, RestRoundIs
      <4>2. CASE i - 1 = Len(L)
        <5>1. Left(r.port) = Drop(L, i - 1)
          BY <1>1, <2>1, <2>3, <4>2
        <5> HIDE DEF L
        <5>2. Left(r.port) = <<>>
          BY <1>1, <2>3, <4>2, <5>1, DropEnds
        <5> QED
          BY <2>2, <5>2, RestRoundIs
      <4> QED
        BY <1>1, <2>3, <2>5, <4>1, <4>2
    <3> HIDE DEF L
    <3>3. Fine(i)
      BY <3>1, <3>2
    <3> HIDE DEF Fine
    <3> QED
      BY <3>3
  <2> HIDE DEF Fine
  <2> QED
    BY <2>4, <2>5
<1>9. Fine(n)
  <2>1. 0 .. n \subseteq Good
    <3> HIDE DEF Good
    <3> QED
      BY <1>7, <1>8, Upwards
  <2>2. n \in 0 .. n
    OBVIOUS
  <2> HIDE DEF Fine
  <2> QED
    BY <2>1, <2>2
<1>10. IsPort(w[n].port)
  <2>1. w[n] \in S
    <3> HIDE DEF S
    <3> QED
      BY <1>4
  <2> QED
    BY <2>1, PortSetIs
<1>11. w[n] = Read(w[n].value, w[n].port)
  <2>1. w[n] \in S
    <3> HIDE DEF S
    <3> QED
      BY <1>4
  <2> QED
    BY <2>1 DEF Read
<1> QED
  BY <1>6, <1>9, <1>10, <1>11

(* A port that has nothing read ahead is its source. *)
LEMMA PlainPort ==
  /\ \A t \in Seq(Byte) : /\ IsPort([data |-> <<>>, source |-> t])
                          /\ Left([data |-> <<>>, source |-> t]) = t
  /\ \A p : IsPort(p) /\ p.data = <<>> => p = [data |-> <<>>, source |-> Left(p)]
<1>1. ASSUME NEW t \in Seq(Byte)
      PROVE  IsPort([data |-> <<>>, source |-> t]) /\ Left([data |-> <<>>, source |-> t]) = t
  <2>1. PICK p : p = [data |-> <<>>, source |-> t]
    OBVIOUS
  <2>2. p.data = <<>> /\ p.source = t
    BY <2>1
  <2>3. IsPort(p)
    BY <1>1, <2>1, EndedIs DEF IsPort
  <2>4. Left(p) = t
    BY <2>2, <2>3, LeftType
  <2> QED
    BY <2>1, <2>3, <2>4
<1>2. ASSUME NEW p, IsPort(p), p.data = <<>>
      PROVE  p = [data |-> <<>>, source |-> Left(p)]
  BY <1>2, LeftType
<1> QED
  BY <1>1, <1>2

LEMMA DataIs ==
  ASSUME NEW p, IsPort(p)
  PROVE  /\ Len(p.data) \in Nat
         /\ p.data = <<>> <=> Len(p.data) = 0
         /\ p.data # <<>> => Len(Tail(p.data)) = Len(p.data) - 1
<1>1. CASE p.data = Ended
  <2>1. Len(<<>>) = 0
    OBVIOUS
  <2> QED
    BY <1>1, <2>1, EndedIs
<1>2. CASE p.data # Ended
  <2>1. p.data \in Seq(Byte)
    BY <1>2, LeftType
  <2> QED
    BY <2>1, LenIs, HeadTailProperties
<1> QED
  BY <1>1, <1>2

(* A character is read where one begins, if no more was read ahead. *)
LEMMA CharacterRead ==
  ASSUME NEW p, IsPort(p), NEW u, IsCharacter(u), NEW t \in Seq(Byte), Left(p) = u \o t,
         Len(p.data) <= Len(u)
  PROVE  ReadCharBytes(p) = Read(u, [data |-> <<>>, source |-> t])
<1>1. u \in Seq(Byte) /\ Len(u) \in 1 .. 4 /\ Following(u[1]) = Len(u) - 1 /\ u # <<>>
  BY LenIs DEF IsCharacter
<1>2. PICK b, q : b = ReadByte(p).value /\ q = ReadByte(p).port
  OBVIOUS
<1>3. PICK n : n = Len(u) - 1
  OBVIOUS
<1>4. n \in Nat /\ Len(u) = n + 1
  BY <1>1, <1>3
<1>5. /\ u \o t # <<>> /\ Head(u \o t) = u[1] /\ Tail(u \o t) = Tail(u) \o t
      /\ u[1] \in Byte /\ Tail(u) \in Seq(Byte) /\ <<u[1]>> \o Tail(u) = u
  BY <1>1, ConcatFirst, FirstIs
<1>6. /\ IsPort(q) /\ b = u[1] /\ Left(q) = Tail(u) \o t
      /\ q.data = IF p.data = <<>> THEN <<>> ELSE Tail(p.data)
  BY <1>2, <1>5, ByteRead
<1>7. Len(Tail(u)) = n
  BY <1>1, <1>4, HeadTailProperties
<1>8. b # EndOfFile /\ Following(b) = n
  BY <1>1, <1>3, <1>5, <1>6, EndedIs
<1>9. ReadCharBytes(p) = ReadRest(<<b>>, n, q)
  BY <1>2, <1>8, Zenon DEF ReadCharBytes
<1>10. /\ n <= Len(Left(q))
       /\ Take(Left(q), n) = Tail(u) /\ Drop(Left(q), n) = t
  <2>1. /\ Take(Tail(u) \o t, n) = Tail(u) /\ Drop(Tail(u) \o t, n) = t
        /\ Len(Tail(u) \o t) = n + Len(t)
    BY <1>5, <1>7, ConcatTaken
  <2>2. Len(t) \in Nat
    BY LenIs
  <2> QED
    BY <1>4, <1>6, <2>1, <2>2
<1>11. PICK r : r = ReadRest(<<b>>, n, q)
  OBVIOUS
<1>12. /\ r.value = <<b>> \o Tail(u)
       /\ IsPort(r.port)
       /\ Left(r.port) = t
       /\ r.port.data = <<>> \/ Len(r.port.data) + n <= Len(q.data)
       /\ r = Read(r.value, r.port)
  <2>1. PICK xs : xs = <<b>>
    OBVIOUS
  <2>2. xs \in Seq(Byte) /\ xs # <<>>
    BY <1>5, <1>6, <2>1
  <2>3. n \in Nat /\ IsPort(q) /\ n <= Len(Left(q)) /\ r = ReadRest(xs, n, q)
    BY <1>4, <1>6, <1>10, <1>11, <2>1
  <2>4. /\ r.value = xs \o Take(Left(q), n)
        /\ IsPort(r.port)
        /\ Left(r.port) = Drop(Left(q), n)
        /\ r.port.data = <<>> \/ Len(r.port.data) + n <= Len(q.data)
        /\ r = Read(r.value, r.port)
    BY <2>2, <2>3, RestIs, Zenon
  <2> QED
    BY <1>10, <2>1, <2>4, Zenon
<1>13. r.port.data = <<>>
  <2>1. SUFFICES ASSUME r.port.data # <<>>
                 PROVE  FALSE
    OBVIOUS
  <2>2. PICK i, j, k : i = Len(r.port.data) /\ j = Len(q.data) /\ k = Len(p.data)
    OBVIOUS
  <2>3. i \in Nat /\ i # 0 /\ i + n <= j /\ j \in Nat /\ k \in Nat /\ k <= n + 1
    BY <1>4, <1>6, <1>12, <2>1, <2>2, DataIs
  <2>4. j = IF k = 0 THEN 0 ELSE k - 1
    <3>1. Len(<<>>) = 0
      OBVIOUS
    <3> QED
      BY <1>6, <2>2, <3>1, DataIs
  <2> QED
    BY <1>4, <2>3, <2>4
<1>14. r.port = [data |-> <<>>, source |-> t]
  BY <1>12, <1>13, PlainPort
<1>15. r.value = u
  BY <1>5, <1>6, <1>12
<1> QED
  BY <1>9, <1>11, <1>12, <1>14, <1>15

LEMMA CharacterCut ==
  ASSUME NEW p, IsPort(p), NEW u, IsCharacter(u), NEW i \in 1 .. Len(u) - 1,
         Left(p) = Take(u, i)
  PROVE  ReadCharBytes(p).value = <<>>
<1>1. u \in Seq(Byte) /\ Len(u) \in 1 .. 4 /\ Following(u[1]) = Len(u) - 1 /\ u # <<>>
  BY LenIs DEF IsCharacter
<1>2. PICK b, q : b = ReadByte(p).value /\ q = ReadByte(p).port
  OBVIOUS
<1>3. PICK n : n = Len(u) - 1
  OBVIOUS
<1>4. n \in Nat /\ i \in 0 .. Len(u) /\ i \in Nat /\ i >= 1 /\ i <= n
  BY <1>1, <1>3
<1>5. PICK s : s = Take(u, i)
  OBVIOUS
<1>6. s \in Seq(Byte) /\ Len(s) = i /\ s[1] = u[1]
  <2>1. 1 \in 1 .. i
    BY <1>4
  <2> QED
    BY <1>1, <1>4, <1>5, <2>1, TakeIs
<1>7. s # <<>> /\ Head(s) = u[1] /\ Len(Tail(s)) = i - 1 /\ u[1] \in Byte
  <2>1. s # <<>>
    BY <1>4, <1>6, LenIs
  <2> QED
    BY <1>6, <2>1, HeadTailProperties, FirstIs
<1>8. IsPort(q) /\ b = u[1] /\ Left(q) = Tail(s)
  BY <1>2, <1>5, <1>7, ByteRead
<1>9. b # EndOfFile /\ Following(b) = n
  BY <1>1, <1>3, <1>7, <1>8, EndedIs
<1>10. ReadCharBytes(p) = ReadRest(<<b>>, n, q)
  BY <1>2, <1>9, Zenon DEF ReadCharBytes
<1>11. n > Len(Left(q))
  BY <1>4, <1>7, <1>8
<1>12. PICK xs : xs = <<b>>
  OBVIOUS
<1>13. xs \in Seq(Byte) /\ xs # <<>>
  BY <1>7, <1>8, <1>12
<1>14. ReadRest(xs, n, q).value = <<>>
  BY <1>4, <1>8, <1>11, <1>13, RestIs, Zenon
<1> QED
  BY <1>10, <1>12, <1>14, Zenon

LEMMA CharacterEnd ==
  ASSUME NEW p, IsPort(p), Left(p) = <<>>
  PROVE  ReadCharBytes(p) = Read(<<>>, NoMore)
<1>1. ReadByte(p) = Read(EndOfFile, NoMore)
  BY ByteRead
<1>2. ReadByte(p).value = EndOfFile /\ ReadByte(p).port = NoMore
  BY <1>1 DEF Read
<1> QED
  BY <1>2, Zenon DEF ReadCharBytes

(* read-char and peek-char, of a character. *)
LEMMA CharRead ==
  ASSUME NEW p, IsPort(p), NEW c, c \in CodePoints, NEW t \in Seq(Byte), Left(p) = Utf8(c) \o t,
         Len(p.data) <= Len(Utf8(c))
  PROVE  /\ ReadOneChar(p) = Read(c, [data |-> <<>>, source |-> t])
         /\ PeekOneChar(p) = Read(c, [data |-> Utf8(c), source |-> t])
<1>1. PICK u : u = Utf8(c)
  OBVIOUS
<1>2. IsCharacter(u) /\ ParseChar(u) = c
  BY <1>1, Utf8Is
<1>3. u \in Seq(Byte) /\ u # <<>>
  BY <1>2, LenIs DEF IsCharacter
<1>4. ReadCharBytes(p) = Read(u, [data |-> <<>>, source |-> t])
  BY <1>1, <1>2, CharacterRead
<1>5. PICK q : q = [data |-> <<>>, source |-> t]
  OBVIOUS
<1>6. ReadCharBytes(p).value = u /\ ReadCharBytes(p).port = q
  BY <1>4, <1>5 DEF Read
<1>7. CharOf(u) = c
  BY <1>2, <1>3 DEF CharOf
<1>8. ReadOneChar(p) = Read(c, q)
  BY <1>6, <1>7, Zenon DEF ReadOneChar
<1>9. PeekOneChar(p) = Read(c, Unread(u, q))
  BY <1>6, <1>7, Zenon DEF PeekOneChar
<1>10. Unread(u, q) = [data |-> u, source |-> t]
  <2>1. <<>> \o u = u
    BY <1>3, ConcatEmptySeq
  <2>2. Unread(u, q) = [q EXCEPT !.data = q.data \o u]
    BY DEF Unread
  <2>3. q.data = <<>>
    BY <1>5
  <2>4. [q EXCEPT !.data = u] = [data |-> u, source |-> t]
    BY <1>5
  <2> QED
    BY <2>1, <2>2, <2>3, <2>4
<1> QED
  BY <1>1, <1>5, <1>8, <1>9, <1>10

LEMMA CharEnd ==
  ASSUME NEW p, IsPort(p), Left(p) = <<>>
  PROVE  /\ ReadOneChar(p) = Read(EndOfFile, NoMore)
         /\ PeekOneChar(p) = Read(EndOfFile, NoMore)
<1>1. ReadCharBytes(p).value = <<>> /\ ReadCharBytes(p).port = NoMore
  BY CharacterEnd DEF Read
<1>2. CharOf(<<>>) = EndOfFile
  BY DEF CharOf
<1>3. Unread(<<>>, NoMore) = NoMore
  BY DEF Unread, NoMore
<1> QED
  BY <1>1, <1>2, <1>3, Zenon DEF ReadOneChar, PeekOneChar

LEMMA CharCut ==
  ASSUME NEW p, IsPort(p), NEW c, c \in CodePoints, NEW i \in 1 .. Len(Utf8(c)) - 1,
         Left(p) = Take(Utf8(c), i)
  PROVE  ReadOneChar(p).value = EndOfFile
<1>1. ReadCharBytes(p).value = <<>>
  BY Utf8Is, CharacterCut
<1>2. CharOf(<<>>) = EndOfFile
  BY DEF CharOf
<1> QED
  BY <1>1, <1>2 DEF ReadOneChar, Read

-----------------------------------------------------------------------------
(* Characters, and their bytes. *)

BytesOf(cs) == FlattenSeq([i \in DOMAIN cs |-> Utf8(cs[i])])

LEMMA StreamIs ==
  /\ \A x : Stream!Utf8(x) = Utf8(x)
  /\ \A s : Stream!FlattenSeq(s) = FlattenSeq(s)
  /\ \A s, t : Stream!IsPrefix(s, t) = IsPrefix(s, t)
  /\ \A cs : Stream!Bytes(cs) = BytesOf(cs)
<1>1. ASSUME NEW x
      PROVE  Stream!Utf8(x) = Utf8(x)
  BY SMT DEF Stream!Utf8, Utf8
<1>2. ASSUME NEW s
      PROVE  Stream!FlattenSeq(s) = FlattenSeq(s)
  BY Zenon DEF Stream!FlattenSeq, FlattenSeq
<1>3. ASSUME NEW s, NEW t
      PROVE  Stream!IsPrefix(s, t) = IsPrefix(s, t)
  BY Zenon DEF Stream!IsPrefix, IsPrefix
<1>4. ASSUME NEW cs
      PROVE  Stream!Bytes(cs) = BytesOf(cs)
  BY <1>1, <1>2, Zenon DEF Stream!Bytes, BytesOf
<1> QED
  BY <1>1, <1>2, <1>3, <1>4

LEMMA Utf8Type ==
  ASSUME NEW c, c \in CodePoints
  PROVE  /\ Utf8(c) \in Seq(Byte) /\ Utf8(c) # <<>>
         /\ Len(Utf8(c)) \in Nat /\ Len(Utf8(c)) >= 1
<1>1. PICK u : u = Utf8(c)
  OBVIOUS
<1>2. IsCharacter(u)
  BY <1>1, Utf8Is
<1>3. PICK n : n = Len(u)
  OBVIOUS
<1>4. u \in Seq(Byte) /\ n \in 1 .. 4
  BY <1>2, <1>3 DEF IsCharacter
<1>5. n \in Nat /\ n >= 1 /\ n # 0
  BY <1>4
<1>6. u # <<>>
  <2>1. Len(<<>>) = 0
    OBVIOUS
  <2> QED
    BY <1>3, <1>5, <2>1, Zenon
<1> QED
  BY <1>1, <1>3, <1>4, <1>5, <1>6, Zenon

EachUtf8(cs) == [i \in DOMAIN cs |-> Utf8(cs[i])]

LEMMA EachIs ==
  ASSUME NEW cs \in Seq(CodePoints)
  PROVE  /\ EachUtf8(cs) \in Seq(Seq(Byte))
         /\ Len(EachUtf8(cs)) = Len(cs)
         /\ \A i \in 1 .. Len(cs) : EachUtf8(cs)[i] = Utf8(cs[i])
         /\ BytesOf(cs) = FlattenSeq(EachUtf8(cs))
<1>1. ASSUME NEW x \in CodePoints
      PROVE  Utf8(x) \in Seq(Byte)
  BY Utf8Type
<1>2. DOMAIN cs = 1 .. Len(cs) /\ Len(cs) \in Nat /\ \A i \in 1 .. Len(cs) : cs[i] \in CodePoints
  BY LenIs
<1>3. EachUtf8(cs) = [i \in 1 .. Len(cs) |-> Utf8(cs[i])]
  BY <1>2, Zenon DEF EachUtf8
<1>4. \A i \in 1 .. Len(cs) : Utf8(cs[i]) \in Seq(Byte)
  BY <1>1, <1>2
<1>5. BytesOf(cs) = FlattenSeq(EachUtf8(cs))
  BY Zenon DEF BytesOf, EachUtf8
<1>6. EachUtf8(cs) \in Seq(Seq(Byte)) /\ Len(EachUtf8(cs)) = Len(cs)
  <2>1. PICK n : n = Len(cs)
    OBVIOUS
  <2> DEFINE e == [i \in 1 .. n |-> Utf8(cs[i])]
  <2>2. e \in [1 .. n -> Seq(Byte)]
    BY <1>4, <2>1
  <2> HIDE DEF e
  <2>3. e \in Seq(Seq(Byte)) /\ Len(e) = n
    <3>1. n \in Nat
      BY <1>2, <2>1
    <3> QED
      BY <2>2, <3>1
  <2>4. EachUtf8(cs) = e
    BY <1>3, <2>1 DEF e
  <2> QED
    BY <2>1, <2>3, <2>4
<1> QED
  BY <1>3, <1>5, <1>6

LEMMA BytesOfEmpty ==
  BytesOf(<<>>) = <<>>
<1>1. <<>> \in Seq(CodePoints) /\ Len(<<>>) = 0
  OBVIOUS
<1>2. EachUtf8(<<>>) = <<>>
  BY <1>1, EachIs, LenIs
<1>3. <<>> \in Seq(Seq(Byte))
  OBVIOUS
<1> QED
  BY <1>1, <1>2, <1>3, EachIs, FlattenType

LEMMA BytesOfTail ==
  ASSUME NEW cs \in Seq(CodePoints), cs # <<>>
  PROVE  BytesOf(cs) = Utf8(cs[1]) \o BytesOf(Tail(cs))
<1>1. PICK e, f, t : e = EachUtf8(cs) /\ t = Tail(cs) /\ f = EachUtf8(t)
  OBVIOUS
<1>2. t \in Seq(CodePoints) /\ Len(cs) \in Nat /\ Len(cs) >= 1 /\ Len(t) = Len(cs) - 1
      /\ \A i \in 1 .. Len(cs) - 1 : t[i] = cs[i + 1]
  BY <1>1, LenIs, HeadTailProperties, FirstIs
<1>3. /\ e \in Seq(Seq(Byte)) /\ Len(e) = Len(cs)
      /\ \A i \in 1 .. Len(cs) : e[i] = Utf8(cs[i])
      /\ BytesOf(cs) = FlattenSeq(e)
  BY <1>1, EachIs
<1>4. /\ f \in Seq(Seq(Byte)) /\ Len(f) = Len(t)
      /\ \A i \in 1 .. Len(t) : f[i] = Utf8(t[i])
      /\ BytesOf(t) = FlattenSeq(f)
  <2>1. t \in Seq(CodePoints)
    BY <1>2
  <2> QED
    BY <1>1, <2>1, EachIs
<1>5. e # <<>> /\ e[1] = Utf8(cs[1])
  <2>1. 1 \in 1 .. Len(cs)
    BY <1>2
  <2> QED
    BY <1>2, <1>3, <2>1, LenIs
<1>6. Tail(e) = f
  <2>1. /\ Tail(e) \in Seq(Seq(Byte)) /\ Len(Tail(e)) = Len(cs) - 1
        /\ \A i \in 1 .. Len(cs) - 1 : Tail(e)[i] = e[i + 1]
    BY <1>3, <1>5, HeadTailProperties
  <2>2. ASSUME NEW i \in 1 .. Len(cs) - 1
        PROVE  Tail(e)[i] = f[i]
    <3>1. i + 1 \in 1 .. Len(cs) /\ i \in 1 .. Len(t)
      BY <1>2
    <3>2. Tail(e)[i] = Utf8(cs[i + 1])
      BY <1>3, <2>1, <3>1
    <3>3. f[i] = Utf8(cs[i + 1])
      BY <1>2, <1>4, <3>1
    <3> QED
      BY <3>2, <3>3
  <2> QED
    BY <1>2, <1>4, <2>1, <2>2, SeqEqual
<1>7. FlattenSeq(e) = e[1] \o FlattenSeq(Tail(e))
  BY <1>3, <1>5, FlattenFirst
<1> QED
  BY <1>1, <1>3, <1>4, <1>5, <1>6, <1>7

LEMMA BytesOfAppend ==
  ASSUME NEW cs \in Seq(CodePoints), NEW c \in CodePoints
  PROVE  BytesOf(Append(cs, c)) = BytesOf(cs) \o Utf8(c)
<1>1. PICK e, f, t, u : /\ e = EachUtf8(cs) /\ t = Append(cs, c) /\ f = EachUtf8(t) /\ u = Utf8(c)
  OBVIOUS
<1>2. /\ t \in Seq(CodePoints) /\ Len(cs) \in Nat /\ Len(t) = Len(cs) + 1
      /\ \A i \in 1 .. Len(cs) : t[i] = cs[i]
      /\ t[Len(cs) + 1] = c
  BY <1>1, LenIs, AppendProperties
<1>3. /\ e \in Seq(Seq(Byte)) /\ Len(e) = Len(cs)
      /\ \A i \in 1 .. Len(cs) : e[i] = Utf8(cs[i])
      /\ BytesOf(cs) = FlattenSeq(e)
  BY <1>1, EachIs
<1>4. /\ f \in Seq(Seq(Byte)) /\ Len(f) = Len(t)
      /\ \A i \in 1 .. Len(t) : f[i] = Utf8(t[i])
      /\ BytesOf(t) = FlattenSeq(f)
  BY <1>1, <1>2, EachIs
<1>5. u \in Seq(Byte)
  BY <1>1, Utf8Type
<1>6. Append(e, u) = f
  <2>1. PICK g : g = Append(e, u)
    OBVIOUS
  <2>2. /\ g \in Seq(Seq(Byte)) /\ Len(g) = Len(cs) + 1
        /\ \A i \in 1 .. Len(cs) : g[i] = e[i]
        /\ g[Len(cs) + 1] = u
    BY <1>3, <1>5, <2>1, AppendProperties
  <2>3. ASSUME NEW i \in 1 .. Len(cs) + 1
        PROVE  g[i] = f[i]
    <3>1. CASE i \in 1 .. Len(cs)
      <4>1. i \in 1 .. Len(t)
        BY <1>2
      <4> QED
        BY <1>2, <1>3, <1>4, <2>2, <3>1, <4>1
    <3>2. CASE i = Len(cs) + 1
      <4>1. i \in 1 .. Len(t) /\ t[i] = c
        BY <1>2, <3>2
      <4> QED
        BY <1>1, <1>4, <2>2, <3>2, <4>1
    <3> QED
      BY <1>2, <3>1, <3>2
  <2> QED
    BY <1>2, <1>4, <2>1, <2>2, <2>3, SeqEqual
<1>7. FlattenSeq(Append(e, u)) = FlattenSeq(e) \o u
  BY <1>3, <1>5, FlattenLast
<1> QED
  BY <1>1, <1>3, <1>4, <1>6, <1>7

LEMMA BytesOfType ==
  ASSUME NEW cs \in Seq(CodePoints)
  PROVE  BytesOf(cs) \in Seq(Byte) /\ Len(BytesOf(cs)) >= Len(cs)
<1>1. BytesOf(cs) \in Seq(Byte)
  BY EachIs, FlattenType
<1>2. Len(cs) \in Nat
  BY LenIs
<1> DEFINE Fine(i) == /\ Take(cs, i) \in Seq(CodePoints)
                      /\ BytesOf(Take(cs, i)) \in Seq(Byte)
                      /\ Len(BytesOf(Take(cs, i))) >= i
           Long == {i \in 0 .. Len(cs) : Fine(i)}
<1>3. 0 \in Long
  <2>1. Take(cs, 0) = <<>> /\ <<>> \in Seq(CodePoints) /\ Len(<<>>) = 0 /\ <<>> \in Seq(Byte)
        /\ 0 \in 0 .. Len(cs)
    BY <1>2, TakeIs
  <2>2. BytesOf(Take(cs, 0)) = <<>>
    BY <2>1, BytesOfEmpty, Zenon
  <2>3. Take(cs, 0) \in Seq(CodePoints) /\ Len(<<>>) >= 0
    <3>1. 0 >= 0
      OBVIOUS
    <3> QED
      BY <2>1, <3>1, Zenon
  <2>4. Fine(0)
    BY <2>1, <2>2, <2>3, Zenon
  <2> HIDE DEF Fine
  <2> QED
    BY <2>1, <2>4
<1>4. ASSUME NEW i \in 1 .. Len(cs), i - 1 \in Long
      PROVE  i \in Long
  <2>1. PICK s, c : s = Take(cs, i - 1) /\ c = cs[i]
    OBVIOUS
  <2>2. s \in Seq(CodePoints) /\ BytesOf(s) \in Seq(Byte) /\ Len(BytesOf(s)) >= i - 1
    <3>1. Fine(i - 1)
      <4> HIDE DEF Fine
      <4> QED
        BY <1>4
    <3> QED
      BY <2>1, <3>1
  <2>3. c \in CodePoints /\ Append(s, c) = Take(cs, i)
    <3>1. i - 1 \in Nat /\ i - 1 < Len(cs) /\ (i - 1) + 1 = i
      BY <1>2
    <3>2. Append(Take(cs, i - 1), cs[(i - 1) + 1]) = Take(cs, (i - 1) + 1)
      BY <3>1, TakeNext
    <3> QED
      BY <2>1, <3>1, <3>2, LenIs
  <2>4. BytesOf(Take(cs, i)) = BytesOf(s) \o Utf8(c) /\ Append(s, c) \in Seq(CodePoints)
    <3>1. s \in Seq(CodePoints) /\ c \in CodePoints
      BY <2>2, <2>3
    <3>2. BytesOf(Append(s, c)) = BytesOf(s) \o Utf8(c)
      BY <3>1, BytesOfAppend
    <3>3. Append(s, c) \in Seq(CodePoints)
      BY <3>1
    <3> QED
      BY <2>3, <3>2, <3>3
  <2>5. Utf8(c) \in Seq(Byte) /\ Len(Utf8(c)) >= 1 /\ Len(Utf8(c)) \in Nat
    BY <2>3, Utf8Type
  <2>6. /\ Len(BytesOf(s) \o Utf8(c)) = Len(BytesOf(s)) + Len(Utf8(c))
        /\ BytesOf(s) \o Utf8(c) \in Seq(Byte)
    BY <2>2, <2>5, ConcatTaken
  <2>7. Len(BytesOf(s)) \in Nat
    BY <2>2, LenIs
  <2>8. PICK j, k, l : j = Len(BytesOf(s)) /\ k = Len(Utf8(c)) /\ l = Len(BytesOf(Take(cs, i)))
    OBVIOUS
  <2>9. j \in Nat /\ k \in Nat /\ j >= i - 1 /\ k >= 1 /\ l = j + k
    BY <2>2, <2>4, <2>5, <2>6, <2>7, <2>8
  <2>10. l >= i
    BY <2>9
  <2>11. Fine(i)
    BY <2>3, <2>4, <2>6, <2>8, <2>10
  <2>12. i \in 0 .. Len(cs)
    BY <1>2
  <2> HIDE DEF Fine
  <2> QED
    BY <2>11, <2>12
<1>5. Len(cs) \in Long
  <2>1. 0 .. Len(cs) \subseteq Long
    <3> HIDE DEF Long
    <3> QED
      BY <1>2, <1>3, <1>4, Upwards
  <2>2. Len(cs) \in 0 .. Len(cs)
    BY <1>2
  <2> HIDE DEF Long
  <2> QED
    BY <2>1, <2>2
<1>6. Take(cs, Len(cs)) = cs
  BY <1>2, TakeIs
<1> QED
  BY <1>1, <1>5, <1>6

(* What is left of a sequence of characters, by bytes. *)
LEMMA BytesOfDrop ==
  ASSUME NEW cs \in Seq(CodePoints), NEW i \in Nat, i < Len(cs)
  PROVE  /\ cs[i + 1] \in CodePoints
         /\ BytesOf(Drop(cs, i)) = Utf8(cs[i + 1]) \o BytesOf(Drop(cs, i + 1))
         /\ BytesOf(Drop(cs, i + 1)) \in Seq(Byte)
<1>1. Drop(cs, i) \in Seq(CodePoints) /\ Drop(cs, i + 1) \in Seq(CodePoints)
  BY DropIs
<1>2. /\ Drop(cs, i) # <<>> /\ Head(Drop(cs, i)) = cs[i + 1]
      /\ Tail(Drop(cs, i)) = Drop(cs, i + 1)
  BY DropNext
<1>3. Drop(cs, i)[1] = cs[i + 1]
  BY <1>1, <1>2, FirstIs
<1>4. cs[i + 1] \in CodePoints
  <2>1. i + 1 \in 1 .. Len(cs)
    BY LenIs
  <2> QED
    BY <2>1, LenIs
<1> QED
  BY <1>1, <1>2, <1>3, <1>4, BytesOfTail, BytesOfType

-----------------------------------------------------------------------------
(* The characters of a stream are those of which it has the bytes. *)

CharacterRound(r) ==
  LET c == CHOOSE c \in Character : Stream!IsPrefix(Stream!Utf8(c), r.rest)
  IN IF r.rest = <<>> THEN r
     ELSE [characters |-> Append(r.characters, c),
           rest |-> Stream!DropFirst(r.rest, Len(Stream!Utf8(c)))]

CharacterRun(w, bs) ==
  /\ w[0] = [characters |-> <<>>, rest |-> bs]
  /\ \A i \in 1 .. Len(bs) : w[i] = CharacterRound(w[i - 1])

LEMMA CharactersAre ==
  ASSUME NEW bs, Len(bs) \in Nat, NEW w, CharacterRun(w, bs)
  PROVE  Stream!Characters(bs) = w[Len(bs)].characters
<1> DEFINE n == Len(bs)
           first == [characters |-> <<>>, rest |-> bs]
           Round(x) == CharacterRound(x)
           Is(f) == f = [i \in 0 .. n |-> IF i = 0 THEN {first} ELSE {Round(x) : x \in f[i - 1]}]
           F == CHOOSE f : Is(f)
           end == CHOOSE x \in F[n] : TRUE
<1>1. Stream!Characters(bs) = end.characters
  BY Zenon DEF Stream!Characters, CharacterRound
<1>2. n \in Nat
  OBVIOUS
<1>3. w[0] = first /\ \A i \in 1 .. n : w[i] = Round(w[i - 1])
  BY Zenon DEF CharacterRun
<1> HIDE DEF n, first, Round
<1>4. Is([i \in 0 .. n |-> {w[i]}])
  <2> DEFINE g == [i \in 0 .. n |-> {w[i]}]
  <2>1. \A i \in 0 .. n : g[i] = {w[i]}
    OBVIOUS
  <2>2. g = [i \in 0 .. n |-> g[i]]
    OBVIOUS
  <2> HIDE DEF g
  <2>3. ASSUME NEW i \in 0 .. n
        PROVE  g[i] = IF i = 0 THEN {first} ELSE {Round(x) : x \in g[i - 1]}
    <3>1. CASE i = 0
      BY <1>3, <2>1, <3>1
    <3>2. CASE i # 0
      <4>1. i \in 1 .. n /\ i - 1 \in 0 .. n
        BY <1>2, <3>2
      <4>2. g[i] = {Round(w[i - 1])} /\ g[i - 1] = {w[i - 1]}
        BY <1>3, <2>1, <4>1
      <4> QED
        BY <3>2, <4>2
    <3> QED
      BY <3>1, <3>2
  <2>4. Is(g)
    BY <2>2, <2>3
  <2> QED
    BY <2>4 DEF g
<1>5. Is(F)
  <2> HIDE DEF Is
  <2> QED
    BY <1>4
<1> HIDE DEF F
<1>6. \A i \in 0 .. n : F[i] = IF i = 0 THEN {first} ELSE {Round(x) : x \in F[i - 1]}
  BY <1>5
<1> HIDE DEF Is
<1> DEFINE Same == {i \in 0 .. n : F[i] = {w[i]}}
<1>7. 0 \in Same
  <2>1. 0 \in 0 .. n
    BY <1>2
  <2>2. F[0] = {first}
    BY <1>6, <2>1
  <2> QED
    BY <1>3, <2>1, <2>2
<1>8. ASSUME NEW i \in 1 .. n, i - 1 \in Same
      PROVE  i \in Same
  <2>1. i \in 0 .. n /\ i # 0 /\ F[i - 1] = {w[i - 1]}
    BY <1>2, <1>8
  <2>2. F[i] = {Round(x) : x \in F[i - 1]}
    BY <1>6, <2>1
  <2>3. w[i] = Round(w[i - 1])
    BY <1>3
  <2> QED
    BY <2>1, <2>2, <2>3
<1>9. F[n] = {w[n]}
  <2>1. 0 .. n \subseteq Same
    <3> HIDE DEF Same
    <3> QED
      BY <1>2, <1>7, <1>8, Upwards
  <2> QED
    BY <1>2, <2>1
<1>10. end = w[n]
  BY <1>9
<1> HIDE DEF end
<1> QED
  BY <1>1, <1>10, Zenon DEF n

(* What the constants are: characters that survive, and a count of one. *)
Fit == /\ \A c \in Character : Survives(c)
       /\ MaxCount \in Nat /\ MaxCount >= 1

LEMMA FitIs ==
  ASSUME Fit
  PROVE  Character \subseteq CodePoints
BY DEF Fit, Survives

LEMMA Injective ==
  ASSUME NEW c, NEW d, c \in CodePoints, d \in CodePoints, NEW s \in Seq(Byte), NEW t \in Seq(Byte),
         Utf8(c) \o s = Utf8(d) \o t
  PROVE  c = d /\ s = t
<1>1. PICK u, v : u = Utf8(c) /\ v = Utf8(d)
  OBVIOUS
<1>2. IsCharacter(u) /\ IsCharacter(v) /\ ParseChar(u) = c /\ ParseChar(v) = d
  BY <1>1, Utf8Is
<1>3. u \o s = v \o t
  BY <1>1
<1>4. IsCharacter(u) /\ IsCharacter(v) /\ s \in Seq(Byte) /\ t \in Seq(Byte)
  BY <1>2
<1>5. u = v
  BY <1>3, <1>4, OneCharacter, Zenon
<1>6. u \in Seq(Byte)
  BY <1>2 DEF IsCharacter
<1>7. s = t
  BY <1>3, <1>5, <1>6, CancelLeft
<1>8. c = d
  BY <1>2, <1>5, Zenon
<1> QED
  BY <1>7, <1>8

LEMMA CharacterRoundIs ==
  ASSUME Fit, NEW c, c \in Character, NEW t \in Seq(Byte), NEW r, r.rest = Utf8(c) \o t
  PROVE  CharacterRound(r) = [characters |-> Append(r.characters, c), rest |-> t]
<1>1. PICK s : s = r.rest
  OBVIOUS
<1>2. c \in CodePoints /\ Utf8(c) \in Seq(Byte) /\ Utf8(c) # <<>>
  BY FitIs, Utf8Type
<1>3. s \in Seq(Byte) /\ s # <<>> /\ s = Utf8(c) \o t
  BY <1>1, <1>2, ConcatFirst
<1> DEFINE Begins(d) == Stream!IsPrefix(Stream!Utf8(d), s)
           e == CHOOSE d \in Character : Begins(d)
<1>4. CharacterRound(r) = [characters |-> Append(r.characters, e),
                           rest |-> Stream!DropFirst(s, Len(Stream!Utf8(e)))]
  BY <1>1, <1>3, Zenon DEF CharacterRound
<1>5. Begins(c)
  <2>1. IsPrefix(Utf8(c), s)
    BY <1>2, <1>3, PrefixIs
  <2> QED
    BY <2>1, StreamIs, Zenon
<1>6. ASSUME NEW d, d \in Character, Begins(d)
      PROVE  d = c
  <2>1. IsPrefix(Utf8(d), s)
    BY <1>6, StreamIs, Zenon
  <2>2. d \in CodePoints /\ Utf8(d) \in Seq(Byte) /\ Len(Utf8(d)) \in Nat
    BY <1>6, FitIs, Utf8Type
  <2>3. PICK v : v = Drop(s, Len(Utf8(d)))
    OBVIOUS
  <2>4. s = Utf8(d) \o v /\ v \in Seq(Byte)
    BY <1>3, <2>1, <2>2, <2>3, PrefixIs, DropIs
  <2> QED
    BY <1>2, <1>3, <2>2, <2>4, Injective
<1> HIDE DEF Begins
<1>7. e = c
  BY <1>5, <1>6
<1>8. Stream!DropFirst(s, Len(Stream!Utf8(c))) = t
  <2>1. Stream!Utf8(c) = Utf8(c)
    BY StreamIs, Zenon
  <2>2. Stream!DropFirst(s, Len(Utf8(c))) = Drop(s, Len(Utf8(c)))
    BY Zenon DEF Stream!DropFirst, Drop
  <2>3. Drop(s, Len(Utf8(c))) = t
    BY <1>2, <1>3, ConcatTaken
  <2> QED
    BY <2>1, <2>2, <2>3, Zenon
<1> HIDE DEF e
<1> QED
  BY <1>4, <1>7, <1>8, Zenon

LEMMA CharactersIs ==
  ASSUME Fit, NEW cs \in Seq(Character)
  PROVE  Stream!Characters(BytesOf(cs)) = cs
<1>1. PICK bs, l, n : bs = BytesOf(cs) /\ l = Len(cs) /\ n = Len(bs)
  OBVIOUS
<1>2. cs \in Seq(CodePoints) /\ l \in Nat /\ n \in Nat /\ n >= l /\ bs \in Seq(Byte)
  BY <1>1, FitIs, LenIs, BytesOfType
<1> DEFINE Low(i) == IF i <= l THEN i ELSE l
           w == [i \in 0 .. n |-> [characters |-> Take(cs, Low(i)),
                                   rest |-> BytesOf(Drop(cs, Low(i)))]]
<1>3. \A i \in 0 .. n : w[i] = [characters |-> Take(cs, Low(i)), rest |-> BytesOf(Drop(cs, Low(i)))]
  OBVIOUS
<1> HIDE DEF w
<1>4. w[0] = [characters |-> <<>>, rest |-> bs]
  <2>1. 0 \in 0 .. n /\ Low(0) = 0 /\ 0 \in 0 .. Len(cs)
    BY <1>1, <1>2
  <2>2. Take(cs, 0) = <<>> /\ Drop(cs, 0) = cs
    BY <1>2, <2>1, TakeIs, DropEnds
  <2> QED
    BY <1>1, <1>3, <2>1, <2>2
<1>5. ASSUME NEW i \in 1 .. n
      PROVE  w[i] = CharacterRound(w[i - 1])
  <2>1. PICK r : r = w[i - 1]
    OBVIOUS
  <2>2. i \in 0 .. n /\ i - 1 \in 0 .. n /\ i \in Nat /\ i - 1 \in Nat /\ (i - 1) + 1 = i
    BY <1>2
  <2>3. CASE i <= l
    <3>1. Low(i - 1) = i - 1 /\ Low(i) = i /\ i - 1 < Len(cs) /\ i \in 1 .. Len(cs)
      BY <1>1, <1>2, <2>2, <2>3
    <3> HIDE DEF Low
    <3>2. r = [characters |-> Take(cs, i - 1), rest |-> BytesOf(Drop(cs, i - 1))]
      BY <1>3, <2>1, <2>2, <3>1
    <3>3. cs[i] \in Character
      BY <3>1, LenIs
    <3>4. /\ BytesOf(Drop(cs, i - 1)) = Utf8(cs[i]) \o BytesOf(Drop(cs, i))
          /\ BytesOf(Drop(cs, i)) \in Seq(Byte)
      <4>1. /\ BytesOf(Drop(cs, i - 1)) = Utf8(cs[(i - 1) + 1]) \o BytesOf(Drop(cs, (i - 1) + 1))
            /\ BytesOf(Drop(cs, (i - 1) + 1)) \in Seq(Byte)
        BY <1>2, <2>2, <3>1, BytesOfDrop
      <4> QED
        BY <2>2, <4>1
    <3>5. Append(Take(cs, i - 1), cs[i]) = Take(cs, i)
      <4>1. Append(Take(cs, i - 1), cs[(i - 1) + 1]) = Take(cs, (i - 1) + 1)
        BY <1>2, <2>2, <3>1, TakeNext
      <4> QED
        BY <2>2, <4>1
    <3>6. r.rest = Utf8(cs[i]) \o BytesOf(Drop(cs, i)) /\ r.characters = Take(cs, i - 1)
      BY <3>2, <3>4
    <3>7. CharacterRound(r) = [characters |-> Append(r.characters, cs[i]),
                               rest |-> BytesOf(Drop(cs, i))]
      BY <3>3, <3>4, <3>6, CharacterRoundIs
    <3>8. w[i] = [characters |-> Take(cs, i), rest |-> BytesOf(Drop(cs, i))]
      BY <1>3, <2>2, <3>1
    <3> QED
      BY <2>1, <3>5, <3>6, <3>7, <3>8
  <2>4. CASE ~(i <= l)
    <3>1. Low(i - 1) = l /\ Low(i) = l
      BY <1>2, <2>2, <2>4
    <3> HIDE DEF Low
    <3>2. w[i] = r /\ r.rest = BytesOf(Drop(cs, l))
      <4>1. w[i] = [characters |-> Take(cs, l), rest |-> BytesOf(Drop(cs, l))]
        BY <1>3, <2>2, <3>1, Zenon
      <4>2. r = [characters |-> Take(cs, l), rest |-> BytesOf(Drop(cs, l))]
        BY <1>3, <2>1, <2>2, <3>1, Zenon
      <4> QED
        BY <4>1, <4>2
    <3>3. Drop(cs, l) = <<>>
      BY <1>1, <1>2, DropEnds
    <3>4. r.rest = <<>>
      BY <3>2, <3>3, BytesOfEmpty
    <3>5. CharacterRound(r) = r
      BY <3>4, Zenon DEF CharacterRound
    <3> QED
      BY <2>1, <3>2, <3>5
  <2> QED
    BY <2>3, <2>4
<1>6. CharacterRun(w, bs)
  BY <1>1, <1>4, <1>5 DEF CharacterRun
<1>7. Stream!Characters(bs) = w[n].characters
  <2>1. Len(bs) \in Nat
    BY <1>1, <1>2
  <2> QED
    BY <1>1, <1>6, <2>1, CharactersAre
<1>8. w[n].characters = cs
  <2>1. n \in 0 .. n /\ Low(n) = l
    BY <1>2
  <2>2. Take(cs, l) = cs
    BY <1>1, <1>2, TakeIs
  <2> HIDE DEF Low
  <2>3. w[n] = [characters |-> cs, rest |-> BytesOf(Drop(cs, l))]
    BY <1>3, <2>1, <2>2, Zenon
  <2> QED
    BY <2>3
<1> QED
  BY <1>1, <1>7, <1>8

-----------------------------------------------------------------------------
(* Reading characters to the end, and to the end of a line.                *)

(* A port that has the characters cs, and read ahead at most the first.    *)
AtCharacters(p, cs) ==
  /\ IsPort(p)
  /\ Left(p) = BytesOf(cs)
  /\ cs # <<>> => Len(p.data) <= Len(Utf8(cs[1]))

(* One that has them and has read nothing ahead. *)
Before(cs) == [data |-> <<>>, source |-> BytesOf(cs)]

LEMMA BeforeIs ==
  ASSUME Fit, NEW cs \in Seq(Character)
  PROVE  /\ AtCharacters(Before(cs), cs)
         /\ BytesOf(cs) \in Seq(Byte)
         /\ Before(<<>>) = NoMore
<1>1. PICK bs : bs = BytesOf(cs)
  OBVIOUS
<1>2. cs \in Seq(CodePoints)
  BY FitIs
<1>3. bs \in Seq(Byte)
  BY <1>1, <1>2, BytesOfType
<1>4. PICK p : p = [data |-> <<>>, source |-> bs]
  OBVIOUS
<1>5. IsPort(p) /\ Left(p) = bs
  BY <1>3, <1>4, PlainPort
<1>6. Before(cs) = p
  BY <1>1, <1>4, Zenon DEF Before
<1>7. cs # <<>> => Len(p.data) <= Len(Utf8(cs[1]))
  <2>1. ASSUME cs # <<>>
        PROVE  Len(p.data) <= Len(Utf8(cs[1]))
    <3>1. cs[1] \in CodePoints
      BY <1>2, <2>1, FirstIs
    <3>2. PICK n : n = Len(Utf8(cs[1]))
      OBVIOUS
    <3>3. n \in Nat
      BY <3>1, <3>2, Utf8Type
    <3>4. Len(p.data) = 0
      <4>1. p.data = <<>>
        BY <1>4
      <4> QED
        BY <1>5, <4>1, DataIs
    <3>5. 0 <= n
      BY <3>3
    <3> QED
      BY <3>2, <3>4, <3>5, Zenon
  <2> QED
    BY <2>1
<1>8. Before(<<>>) = NoMore
  BY BytesOfEmpty, Zenon DEF Before, NoMore
<1> QED
  BY <1>1, <1>3, <1>5, <1>6, <1>7, <1>8, Zenon DEF AtCharacters

LEMMA NextCharacter ==
  ASSUME Fit, NEW cs \in Seq(Character), NEW p, AtCharacters(p, cs)
  PROVE  /\ cs # <<>> =>
              /\ ReadOneChar(p) = Read(cs[1], Before(Tail(cs)))
              /\ PeekOneChar(p) =
                   Read(cs[1], [data |-> Utf8(cs[1]), source |-> BytesOf(Tail(cs))])
              /\ cs[1] \in Character /\ cs[1] # EndOfFile
         /\ cs = <<>> =>
              /\ ReadOneChar(p) = Read(EndOfFile, NoMore)
              /\ PeekOneChar(p) = Read(EndOfFile, NoMore)
<1>1. ASSUME cs # <<>>
      PROVE  /\ ReadOneChar(p) = Read(cs[1], Before(Tail(cs)))
             /\ PeekOneChar(p) =
                  Read(cs[1], [data |-> Utf8(cs[1]), source |-> BytesOf(Tail(cs))])
             /\ cs[1] \in Character /\ cs[1] # EndOfFile
  <2>1. PICK c, t, v : c = cs[1] /\ t = Tail(cs) /\ v = BytesOf(Tail(cs))
    OBVIOUS
  <2>2. c \in Character /\ t \in Seq(Character)
    BY <1>1, <2>1, FirstIs
  <2>3. c \in CodePoints /\ cs \in Seq(CodePoints) /\ t \in Seq(CodePoints)
    BY <2>2, FitIs
  <2>4. v \in Seq(Byte) /\ IsPort(p) /\ Left(p) = Utf8(c) \o v /\ Len(p.data) <= Len(Utf8(c))
    BY <1>1, <2>1, <2>3, BytesOfTail, BytesOfType DEF AtCharacters
  <2>5. /\ ReadOneChar(p) = Read(c, [data |-> <<>>, source |-> v])
        /\ PeekOneChar(p) = Read(c, [data |-> Utf8(c), source |-> v])
    BY <2>3, <2>4, CharRead
  <2>6. c # EndOfFile
    BY <2>3, EndedIs
  <2> QED
    BY <2>1, <2>2, <2>5, <2>6, Zenon DEF Before
<1>2. ASSUME cs = <<>>
      PROVE  /\ ReadOneChar(p) = Read(EndOfFile, NoMore)
             /\ PeekOneChar(p) = Read(EndOfFile, NoMore)
  BY <1>2, BytesOfEmpty, CharEnd DEF AtCharacters
<1> QED
  BY <1>1, <1>2

(* A line is what comes before the first newline, or all there is.         *)
LEMMA LineIs ==
  ASSUME Fit, NEW cs \in Seq(Character), NEW p, AtCharacters(p, cs),
         NEW e \in 1 .. Len(cs) + 1,
         \A i \in 1 .. e - 1 : cs[i] # Newline,
         e <= Len(cs) => cs[e] = Newline
  PROVE  ReadToNewline(p) = Read(Take(cs, e - 1), Before(Drop(cs, e)))
<1>1. PICK l, n : l = Len(cs) /\ n = Longest(p)
  OBVIOUS
<1>2. cs \in Seq(CodePoints) /\ l \in Nat
  BY <1>1, FitIs, LenIs
<1>3. n \in Nat /\ e \in Nat /\ e >= 1 /\ e <= n /\ e <= l + 1
  <2>1. Left(p) \in Seq(Byte) /\ Len(Left(p)) >= Len(cs) /\ IsPort(p)
    BY <1>2, LeftType, BytesOfType DEF AtCharacters
  <2>2. PICK a, b : a = Len(p.data) /\ b = Len(p.source)
    OBVIOUS
  <2>3. a \in Nat /\ b \in Nat /\ Len(Left(p)) <= a + b
    <3>1. a \in Nat
      BY <2>1, <2>2, DataIs
    <3>2. b \in Nat /\ p.source \in Seq(Byte)
      BY <2>1, <2>2, LeftType, LenIs
    <3>3. CASE p.data = Ended
      <4>1. Left(p) = <<>> /\ Len(<<>>) = 0
        BY <2>1, <3>3, LeftType
      <4>2. Len(Left(p)) = 0
        BY <4>1, Zenon
      <4> QED
        BY <3>1, <3>2, <4>2
    <3>4. CASE p.data # Ended
      <4>1. Left(p) = p.data \o p.source /\ p.data \in Seq(Byte)
        BY <2>1, <3>4, LeftType
      <4>2. Len(Left(p)) = a + b
        BY <2>2, <3>2, <4>1, ConcatTaken
      <4> QED
        BY <3>1, <3>2, <4>2
    <3> QED
      BY <3>1, <3>2, <3>3, <3>4
  <2>4. n = a + b + 1
    BY <1>1, <2>2, Zenon DEF Longest
  <2>5. PICK k : k = Len(Left(p))
    OBVIOUS
  <2>6. k \in Nat /\ k >= l /\ k <= a + b
    BY <1>1, <2>1, <2>3, <2>5, LenIs
  <2>7. e \in 1 .. l + 1
    BY <1>1
  <2> QED
    BY <1>2, <2>3, <2>4, <2>6, <2>7
<1> DEFINE P(i) == IF i = 0 THEN p ELSE Before(Drop(cs, i))
           w == [i \in 0 .. n |-> IF i < e THEN Loop(Take(cs, i), P(i), FALSE)
                                  ELSE Loop(Take(cs, e - 1), Before(Drop(cs, e)), TRUE)]
<1>4. /\ \A i \in 0 .. n : i < e => w[i] = Loop(Take(cs, i), P(i), FALSE)
      /\ \A i \in 0 .. n : ~(i < e) => w[i] = Loop(Take(cs, e - 1), Before(Drop(cs, e)), TRUE)
  OBVIOUS
<1> HIDE DEF w
<1>5. ASSUME NEW i \in Nat
      PROVE  AtCharacters(P(i), Drop(cs, i)) /\ Drop(cs, i) \in Seq(Character)
  <2>1. CASE i = 0
    <3>1. Drop(cs, 0) = cs
      BY DropEnds
    <3> QED
      BY <2>1, <3>1
  <2>2. CASE i # 0
    <3>1. Drop(cs, i) \in Seq(Character)
      BY DropIs
    <3>2. P(i) = Before(Drop(cs, i))
      BY <2>2
    <3> HIDE DEF P
    <3> QED
      BY <3>1, <3>2, BeforeIs
  <2> QED
    BY <2>1, <2>2
<1>6. w[0] = Loop(<<>>, p, FALSE)
  <2>1. 0 \in 0 .. n /\ 0 < e /\ 0 \in 0 .. Len(cs)
    BY <1>1, <1>2, <1>3
  <2>2. Take(cs, 0) = <<>>
    BY <2>1, TakeIs
  <2> QED
    BY <1>4, <2>1, <2>2
<1>7. ASSUME NEW i \in 1 .. n
      PROVE  w[i] = IF w[i - 1].ended THEN w[i - 1] ELSE LineRound(w[i - 1])
  <2>1. /\ i \in 0 .. n /\ i - 1 \in 0 .. n /\ i \in Nat /\ i - 1 \in Nat /\ (i - 1) + 1 = i
        /\ i # 0
    BY <1>3
  <2>2. PICK x : x = w[i - 1]
    OBVIOUS
  <2>3. CASE i - 1 < e
    <3>1. PICK q, ds, v : q = P(i - 1) /\ ds = Drop(cs, i - 1) /\ v = Take(cs, i - 1)
      OBVIOUS
    <3>2. x = Loop(v, q, FALSE)
      BY <1>4, <2>1, <2>2, <2>3, <3>1, Zenon
    <3>3. AtCharacters(q, ds) /\ ds \in Seq(Character)
      BY <1>5, <2>1, <3>1, Zenon
    <3>4. x.value = v /\ x.port = q /\ x.ended = FALSE
      BY <3>2 DEF Loop
    <3>5. CASE i < e
      <4>1. i - 1 < Len(cs) /\ i \in 1 .. Len(cs) /\ i - 1 \in 0 .. Len(cs)
        BY <1>1, <1>2, <1>3, <2>1, <3>5
      <4>2. ds # <<>> /\ ds[1] = cs[i] /\ Tail(ds) = Drop(cs, i)
        <5>1. /\ Drop(cs, i - 1) # <<>> /\ Head(Drop(cs, i - 1)) = cs[(i - 1) + 1]
              /\ Tail(Drop(cs, i - 1)) = Drop(cs, (i - 1) + 1)
          BY <2>1, <4>1, DropNext
        <5>2. Head(ds) = ds[1]
          BY <3>1, <3>3, <5>1, FirstIs
        <5> QED
          BY <2>1, <3>1, <5>1, <5>2
      <4>3. ReadOneChar(q) = Read(cs[i], Before(Drop(cs, i))) /\ cs[i] # EndOfFile
        BY <3>3, <4>2, NextCharacter
      <4>4. Append(v, cs[i]) = Take(cs, i)
        <5>1. Append(Take(cs, i - 1), cs[(i - 1) + 1]) = Take(cs, (i - 1) + 1)
          BY <2>1, <4>1, TakeNext
        <5> QED
          BY <2>1, <3>1, <5>1
      <4>5. cs[i] # Newline
        <5>1. i \in 1 .. e - 1
          BY <1>3, <2>1, <3>5
        <5> QED
          BY <5>1
      <4>6. ReadOneChar(x.port).value = cs[i] /\ ReadOneChar(x.port).port = Before(Drop(cs, i))
        BY <3>4, <4>3 DEF Read
      <4>7. LineRound(x) = Loop(Append(v, cs[i]), Before(Drop(cs, i)), FALSE)
        BY <3>4, <4>3, <4>5, <4>6, Zenon DEF LineRound
      <4>8. w[i] = Loop(Take(cs, i), Before(Drop(cs, i)), FALSE)
        <5>1. P(i) = Before(Drop(cs, i))
          BY <2>1
        <5> HIDE DEF P
        <5> QED
          BY <1>4, <2>1, <3>5, <5>1, Zenon
      <4> QED
        BY <2>2, <3>4, <4>4, <4>7, <4>8, Zenon
    <3>6. CASE ~(i < e)
      <4>1. i = e
        BY <1>3, <2>1, <2>3, <3>6
      <4>2. LineRound(x) = Loop(v, Before(Drop(cs, e)), TRUE)
        <5>1. CASE e <= Len(cs)
          <6>1. /\ i - 1 < Len(cs) /\ i \in 1 .. Len(cs)
            BY <1>1, <1>2, <2>1, <4>1, <5>1
          <6>2. ds # <<>> /\ ds[1] = cs[i] /\ Tail(ds) = Drop(cs, i)
            <7>1. /\ Drop(cs, i - 1) # <<>> /\ Head(Drop(cs, i - 1)) = cs[(i - 1) + 1]
                  /\ Tail(Drop(cs, i - 1)) = Drop(cs, (i - 1) + 1)
              BY <2>1, <6>1, DropNext
            <7>2. Head(ds) = ds[1]
              BY <3>1, <3>3, <7>1, FirstIs
            <7> QED
              BY <2>1, <3>1, <7>1, <7>2
          <6>3. ReadOneChar(q) = Read(Newline, Before(Drop(cs, i)))
            BY <3>3, <4>1, <5>1, <6>2, NextCharacter
          <6>4. /\ ReadOneChar(x.port).value = Newline
                /\ ReadOneChar(x.port).port = Before(Drop(cs, i))
            BY <3>4, <6>3 DEF Read
          <6> QED
            BY <3>4, <4>1, <6>4, Zenon DEF LineRound
        <5>2. CASE ~(e <= Len(cs))
          <6>1. i - 1 >= Len(cs) /\ e >= Len(cs)
            BY <1>1, <1>2, <1>3, <2>1, <4>1, <5>2
          <6>2. ds = <<>> /\ Drop(cs, e) = <<>>
            BY <1>3, <2>1, <3>1, <6>1, DropEnds
          <6>3. ReadOneChar(q) = Read(EndOfFile, NoMore)
            BY <3>3, <6>2, NextCharacter
          <6>4. ReadOneChar(x.port).value = EndOfFile /\ ReadOneChar(x.port).port = NoMore
            BY <3>4, <6>3 DEF Read
          <6>5. Before(Drop(cs, e)) = NoMore
            BY <6>2, BeforeIs
          <6> QED
            BY <3>4, <6>4, <6>5, Zenon DEF LineRound
        <5> QED
          BY <5>1, <5>2
      <4>3. w[i] = Loop(Take(cs, e - 1), Before(Drop(cs, e)), TRUE)
        BY <1>4, <2>1, <3>6, Zenon
      <4>4. v = Take(cs, e - 1)
        BY <3>1, <4>1
      <4> QED
        BY <2>2, <3>4, <4>2, <4>3, <4>4, Zenon
    <3> QED
      BY <3>5, <3>6
  <2>4. CASE ~(i - 1 < e)
    <3>1. ~(i < e)
      BY <1>3, <2>1, <2>4
    <3>2. /\ w[i] = Loop(Take(cs, e - 1), Before(Drop(cs, e)), TRUE)
          /\ x = Loop(Take(cs, e - 1), Before(Drop(cs, e)), TRUE)
      BY <1>4, <2>1, <2>2, <2>4, <3>1, Zenon
    <3>3. x.ended = TRUE
      BY <3>2 DEF Loop
    <3> QED
      BY <2>2, <3>2, <3>3, Zenon
  <2> QED
    BY <2>3, <2>4
<1>8. LineRun(w, n, p)
  BY <1>1, <1>6, <1>7, Zenon DEF LineRun
<1>9. w[n] = Loop(Take(cs, e - 1), Before(Drop(cs, e)), TRUE)
  <2>1. n \in 0 .. n /\ ~(n < e)
    BY <1>3
  <2> QED
    BY <1>4, <2>1, Zenon
<1>10. ReadToNewline(p) = Read(w[n].value, w[n].port)
  BY <1>1, <1>3, <1>8, LineAre, Zenon
<1>11. w[n].value = Take(cs, e - 1) /\ w[n].port = Before(Drop(cs, e))
  BY <1>9 DEF Loop
<1> QED
  BY <1>10, <1>11, Zenon

(* read-string returns all of the characters if it is asked for no less.   *)
LEMMA CharsIs ==
  ASSUME Fit, NEW cs \in Seq(Character), NEW p, AtCharacters(p, cs),
         NEW count \in Nat, count >= Len(cs), NEW e, e = Len(cs) + 1
  PROVE  ReadChars(count, p) = Read(Take(cs, e - 1), Before(Drop(cs, e)))
<1>1. PICK l, n : l = Len(cs) /\ n = count + 1
  OBVIOUS
<1>2. cs \in Seq(CodePoints) /\ l \in Nat
  BY <1>1, FitIs, LenIs
<1>3. n \in Nat /\ e \in Nat /\ e >= 1 /\ e <= n /\ e <= l + 1
  <2>1. e = l + 1 /\ count >= l
    BY <1>1
  <2> QED
    BY <1>1, <1>2, <2>1
<1> DEFINE P(i) == IF i = 0 THEN p ELSE Before(Drop(cs, i))
           w == [i \in 0 .. n |-> IF i < e THEN Loop(Take(cs, i), P(i), FALSE)
                                  ELSE Loop(Take(cs, e - 1), Before(Drop(cs, e)), TRUE)]
<1>4. /\ \A i \in 0 .. n : i < e => w[i] = Loop(Take(cs, i), P(i), FALSE)
      /\ \A i \in 0 .. n : ~(i < e) => w[i] = Loop(Take(cs, e - 1), Before(Drop(cs, e)), TRUE)
  OBVIOUS
<1> HIDE DEF w
<1>5. ASSUME NEW i \in Nat
      PROVE  AtCharacters(P(i), Drop(cs, i)) /\ Drop(cs, i) \in Seq(Character)
  <2>1. CASE i = 0
    <3>1. Drop(cs, 0) = cs
      BY DropEnds
    <3> QED
      BY <2>1, <3>1
  <2>2. CASE i # 0
    <3>1. Drop(cs, i) \in Seq(Character)
      BY DropIs
    <3>2. P(i) = Before(Drop(cs, i))
      BY <2>2
    <3> HIDE DEF P
    <3> QED
      BY <3>1, <3>2, BeforeIs
  <2> QED
    BY <2>1, <2>2
<1>6. w[0] = Loop(<<>>, p, FALSE)
  <2>1. 0 \in 0 .. n /\ 0 < e /\ 0 \in 0 .. Len(cs)
    BY <1>1, <1>2, <1>3
  <2>2. Take(cs, 0) = <<>>
    BY <2>1, TakeIs
  <2> QED
    BY <1>4, <2>1, <2>2
<1>7. ASSUME NEW i \in 1 .. n
      PROVE  w[i] = IF w[i - 1].ended THEN w[i - 1] ELSE CharRound(w[i - 1], count)
  <2>1. /\ i \in 0 .. n /\ i - 1 \in 0 .. n /\ i \in Nat /\ i - 1 \in Nat /\ (i - 1) + 1 = i
        /\ i # 0
    BY <1>3
  <2>2. PICK x : x = w[i - 1]
    OBVIOUS
  <2>3. CASE i - 1 < e
    <3>1. PICK q, ds, v : q = P(i - 1) /\ ds = Drop(cs, i - 1) /\ v = Take(cs, i - 1)
      OBVIOUS
    <3>2. x = Loop(v, q, FALSE)
      BY <1>4, <2>1, <2>2, <2>3, <3>1, Zenon
    <3>3. AtCharacters(q, ds) /\ ds \in Seq(Character)
      BY <1>5, <2>1, <3>1, Zenon
    <3>4. x.value = v /\ x.port = q /\ x.ended = FALSE
      BY <3>2 DEF Loop
    <3>5. CASE i < e
      <4>1. i - 1 < Len(cs) /\ i \in 1 .. Len(cs) /\ i - 1 \in 0 .. Len(cs)
        BY <1>1, <1>2, <1>3, <2>1, <3>5
      <4>2. ds # <<>> /\ ds[1] = cs[i] /\ Tail(ds) = Drop(cs, i)
        <5>1. /\ Drop(cs, i - 1) # <<>> /\ Head(Drop(cs, i - 1)) = cs[(i - 1) + 1]
              /\ Tail(Drop(cs, i - 1)) = Drop(cs, (i - 1) + 1)
          BY <2>1, <4>1, DropNext
        <5>2. Head(ds) = ds[1]
          BY <3>1, <3>3, <5>1, FirstIs
        <5> QED
          BY <2>1, <3>1, <5>1, <5>2
      <4>3. ReadOneChar(q) = Read(cs[i], Before(Drop(cs, i))) /\ cs[i] # EndOfFile
        BY <3>3, <4>2, NextCharacter
      <4>4. Append(v, cs[i]) = Take(cs, i)
        <5>1. Append(Take(cs, i - 1), cs[(i - 1) + 1]) = Take(cs, (i - 1) + 1)
          BY <2>1, <4>1, TakeNext
        <5> QED
          BY <2>1, <3>1, <5>1
      <4>5. Len(x.value) # count
        <5>1. Len(v) = i - 1
          BY <3>1, <4>1, TakeIs
        <5>2. i - 1 # count
          BY <1>1, <1>2, <2>1, <4>1
        <5> QED
          BY <3>4, <5>1, <5>2
      <4>6. ReadOneChar(x.port).value = cs[i] /\ ReadOneChar(x.port).port = Before(Drop(cs, i))
        BY <3>4, <4>3 DEF Read
      <4>7. CharRound(x, count) = Loop(Append(v, cs[i]), Before(Drop(cs, i)), FALSE)
        BY <3>4, <4>3, <4>5, <4>6, Zenon DEF CharRound
      <4>8. w[i] = Loop(Take(cs, i), Before(Drop(cs, i)), FALSE)
        <5>1. P(i) = Before(Drop(cs, i))
          BY <2>1
        <5> HIDE DEF P
        <5> QED
          BY <1>4, <2>1, <3>5, <5>1, Zenon
      <4> QED
        BY <2>2, <3>4, <4>4, <4>7, <4>8, Zenon
    <3>6. CASE ~(i < e)
      <4>1. i = e
        BY <1>3, <2>1, <2>3, <3>6
      <4>2. CharRound(x, count) = Loop(v, Before(Drop(cs, e)), TRUE)
        <5>1. i - 1 >= Len(cs) /\ e >= Len(cs)
          BY <1>1, <1>2, <1>3, <2>1, <4>1
        <5>2. ds = <<>> /\ Drop(cs, e) = <<>>
          BY <1>3, <2>1, <3>1, <5>1, DropEnds
        <5>3. ReadOneChar(q) = Read(EndOfFile, NoMore)
          BY <3>3, <5>2, NextCharacter
        <5>4. ReadOneChar(x.port).value = EndOfFile /\ ReadOneChar(x.port).port = NoMore
          BY <3>4, <5>3 DEF Read
        <5>5. Before(Drop(cs, e)) = NoMore
          BY <5>2, BeforeIs
        <5> QED
          BY <3>4, <5>4, <5>5, Zenon DEF CharRound
      <4>3. w[i] = Loop(Take(cs, e - 1), Before(Drop(cs, e)), TRUE)
        BY <1>4, <2>1, <3>6, Zenon
      <4>4. v = Take(cs, e - 1)
        BY <3>1, <4>1
      <4> QED
        BY <2>2, <3>4, <4>2, <4>3, <4>4, Zenon
    <3> QED
      BY <3>5, <3>6
  <2>4. CASE ~(i - 1 < e)
    <3>1. ~(i < e)
      BY <1>3, <2>1, <2>4
    <3>2. /\ w[i] = Loop(Take(cs, e - 1), Before(Drop(cs, e)), TRUE)
          /\ x = Loop(Take(cs, e - 1), Before(Drop(cs, e)), TRUE)
      BY <1>4, <2>1, <2>2, <2>4, <3>1, Zenon
    <3>3. x.ended = TRUE
      BY <3>2 DEF Loop
    <3> QED
      BY <2>2, <3>2, <3>3, Zenon
  <2> QED
    BY <2>3, <2>4
<1>8. CharRun(w, count, p)
  BY <1>1, <1>6, <1>7, Zenon DEF CharRun
<1>9. w[n] = Loop(Take(cs, e - 1), Before(Drop(cs, e)), TRUE)
  <2>1. n \in 0 .. n /\ ~(n < e)
    BY <1>3
  <2> QED
    BY <1>4, <2>1, Zenon
<1>10. ReadChars(count, p) = Read(w[n].value, w[n].port)
  BY <1>1, <1>8, CharsAre, Zenon
<1>11. w[n].value = Take(cs, e - 1) /\ w[n].port = Before(Drop(cs, e))
  BY <1>9 DEF Loop
<1> QED
  BY <1>10, <1>11, Zenon

LEMMA AllCharacters ==
  ASSUME Fit, NEW cs \in Seq(Character), NEW p, AtCharacters(p, cs),
         NEW count \in Nat, count >= Len(cs)
  PROVE  ReadChars(count, p) = Read(cs, NoMore)
<1>1. PICK e : e = Len(cs) + 1
  OBVIOUS
<1>2. Len(cs) \in Nat /\ e - 1 = Len(cs) /\ e \in Nat /\ e >= Len(cs) /\ Len(cs) \in 0 .. Len(cs)
  BY <1>1, LenIs
<1>3. ReadChars(count, p) = Read(Take(cs, e - 1), Before(Drop(cs, e)))
  BY <1>1, CharsIs
<1>4. Take(cs, e - 1) = cs /\ Drop(cs, e) = <<>>
  BY <1>2, TakeIs, DropEnds
<1>5. Before(<<>>) = NoMore
  BY BeforeIs
<1> QED
  BY <1>3, <1>4, <1>5, Zenon

-----------------------------------------------------------------------------
(* Reading bytes. *)

(* A port that has the bytes bs and read nothing ahead. *)
From(bs) == [data |-> <<>>, source |-> bs]

(* A byte is looked at where no more than one was read ahead. *)
LEMMA ByteSeen ==
  ASSUME NEW p, IsPort(p), Len(p.data) <= 1
  PROVE  /\ Left(p) = <<>> =>
              PeekByte(p) = Read(EndOfFile, [data |-> Ended, source |-> <<>>])
         /\ Left(p) # <<>> =>
              /\ PeekByte(p) = Read(Head(Left(p)),
                                    [data |-> <<Head(Left(p))>>, source |-> Tail(Left(p))])
              /\ ReadByte(PeekByte(p).port) = Read(Head(Left(p)), From(Tail(Left(p))))
              /\ Head(Left(p)) \in Byte /\ Head(Left(p)) # EndOfFile
<1>1. PICK b, q : b = ReadByte(p).value /\ q = ReadByte(p).port
  OBVIOUS
<1>2. PeekByte(p) = Read(b, Unread(<<b>>, q))
  BY <1>1, Zenon DEF PeekByte
<1>3. CASE Left(p) = <<>>
  <2>1. b = EndOfFile /\ q = NoMore
    BY <1>1, <1>3, ByteRead DEF Read
  <2>2. Unread(<<EndOfFile>>, NoMore) = [data |-> Ended, source |-> <<>>]
    <3>1. <<>> \o <<EndOfFile>> = Ended
      BY ConcatEmptySeq DEF Ended, EndOfFile
    <3>2. NoMore.data = <<>>
      BY DEF NoMore
    <3>3. Unread(<<EndOfFile>>, NoMore) = [NoMore EXCEPT !.data = NoMore.data \o <<EndOfFile>>]
      BY DEF Unread
    <3>4. [NoMore EXCEPT !.data = Ended] = [data |-> Ended, source |-> <<>>]
      BY DEF NoMore
    <3> QED
      BY <3>1, <3>2, <3>3, <3>4
  <2> QED
    BY <1>2, <1>3, <2>1, <2>2
<1>4. CASE Left(p) # <<>>
  <2>1. PICK s, t : s = Left(p) /\ t = Tail(s)
    OBVIOUS
  <2>2. s \in Seq(Byte) /\ t \in Seq(Byte) /\ s # <<>> /\ Head(s) \in Byte
    BY <1>4, <2>1, LeftType, FirstIs
  <2>3. /\ b = Head(s) /\ IsPort(q) /\ Left(q) = t /\ p.data # Ended
        /\ q.data = IF p.data = <<>> THEN <<>> ELSE Tail(p.data)
    BY <1>1, <1>4, <2>1, ByteRead
  <2>4. q.data = <<>>
    <3>1. CASE p.data = <<>>
      BY <2>3, <3>1
    <3>2. CASE p.data # <<>>
      <4>1. PICK k : k = Len(p.data)
        OBVIOUS
      <4>2. k \in Nat /\ k # 0 /\ k <= 1
        BY <3>2, <4>1, DataIs
      <4>3. k - 1 = 0
        BY <4>2
      <4>4. Len(q.data) = 0
        BY <2>3, <3>2, <4>1, <4>3, DataIs
      <4> QED
        BY <2>3, <4>4, DataIs
    <3> QED
      BY <3>1, <3>2
  <2>5. q = [data |-> <<>>, source |-> t]
    BY <2>3, <2>4, PlainPort
  <2>6. Unread(<<b>>, q) = [data |-> <<b>>, source |-> t]
    <3>1. <<>> \o <<b>> = <<b>>
      BY <2>2, <2>3, ConcatEmptySeq
    <3>2. q.data = <<>>
      BY <2>4
    <3>3. Unread(<<b>>, q) = [q EXCEPT !.data = q.data \o <<b>>]
      BY DEF Unread
    <3>4. [q EXCEPT !.data = <<b>>] = [data |-> <<b>>, source |-> t]
      BY <2>5
    <3> QED
      BY <3>1, <3>2, <3>3, <3>4
  <2>7. PICK r : r = [data |-> <<b>>, source |-> t]
    OBVIOUS
  <2>8. PeekByte(p).port = r
    BY <1>2, <2>6, <2>7 DEF Read
  <2>9. ReadByte(r) = Read(b, From(t))
    <3>1. r.data = <<b>> /\ <<b>> # <<>> /\ Head(<<b>>) = b /\ Tail(<<b>>) = <<>>
      BY <2>7
    <3>2. ReadByte(r) = Read(Head(r.data), [r EXCEPT !.data = Tail(r.data)])
      BY <3>1 DEF ReadByte
    <3>3. [r EXCEPT !.data = <<>>] = From(t)
      BY <2>7 DEF From
    <3> QED
      BY <3>1, <3>2, <3>3
  <2>10. b \in Byte /\ b # EndOfFile
    BY <2>2, <2>3, EndedIs
  <2> QED
    BY <1>2, <1>4, <2>1, <2>3, <2>6, <2>8, <2>9, <2>10, Zenon
<1> QED
  BY <1>3, <1>4

(* read-bytevector! reads as many bytes as it is asked for, or all there   *)
(* are.                                                                    *)
LEMMA IntoIs ==
  ASSUME NEW p, IsPort(p), Len(p.data) <= 1, NEW count \in Nat,
         NEW m \in 0 .. Len(Left(p)), m <= count, m = count \/ m = Len(Left(p))
  PROVE  /\ ReadInto(count, p).value = Take(Left(p), m)
         /\ IsPort(ReadInto(count, p).port)
         /\ Left(ReadInto(count, p).port) = Drop(Left(p), m)
         /\ Len(ReadInto(count, p).port.data) <= 1
<1>1. PICK s, n : s = Left(p) /\ n = count + 1
  OBVIOUS
<1>2. s \in Seq(Byte) /\ Len(s) \in Nat /\ n \in Nat /\ m \in Nat /\ m <= Len(s) /\ m < n
  <2>1. s \in Seq(Byte)
    BY <1>1, LeftType
  <2>2. PICK k : k = Len(s)
    OBVIOUS
  <2>3. k \in Nat /\ m \in 0 .. k
    BY <1>1, <2>1, <2>2, LenIs
  <2>4. n \in Nat /\ m \in Nat /\ m <= k /\ m < n
    BY <1>1, <2>3
  <2> QED
    BY <2>1, <2>2, <2>3, <2>4
<1> DEFINE P(i) == IF i = 0 THEN p ELSE From(Drop(s, i))
           last == PeekByte(P(m)).port
           w == [i \in 0 .. n |-> IF i <= m THEN Loop(Take(s, i), P(i), FALSE)
                                  ELSE Loop(Take(s, m), last, TRUE)]
<1>3. /\ \A i \in 0 .. n : i <= m => w[i] = Loop(Take(s, i), P(i), FALSE)
      /\ \A i \in 0 .. n : ~(i <= m) => w[i] = Loop(Take(s, m), last, TRUE)
  OBVIOUS
<1> HIDE DEF w
<1>4. ASSUME NEW i \in Nat
      PROVE  IsPort(P(i)) /\ Left(P(i)) = Drop(s, i) /\ Len(P(i).data) <= 1
  <2>1. CASE i = 0
    <3>1. Drop(s, 0) = s
      BY <1>2, DropEnds
    <3> QED
      BY <1>1, <2>1, <3>1
  <2>2. CASE i # 0
    <3>1. Drop(s, i) \in Seq(Byte)
      BY <1>2, DropIs
    <3>2. PICK t : t = Drop(s, i)
      OBVIOUS
    <3>3. PICK q : q = [data |-> <<>>, source |-> t]
      OBVIOUS
    <3>4. IsPort(q) /\ Left(q) = t
      BY <3>1, <3>2, <3>3, PlainPort
    <3>5. Len(q.data) = 0
      <4>1. q.data = <<>>
        BY <3>3
      <4> QED
        BY <3>4, <4>1, DataIs
    <3>6. Len(q.data) <= 1
      BY <3>5
    <3>7. P(i) = q
      BY <2>2, <3>2, <3>3, Zenon DEF From
    <3> QED
      BY <3>2, <3>4, <3>6, <3>7, Zenon
  <2> QED
    BY <2>1, <2>2
<1>5. w[0] = Loop(<<>>, p, FALSE)
  <2>1. 0 \in 0 .. n /\ 0 <= m /\ 0 \in 0 .. Len(s)
    BY <1>2
  <2>2. Take(s, 0) = <<>>
    BY <1>2, <2>1, TakeIs
  <2>3. P(0) = p
    OBVIOUS
  <2> HIDE DEF P
  <2> QED
    BY <1>3, <2>1, <2>2, <2>3
<1>6. ASSUME NEW i \in 1 .. n
      PROVE  w[i] = IF w[i - 1].ended THEN w[i - 1] ELSE IntoRound(w[i - 1], count)
  <2>1. /\ i \in 0 .. n /\ i - 1 \in 0 .. n /\ i \in Nat /\ i - 1 \in Nat /\ (i - 1) + 1 = i
        /\ i # 0
    BY <1>2
  <2>2. PICK x : x = w[i - 1]
    OBVIOUS
  <2>3. CASE i - 1 <= m
    <3>1. PICK q, t, v : q = P(i - 1) /\ t = Drop(s, i - 1) /\ v = Take(s, i - 1)
      OBVIOUS
    <3>2. x = Loop(v, q, FALSE)
      <4> HIDE DEF P
      <4> QED
        BY <1>3, <2>1, <2>2, <2>3, <3>1, Zenon
    <3>3. IsPort(q) /\ Left(q) = t /\ Len(q.data) <= 1
      <4> HIDE DEF P
      <4> QED
        BY <1>4, <2>1, <3>1
    <3>4. x.value = v /\ x.port = q /\ x.ended = FALSE
      BY <3>2 DEF Loop
    <3>5. Len(v) = i - 1
      <4>1. i - 1 \in 0 .. Len(s)
        BY <1>2, <2>1, <2>3
      <4> QED
        BY <1>2, <3>1, <4>1, TakeIs
    <3>6. CASE i <= m
      <4>1. i - 1 < Len(s) /\ i - 1 # count
        BY <1>1, <1>2, <2>1, <3>6
      <4>2. t # <<>> /\ Head(t) = s[i] /\ Tail(t) = Drop(s, i)
        <5>1. /\ Drop(s, i - 1) # <<>> /\ Head(Drop(s, i - 1)) = s[(i - 1) + 1]
              /\ Tail(Drop(s, i - 1)) = Drop(s, (i - 1) + 1)
          BY <1>2, <2>1, <4>1, DropNext
        <5> QED
          BY <2>1, <3>1, <5>1
      <4>3. PICK r, z : r = PeekByte(x.port) /\ z = ReadByte(r.port)
        OBVIOUS
      <4>4. r.value = s[i] /\ s[i] # EndOfFile /\ z = Read(s[i], From(Drop(s, i)))
        <5>1. /\ PeekByte(q) = Read(Head(t), [data |-> <<Head(t)>>, source |-> Tail(t)])
              /\ ReadByte(PeekByte(q).port) = Read(Head(t), From(Tail(t)))
              /\ Head(t) # EndOfFile
          BY <3>3, <4>2, ByteSeen
        <5>2. PeekByte(q).value = Head(t)
          BY <5>1 DEF Read
        <5> QED
          BY <3>4, <4>2, <4>3, <5>1, <5>2
      <4>5. Append(v, s[i]) = Take(s, i)
        <5>1. Append(Take(s, i - 1), s[(i - 1) + 1]) = Take(s, (i - 1) + 1)
          BY <1>2, <2>1, <4>1, TakeNext
        <5> QED
          BY <2>1, <3>1, <5>1
      <4>6. z.value = s[i] /\ z.port = From(Drop(s, i))
        BY <4>4 DEF Read
      <4>7. Len(x.value) # count
        BY <3>4, <3>5, <4>1
      <4>8. IntoRound(x, count) = Loop(Append(v, s[i]), From(Drop(s, i)), FALSE)
        BY <3>4, <4>3, <4>4, <4>6, <4>7, Zenon DEF IntoRound
      <4>9. w[i] = Loop(Take(s, i), From(Drop(s, i)), FALSE)
        <5>1. P(i) = From(Drop(s, i))
          BY <2>1
        <5> HIDE DEF P
        <5> QED
          BY <1>3, <2>1, <3>6, <5>1, Zenon
      <4> QED
        BY <2>2, <3>4, <4>5, <4>8, <4>9, Zenon
    <3>7. CASE ~(i <= m)
      <4>1. i - 1 = m
        BY <1>2, <2>1, <2>3, <3>7
      <4>2. w[i] = Loop(Take(s, m), last, TRUE)
        <5> HIDE DEF last
        <5> QED
          BY <1>3, <2>1, <3>7, Zenon
      <4>3. v = Take(s, m) /\ PeekByte(q).port = last
        BY <3>1, <4>1
      <4>4. PeekByte(q).value = EndOfFile \/ Len(v) = count
        <5>1. CASE m = count
          BY <3>5, <4>1, <5>1
        <5>2. CASE m = Len(s)
          <6>1. t = <<>>
            BY <1>2, <3>1, <4>1, <5>2, DropEnds
          <6>2. PeekByte(q) = Read(EndOfFile, [data |-> Ended, source |-> <<>>])
            BY <3>3, <6>1, ByteSeen
          <6> QED
            BY <6>2 DEF Read
        <5> QED
          BY <1>1, <5>1, <5>2
      <4>5. IntoRound(x, count) = Loop(v, PeekByte(q).port, TRUE)
        BY <3>4, <4>4, Zenon DEF IntoRound
      <4> HIDE DEF last
      <4> QED
        BY <2>2, <3>4, <4>2, <4>3, <4>5, Zenon
    <3> QED
      BY <3>6, <3>7
  <2>4. CASE ~(i - 1 <= m)
    <3>1. ~(i <= m)
      BY <1>2, <2>1, <2>4
    <3> HIDE DEF last
    <3>2. w[i] = Loop(Take(s, m), last, TRUE) /\ x = Loop(Take(s, m), last, TRUE)
      BY <1>3, <2>1, <2>2, <2>4, <3>1, Zenon
    <3>3. x.ended = TRUE
      BY <3>2 DEF Loop
    <3> QED
      BY <2>2, <3>2, <3>3, Zenon
  <2> QED
    BY <2>3, <2>4
<1>7. IntoRun(w, count, p)
  BY <1>1, <1>5, <1>6, Zenon DEF IntoRun
<1>8. w[n] = Loop(Take(s, m), last, TRUE)
  <2>1. n \in 0 .. n /\ ~(n <= m)
    BY <1>2
  <2> HIDE DEF last
  <2> QED
    BY <1>3, <2>1, Zenon
<1>9. ReadInto(count, p) = Read(w[n].value, w[n].port)
  BY <1>1, <1>7, IntoAre, Zenon
<1>10. ReadInto(count, p).value = Take(s, m) /\ ReadInto(count, p).port = last
  <2> HIDE DEF last
  <2> QED
    BY <1>8, <1>9 DEF Loop, Read
<1>11. IsPort(last) /\ Left(last) = Drop(s, m) /\ Len(last.data) <= 1
  <2>1. PICK q, t : q = P(m) /\ t = Drop(s, m)
    OBVIOUS
  <2>2. IsPort(q) /\ Left(q) = t /\ Len(q.data) <= 1 /\ t \in Seq(Byte)
    <3> HIDE DEF P
    <3> QED
      BY <1>2, <1>4, <2>1, DropIs
  <2>3. PICK r : r = PeekByte(q).port
    OBVIOUS
  <2>4. CASE t = <<>>
    <3>1. PeekByte(q) = Read(EndOfFile, [data |-> Ended, source |-> <<>>])
      BY <2>2, <2>4, ByteSeen
    <3>2. r = [data |-> Ended, source |-> <<>>]
      BY <2>3, <3>1 DEF Read
    <3>3. IsPort(r) /\ r.data = Ended
      BY <3>2 DEF IsPort
    <3>4. Left(r) = <<>>
      BY <3>3, LeftType
    <3>5. Len(r.data) <= 1
      BY <3>3, EndedIs
    <3> QED
      BY <2>1, <2>3, <2>4, <3>3, <3>4, <3>5, Zenon
  <2>5. CASE t # <<>>
    <3>1. PICK b, u : b = Head(t) /\ u = Tail(t)
      OBVIOUS
    <3>2. /\ PeekByte(q) = Read(b, [data |-> <<b>>, source |-> u])
          /\ b \in Byte
      BY <2>2, <2>5, <3>1, ByteSeen
    <3>3. r = [data |-> <<b>>, source |-> u]
      BY <2>3, <3>2 DEF Read
    <3>4. b = t[1] /\ u \in Seq(Byte) /\ <<b>> \o u = t
      BY <2>2, <2>5, <3>1, FirstIs
    <3>5. <<b>> \in Seq(Byte) /\ <<b>> # <<>> /\ Len(<<b>>) = 1
      BY <3>2
    <3>6. IsPort(r) /\ r.data = <<b>> /\ r.source = u
      BY <3>3, <3>4, <3>5, EndedIs DEF IsPort
    <3>7. r.data # Ended
      BY <3>5, <3>6, EndedIs
    <3>8. Left(r) = t
      BY <3>4, <3>6, <3>7 DEF Left
    <3>9. Len(r.data) <= 1
      BY <3>5, <3>6
    <3> QED
      BY <2>1, <2>3, <3>6, <3>8, <3>9, Zenon
  <2> QED
    BY <2>4, <2>5
<1> HIDE DEF last
<1> QED
  BY <1>1, <1>10, <1>11, Zenon

LoopSet == [value : Seq(Byte), port : PortSet, ended : BOOLEAN]

LEMMA LoopSetIs ==
  ASSUME NEW v \in Seq(Byte), NEW q, IsPort(q), NEW b \in BOOLEAN
  PROVE  /\ Loop(v, q, b) \in LoopSet
         /\ Loop(v, q, b).value = v /\ Loop(v, q, b).port = q /\ Loop(v, q, b).ended = b
<1>1. q \in PortSet
  BY PortSetIs
<1> QED
  BY <1>1 DEF LoopSet, Loop

LEMMA ByteRoundIs ==
  ASSUME NEW x, x \in LoopSet, NEW count
  PROVE  /\ ByteRound(x, count) \in LoopSet
         /\ Left(x.port) = <<>> => ByteRound(x, count) = Loop(x.value, NoMore, TRUE)
         /\ Left(x.port) # <<>> /\ Len(x.value) # count =>
              ByteRound(x, count) =
                Loop(Append(x.value, Head(Left(x.port))), ReadByte(x.port).port, FALSE)
<1>1. x.value \in Seq(Byte) /\ x.port \in PortSet
  BY DEF LoopSet
<1>2. PICK v, p, b, q : /\ v = x.value /\ p = x.port
                        /\ b = ReadByte(p).value /\ q = ReadByte(p).port
  OBVIOUS
<1>3. v \in Seq(Byte) /\ IsPort(p)
  BY <1>1, <1>2, PortSetIs
<1>4. IsPort(q)
  BY <1>2, <1>3, ByteRead
<1>5. ByteRound(x, count) = IF b = EndOfFile \/ Len(v) = count
                            THEN Loop(v, q, TRUE)
                            ELSE Loop(Append(v, b), q, FALSE)
  BY <1>2, Zenon DEF ByteRound
<1>6. CASE Left(p) = <<>>
  <2>1. b = EndOfFile /\ q = NoMore
    BY <1>2, <1>3, <1>6, ByteRead DEF Read
  <2>2. ByteRound(x, count) = Loop(v, NoMore, TRUE)
    BY <1>5, <2>1, Zenon
  <2>3. Loop(v, NoMore, TRUE) \in LoopSet
    BY <1>3, NoMoreIs, LoopSetIs
  <2> QED
    BY <1>2, <1>6, <2>2, <2>3, Zenon
<1>7. CASE Left(p) # <<>>
  <2>1. b = Head(Left(p)) /\ b \in Byte
    BY <1>2, <1>3, <1>7, ByteRead
  <2>2. b # EndOfFile
    BY <2>1, EndedIs
  <2>3. Append(v, b) \in Seq(Byte)
    BY <1>3, <2>1
  <2>4. Loop(v, q, TRUE) \in LoopSet /\ Loop(Append(v, b), q, FALSE) \in LoopSet
    BY <1>3, <1>4, <2>3, LoopSetIs
  <2> QED
    BY <1>2, <1>5, <1>7, <2>1, <2>2, <2>4, Zenon
<1> QED
  BY <1>2, <1>6, <1>7

(* read-bytevector returns all of the bytes if it is asked for no less.    *)
LEMMA AllBytes ==
  ASSUME NEW p, IsPort(p), NEW count \in Nat, count >= Len(Left(p))
  PROVE  ReadBytes(count, p) = Read(Left(p), NoMore)
<1>1. PICK s, l, n : s = Left(p) /\ l = Len(s) /\ n = count + 1
  OBVIOUS
<1>2. s \in Seq(Byte) /\ l \in Nat /\ n \in Nat /\ l < n /\ l <= count
  <2>1. s \in Seq(Byte)
    BY <1>1, LeftType
  <2>2. l \in Nat /\ count >= l
    BY <1>1, <2>1, LenIs
  <2>3. n \in Nat /\ l < n /\ l <= count
    BY <1>1, <2>2
  <2> QED
    BY <2>1, <2>2, <2>3
<1> DEFINE Step(x) == IF x.ended THEN x ELSE ByteRound(x, count)
           F == [x \in LoopSet |-> Step(x)]
           first == Loop(<<>>, p, FALSE)
<1>3. first \in LoopSet /\ first.value = <<>> /\ first.port = p /\ first.ended = FALSE
  <2>1. <<>> \in Seq(Byte) /\ p \in PortSet
    BY PortSetIs
  <2> QED
    BY <2>1 DEF Loop, LoopSet
<1>4. F \in [LoopSet -> LoopSet] /\ \A x \in LoopSet : F[x] = Step(x)
  <2>1. \A x \in LoopSet : Step(x) \in LoopSet
    BY ByteRoundIs
  <2> HIDE DEF Step
  <2> QED
    BY <2>1
<1> HIDE DEF F, first
<1>5. PICK w : /\ w \in [0 .. n -> LoopSet]
               /\ w[0] = first
               /\ \A i \in 1 .. n : w[i] = F[w[i - 1]]
  <2>1. PICK w : Iteration(w, F, LoopSet, first, n)
    BY <1>2, <1>3, <1>4, Iterated, Zenon
  <2> QED
    BY <2>1 DEF Iteration
<1>6. ASSUME NEW i \in 1 .. n
      PROVE  w[i - 1] \in LoopSet /\ w[i] = Step(w[i - 1])
  <2>1. i - 1 \in 0 .. n
    BY <1>2
  <2>2. w[i - 1] \in LoopSet
    BY <1>5, <2>1
  <2>3. w[i] = F[w[i - 1]]
    BY <1>5
  <2> HIDE DEF Step
  <2> QED
    BY <1>4, <2>2, <2>3
<1> DEFINE Fine(i) ==
             /\ i <= l => /\ w[i].ended = FALSE
                          /\ w[i].value = Take(s, i)
                          /\ Left(w[i].port) = Drop(s, i)
             /\ i > l => w[i] = Loop(s, NoMore, TRUE)
           Good == {i \in 0 .. n : Fine(i)}
<1>7. 0 \in Good
  <2>1. 0 \in 0 .. Len(s) /\ 0 \in 0 .. n /\ ~(0 > l)
    BY <1>1, <1>2
  <2>2. Take(s, 0) = <<>> /\ Drop(s, 0) = s
    BY <1>2, <2>1, TakeIs, DropEnds
  <2>3. Fine(0)
    BY <1>1, <1>3, <1>5, <2>1, <2>2
  <2> HIDE DEF Fine
  <2> QED
    BY <2>1, <2>3
<1>8. ASSUME NEW i \in 1 .. n, i - 1 \in Good
      PROVE  i \in Good
  <2>1. PICK x : x = w[i - 1]
    OBVIOUS
  <2>2. x \in LoopSet /\ w[i] = IF x.ended THEN x ELSE ByteRound(x, count)
    BY <1>6, <2>1, Zenon
  <2>3. Fine(i - 1)
    <3> HIDE DEF Fine
    <3> QED
      BY <1>8
  <2>4. i \in Nat /\ i - 1 \in Nat /\ i \in 0 .. n /\ (i - 1) + 1 = i
    BY <1>2
  <2>5. CASE i - 1 <= l
    <3>1. /\ x.ended = FALSE /\ x.value = Take(s, i - 1)
          /\ Left(x.port) = Drop(s, i - 1)
      BY <2>1, <2>3, <2>5
    <3>2. w[i] = ByteRound(x, count)
      BY <2>2, <3>1, Zenon
    <3>3. CASE i <= l
      <4>1. i - 1 < Len(s) /\ i - 1 # count /\ i - 1 \in 0 .. Len(s) /\ i \in 1 .. Len(s)
        BY <1>1, <1>2, <2>4, <3>3
      <4>2. /\ Drop(s, i - 1) # <<>> /\ Head(Drop(s, i - 1)) = s[i]
            /\ Tail(Drop(s, i - 1)) = Drop(s, i)
            /\ Append(Take(s, i - 1), s[i]) = Take(s, i)
        <5>1. /\ Drop(s, i - 1) # <<>> /\ Head(Drop(s, i - 1)) = s[(i - 1) + 1]
              /\ Tail(Drop(s, i - 1)) = Drop(s, (i - 1) + 1)
              /\ Append(Take(s, i - 1), s[(i - 1) + 1]) = Take(s, (i - 1) + 1)
          BY <1>2, <2>4, <4>1, DropNext, TakeNext
        <5> QED
          BY <2>4, <5>1
      <4>3. Len(Take(s, i - 1)) = i - 1 /\ Take(s, i - 1) \in Seq(Byte) /\ s[i] \in Byte
        BY <1>2, <4>1, TakeIs, LenIs
      <4>4. IsPort(x.port)
        <5>1. x.port \in PortSet
          BY <2>2 DEF LoopSet
        <5> QED
          BY <5>1, PortSetIs
      <4>5. PICK q : q = ReadByte(x.port).port
        OBVIOUS
      <4>6. IsPort(q) /\ Left(q) = Drop(s, i)
        BY <3>1, <4>2, <4>4, <4>5, ByteRead
      <4>7. w[i] = Loop(Take(s, i), q, FALSE)
        BY <2>2, <3>1, <3>2, <4>1, <4>2, <4>3, <4>5, ByteRoundIs
      <4>9. w[i].value = Take(s, i) /\ w[i].port = q /\ w[i].ended = FALSE
        BY <4>7 DEF Loop
      <4>10. ~(i > l)
        BY <1>2, <2>4, <3>3
      <4>11. Fine(i)
        BY <4>6, <4>9, <4>10
      <4> HIDE DEF Fine
      <4> QED
        BY <2>4, <4>11
    <3>4. CASE ~(i <= l)
      <4>1. i - 1 = l /\ i > l
        BY <1>2, <2>4, <2>5, <3>4
      <4>2. Drop(s, l) = <<>> /\ Take(s, l) = s
        BY <1>1, <1>2, DropEnds, TakeIs
      <4>3. w[i] = Loop(s, NoMore, TRUE)
        BY <2>2, <3>1, <3>2, <4>1, <4>2, ByteRoundIs
      <4>4. Fine(i)
        BY <3>4, <4>3
      <4> HIDE DEF Fine
      <4> QED
        BY <2>4, <4>4
    <3> QED
      BY <3>3, <3>4
  <2>6. CASE ~(i - 1 <= l)
    <3>1. i - 1 > l /\ i > l /\ ~(i <= l)
      BY <1>2, <2>4, <2>6
    <3>2. x = Loop(s, NoMore, TRUE)
      BY <2>1, <2>3, <3>1
    <3>3. x.ended = TRUE
      BY <3>2 DEF Loop
    <3>4. w[i] = Loop(s, NoMore, TRUE)
      BY <2>2, <3>2, <3>3, Zenon
    <3>5. Fine(i)
      BY <3>1, <3>4
    <3> HIDE DEF Fine
    <3> QED
      BY <2>4, <3>5
  <2> QED
    BY <2>5, <2>6
<1>9. w[n] = Loop(s, NoMore, TRUE)
  <2>1. 0 .. n \subseteq Good
    <3> HIDE DEF Good
    <3> QED
      BY <1>2, <1>7, <1>8, Upwards
  <2>2. n \in 0 .. n /\ n > l
    BY <1>2
  <2>3. Fine(n)
    <3> HIDE DEF Fine
    <3> QED
      BY <2>1, <2>2
  <2> QED
    BY <2>2, <2>3
<1>10. ByteRun(w, count, p)
  BY <1>1, <1>5, <1>6, Zenon DEF ByteRun, first
<1>11. ReadBytes(count, p) = Read(w[n].value, w[n].port)
  BY <1>1, <1>10, BytesAre, Zenon
<1>12. w[n].value = s /\ w[n].port = NoMore
  BY <1>9 DEF Loop
<1> QED
  BY <1>1, <1>11, <1>12, Zenon

-----------------------------------------------------------------------------
(* Writing. *)

WriteOne(s, byte) == IF textual THEN WriteString(s, byte) ELSE WriteByte(s, byte)

WriteRun(w, s, xs) ==
  w[0] = s /\ \A i \in 1 .. Len(xs) : w[i] = WriteOne(w[i - 1], xs[i])

LEMMA WriteAre ==
  ASSUME NEW s, NEW xs, Len(xs) \in Nat, NEW w, WriteRun(w, s, xs)
  PROVE  WriteAll(s, xs) = w[Len(xs)]
<1> DEFINE n == Len(xs)
           Round(x, i) == IF textual THEN WriteString(x, xs[i]) ELSE WriteByte(x, xs[i])
           Is(f) == f = [i \in 0 .. n |-> IF i = 0 THEN s
                                          ELSE IF textual THEN WriteString(f[i - 1], xs[i])
                                          ELSE WriteByte(f[i - 1], xs[i])]
           F == CHOOSE f : Is(f)
<1>1. WriteAll(s, xs) = F[n]
  BY Zenon DEF WriteAll
<1>2. n \in Nat
  OBVIOUS
<1>3. w[0] = s /\ \A i \in 1 .. n : w[i] = Round(w[i - 1], i)
  BY Zenon DEF WriteRun, WriteOne
<1>4. \A f : Is(f) <=> f = [i \in 0 .. n |-> IF i = 0 THEN s ELSE Round(f[i - 1], i)]
  BY Zenon
<1> HIDE DEF n, Round, Is
<1>5. Is([i \in 0 .. n |-> w[i]])
  <2> DEFINE g == [i \in 0 .. n |-> w[i]]
  <2>1. \A i \in 0 .. n : g[i] = w[i]
    OBVIOUS
  <2>2. g = [i \in 0 .. n |-> g[i]]
    OBVIOUS
  <2> HIDE DEF g
  <2>3. ASSUME NEW i \in 0 .. n
        PROVE  g[i] = IF i = 0 THEN s ELSE Round(g[i - 1], i)
    <3>1. CASE i = 0
      BY <1>3, <2>1, <3>1
    <3>2. CASE i # 0
      <4>1. i \in 1 .. n /\ i - 1 \in 0 .. n
        BY <1>2, <3>2
      <4>2. g[i] = Round(w[i - 1], i) /\ g[i - 1] = w[i - 1]
        BY <1>3, <2>1, <4>1
      <4> QED
        BY <3>2, <4>2
    <3> QED
      BY <3>1, <3>2
  <2>4. g = [i \in 0 .. n |-> IF i = 0 THEN s ELSE Round(g[i - 1], i)]
    BY <2>2, <2>3
  <2>5. Is(g)
    BY <1>4, <2>4
  <2> QED
    BY <2>5 DEF g
<1>6. Is(F)
  BY <1>5
<1> HIDE DEF F
<1>7. \A i \in 0 .. n : F[i] = IF i = 0 THEN s ELSE Round(F[i - 1], i)
  <2>1. F = [i \in 0 .. n |-> IF i = 0 THEN s ELSE Round(F[i - 1], i)]
    BY <1>4, <1>6
  <2> DEFINE G == [i \in 0 .. n |-> IF i = 0 THEN s ELSE Round(F[i - 1], i)]
  <2>2. \A i \in 0 .. n : G[i] = IF i = 0 THEN s ELSE Round(F[i - 1], i)
    OBVIOUS
  <2>3. F = G
    BY <2>1
  <2> HIDE DEF G
  <2> QED
    BY <2>2, <2>3
<1> DEFINE Same == {i \in 0 .. n : F[i] = w[i]}
<1>8. 0 \in Same
  <2>1. 0 \in 0 .. n
    BY <1>2
  <2>2. F[0] = s
    BY <1>7, <2>1
  <2> QED
    BY <1>3, <2>1, <2>2
<1>9. ASSUME NEW i \in 1 .. n, i - 1 \in Same
      PROVE  i \in Same
  <2>1. i \in 0 .. n /\ i # 0 /\ F[i - 1] = w[i - 1]
    BY <1>2, <1>9
  <2>2. F[i] = Round(F[i - 1], i)
    BY <1>7, <2>1
  <2>3. w[i] = Round(w[i - 1], i)
    BY <1>3
  <2> QED
    BY <2>1, <2>2, <2>3
<1>10. F[n] = w[n]
  <2>1. 0 .. n \subseteq Same
    <3> HIDE DEF Same
    <3> QED
      BY <1>2, <1>8, <1>9, Upwards
  <2> QED
    BY <1>2, <2>1
<1> QED
  BY <1>1, <1>10, Zenon DEF n

Output(s, bs) == [string |-> s, bytes |-> bs]

(* A character arrives in a string after the last of its bytes. *)
LEMMA CharacterWritten ==
  ASSUME NEW c, c \in CodePoints, textual, NEW s
  PROVE  WriteAll(Output(s, <<>>), Utf8(c)) = Output(Append(s, c), <<>>)
<1>1. PICK u, n : u = Utf8(c) /\ n = Len(u)
  OBVIOUS
<1>2. u \in Seq(Byte) /\ n \in Nat /\ n >= 1 /\ u # <<>>
  BY <1>1, Utf8Type
<1> DEFINE w == [i \in 0 .. n |-> IF i < n THEN Output(s, Take(u, i))
                                  ELSE Output(Append(s, c), <<>>)]
<1>3. /\ \A i \in 0 .. n : i < n => w[i] = Output(s, Take(u, i))
      /\ \A i \in 0 .. n : ~(i < n) => w[i] = Output(Append(s, c), <<>>)
  OBVIOUS
<1> HIDE DEF w
<1>4. w[0] = Output(s, <<>>)
  <2>1. 0 \in 0 .. n /\ 0 < n
    BY <1>2
  <2>2. Take(u, 0) = <<>>
    <3>1. 0 \in 0 .. Len(u)
      BY <1>1, <2>1
    <3> QED
      BY <1>2, <3>1, TakeIs
  <2>3. w[0] = Output(s, Take(u, 0))
    BY <1>3, <2>1
  <2> QED
    BY <2>2, <2>3
<1>5. ASSUME NEW i \in 1 .. n
      PROVE  w[i] = WriteOne(w[i - 1], u[i])
  <2>1. /\ i \in 0 .. n /\ i - 1 \in 0 .. n /\ i - 1 < n /\ i \in Nat /\ i - 1 \in Nat
        /\ (i - 1) + 1 = i /\ i \in 0 .. Len(u) /\ i - 1 < Len(u)
    BY <1>1, <1>2
  <2>2. PICK x, v : x = w[i - 1] /\ v = Take(u, i)
    OBVIOUS
  <2>3. x = Output(s, Take(u, i - 1))
    BY <1>3, <2>1, <2>2, Zenon
  <2>4. Append(x.bytes, u[i]) = v
    <3>1. x.bytes = Take(u, i - 1)
      BY <2>3 DEF Output
    <3>2. Append(Take(u, i - 1), u[(i - 1) + 1]) = Take(u, (i - 1) + 1)
      BY <1>2, <2>1, TakeNext
    <3> QED
      BY <2>1, <2>2, <3>1, <3>2
  <2>5. v \in Seq(Byte)
    BY <1>2, <2>1, <2>2, TakeIs
  <2>6. PICK q : q = [data |-> <<>>, source |-> v]
    OBVIOUS
  <2>7. IsPort(q) /\ Left(q) = v /\ q.data = <<>>
    BY <2>5, <2>6, PlainPort
  <2>8. WriteOne(x, u[i]) = IF ReadOneChar(q).value = EndOfFile
                            THEN [x EXCEPT !.bytes = v]
                            ELSE [string |-> Append(x.string, ReadOneChar(q).value),
                                  bytes |-> <<>>]
    BY <2>4, <2>6, Zenon DEF WriteOne, WriteString
  <2>9. CASE i < n
    <3>1. i \in 1 .. Len(Utf8(c)) - 1 /\ Left(q) = Take(Utf8(c), i)
      BY <1>1, <1>2, <2>1, <2>2, <2>7, <2>9
    <3>2. ReadOneChar(q).value = EndOfFile
      BY <2>7, <3>1, CharCut
    <3>3. WriteOne(x, u[i]) = [x EXCEPT !.bytes = v]
      BY <2>8, <3>2, Zenon
    <3>4. [x EXCEPT !.bytes = v] = Output(s, v)
      BY <2>3 DEF Output
    <3>5. w[i] = Output(s, v)
      BY <1>3, <2>1, <2>2, <2>9, Zenon
    <3> QED
      BY <2>2, <3>3, <3>4, <3>5, Zenon
  <2>10. CASE ~(i < n)
    <3>1. i = n /\ i = Len(u)
      BY <1>1, <2>1, <2>10
    <3>2. v = u
      <4>1. Len(u) \in 0 .. Len(u)
        BY <2>1, <3>1
      <4> QED
        BY <1>2, <2>2, <3>1, <4>1, TakeIs
    <3>3. Left(q) = Utf8(c) \o <<>> /\ <<>> \in Seq(Byte)
      BY <1>1, <1>2, <2>7, <3>2, ConcatEmptySeq
    <3>4. Len(q.data) <= Len(Utf8(c))
      <4>1. Len(q.data) = 0
        BY <2>7, DataIs
      <4>2. 0 <= n
        BY <1>2
      <4> QED
        BY <1>1, <4>1, <4>2, Zenon
    <3>5. ReadOneChar(q) = Read(c, [data |-> <<>>, source |-> <<>>])
      BY <2>7, <3>3, <3>4, CharRead
    <3>6. ReadOneChar(q).value = c
      BY <3>5 DEF Read
    <3>7. c # EndOfFile
      BY EndedIs
    <3>8. x.string = s
      BY <2>3 DEF Output
    <3>9. WriteOne(x, u[i]) = Output(Append(s, c), <<>>)
      BY <2>8, <3>6, <3>7, <3>8, Zenon DEF Output
    <3>10. w[i] = Output(Append(s, c), <<>>)
      BY <1>3, <2>1, <2>10, Zenon
    <3> QED
      BY <2>2, <3>9, <3>10, Zenon
  <2> QED
    BY <2>9, <2>10
<1>6. WriteRun(w, Output(s, <<>>), u)
  BY <1>1, <1>4, <1>5, Zenon DEF WriteRun
<1>7. w[n] = Output(Append(s, c), <<>>)
  <2>1. n \in 0 .. n /\ ~(n < n)
    BY <1>2
  <2> QED
    BY <1>3, <2>1, Zenon
<1>8. Len(u) \in Nat
  BY <1>1, <1>2
<1> QED
  BY <1>1, <1>6, <1>7, <1>8, WriteAre, Zenon

LEMMA BytesWritten ==
  ASSUME NEW c, c \in CodePoints, ~textual, NEW s, NEW bs \in Seq(Byte)
  PROVE  WriteAll(Output(s, bs), Utf8(c)) = Output(s, bs \o Utf8(c))
<1>1. PICK u, n : u = Utf8(c) /\ n = Len(u)
  OBVIOUS
<1>2. u \in Seq(Byte) /\ n \in Nat
  BY <1>1, Utf8Type
<1> DEFINE w == [i \in 0 .. n |-> Output(s, bs \o Take(u, i))]
<1>3. \A i \in 0 .. n : w[i] = Output(s, bs \o Take(u, i))
  OBVIOUS
<1> HIDE DEF w
<1>4. n \in 0 .. n /\ 0 \in 0 .. n /\ 0 \in 0 .. Len(u) /\ Take(u, 0) = <<>> /\ Take(u, n) = u
      /\ bs \o <<>> = bs
  <2>1. n \in 0 .. n /\ 0 \in 0 .. n /\ 0 \in 0 .. Len(u)
    BY <1>1, <1>2
  <2>2. Take(u, 0) = <<>> /\ Take(u, n) = u
    BY <1>1, <1>2, <2>1, TakeIs
  <2> QED
    BY <2>1, <2>2, ConcatEmptySeq
<1>5. w[0] = Output(s, bs) /\ w[n] = Output(s, bs \o u)
  BY <1>3, <1>4, Zenon
<1>6. ASSUME NEW i \in 1 .. n
      PROVE  w[i] = WriteOne(w[i - 1], u[i])
  <2>1. /\ i \in 0 .. n /\ i - 1 \in 0 .. n /\ i - 1 \in Nat /\ (i - 1) + 1 = i
        /\ i - 1 < Len(u) /\ i - 1 \in 0 .. Len(u) /\ i \in 1 .. Len(u)
    BY <1>1, <1>2
  <2>2. PICK x, v : x = w[i - 1] /\ v = Take(u, i - 1)
    OBVIOUS
  <2>3. v \in Seq(Byte) /\ u[i] \in Byte
    BY <1>2, <2>1, <2>2, TakeIs, LenIs
  <2>4. x = Output(s, bs \o v)
    BY <1>3, <2>1, <2>2, Zenon
  <2>5. Append(bs \o v, u[i]) = bs \o Take(u, i)
    <3>1. Append(v, u[i]) = Take(u, i)
      <4>1. Append(Take(u, i - 1), u[(i - 1) + 1]) = Take(u, (i - 1) + 1)
        BY <1>2, <2>1, TakeNext
      <4> QED
        BY <2>1, <2>2, <4>1
    <3>2. <<u[i]>> \in Seq(Byte) /\ bs \o v \in Seq(Byte)
      BY <2>3, ConcatProperties
    <3>3. Append(bs \o v, u[i]) = (bs \o v) \o <<u[i]>>
      BY <2>3, <3>2, AppendIsConcat
    <3>4. Append(v, u[i]) = v \o <<u[i]>>
      BY <2>3, AppendIsConcat
    <3>5. (bs \o v) \o <<u[i]>> = bs \o (v \o <<u[i]>>)
      BY <2>3, <3>2, ConcatAssociative
    <3> QED
      BY <3>1, <3>3, <3>4, <3>5, Zenon
  <2>6. WriteOne(x, u[i]) = [x EXCEPT !.bytes = Append(x.bytes, u[i])]
    BY DEF WriteOne, WriteByte
  <2>7. [x EXCEPT !.bytes = Append(x.bytes, u[i])] = Output(s, Append(bs \o v, u[i]))
    <3>1. PICK y, z : y = bs \o v /\ z = Append(y, u[i])
      OBVIOUS
    <3>2. x = Output(s, y)
      BY <2>4, <3>1
    <3>3. x.bytes = y /\ [x EXCEPT !.bytes = z] = Output(s, z)
      BY <3>2 DEF Output
    <3> QED
      BY <3>1, <3>3, Zenon
  <2>8. w[i] = Output(s, bs \o Take(u, i))
    BY <1>3, <2>1, Zenon
  <2> QED
    BY <2>2, <2>5, <2>6, <2>7, <2>8, Zenon
<1>7. WriteRun(w, Output(s, bs), u)
  BY <1>1, <1>5, <1>6, Zenon DEF WriteRun
<1>8. Len(u) \in Nat
  BY <1>1, <1>2
<1> QED
  BY <1>1, <1>5, <1>7, <1>8, WriteAre, Zenon

-----------------------------------------------------------------------------
(* What a port has for its reader: the rest of a character, and characters. *)

Readable ==
  {s \in Seq(Byte) : \E d \in Seq(Trailing), cs \in Seq(Character) : s = d \o BytesOf(cs)}

LEMMA TrailingType ==
  /\ \A d \in Seq(Trailing) : d \in Seq(Byte)
  /\ \A c \in CodePoints : Tail(Utf8(c)) \in Seq(Trailing) /\ Utf8(c)[1] \notin Trailing
<1>1. ASSUME NEW d \in Seq(Trailing)
      PROVE  d \in Seq(Byte)
  <2>1. Trailing \subseteq Byte
    BY DEF Trailing
  <2> HIDE DEF Trailing
  <2> QED
    BY <2>1
<1>2. ASSUME NEW c \in CodePoints
      PROVE  Tail(Utf8(c)) \in Seq(Trailing) /\ Utf8(c)[1] \notin Trailing
  <2>1. PICK u, v, n : u = Utf8(c) /\ v = Tail(u) /\ n = Len(u)
    OBVIOUS
  <2>2. IsCharacter(u) /\ u # <<>>
    BY <2>1, Utf8Is, Utf8Type
  <2>3. u \in Seq(Byte) /\ u[1] \notin Trailing /\ \A i \in 2 .. n : u[i] \in Trailing
    BY <2>1, <2>2 DEF IsCharacter
  <2>4. n \in Nat /\ v \in Seq(Byte) /\ Len(v) = n - 1 /\ \A i \in 1 .. n - 1 : v[i] = u[i + 1]
    BY <2>1, <2>2, <2>3, LenIs, HeadTailProperties
  <2>5. ASSUME NEW i \in 1 .. n - 1
        PROVE  v[i] \in Trailing
    <3>1. i + 1 \in 2 .. n
      BY <2>4
    <3> QED
      BY <2>3, <2>4, <3>1
  <2>6. v \in Seq(Trailing)
    <3>1. v = [i \in 1 .. Len(v) |-> v[i]] /\ Len(v) \in Nat
      BY <2>4
    <3>2. PICK m : m = Len(v)
      OBVIOUS
    <3>3. m \in Nat /\ v = [i \in 1 .. m |-> v[i]] /\ \A i \in 1 .. m : v[i] \in Trailing
      BY <2>4, <2>5, <3>1, <3>2
    <3>4. v \in [1 .. m -> Trailing]
      BY <3>3
    <3> QED
      BY <3>3, <3>4
  <2> QED
    BY <2>1, <2>3, <2>6
<1> QED
  BY <1>1, <1>2

LEMMA ReadableIs ==
  ASSUME Fit
  PROVE  /\ \A cs \in Seq(Character) : BytesOf(cs) \in Readable
         /\ <<>> \in Readable
         /\ \A s \in Readable : s # <<>> => Tail(s) \in Readable
<1>1. ASSUME NEW cs \in Seq(Character)
      PROVE  BytesOf(cs) \in Readable
  <2>1. PICK bs : bs = BytesOf(cs)
    OBVIOUS
  <2>2. cs \in Seq(CodePoints)
    BY FitIs
  <2>3. bs \in Seq(Byte)
    BY <2>1, <2>2, BytesOfType
  <2>4. bs = <<>> \o bs /\ <<>> \in Seq(Trailing)
    BY <2>3, ConcatEmptySeq
  <2> QED
    BY <2>1, <2>3, <2>4 DEF Readable
<1>2. <<>> \in Readable
  <2>1. <<>> \in Seq(Character)
    OBVIOUS
  <2> QED
    BY <1>1, <2>1, BytesOfEmpty
<1>3. ASSUME NEW s \in Readable, s # <<>>
      PROVE  Tail(s) \in Readable
  <2>1. PICK d \in Seq(Trailing), cs \in Seq(Character) : s = d \o BytesOf(cs)
    BY DEF Readable
  <2>2. PICK bs : bs = BytesOf(cs)
    OBVIOUS
  <2>3. s \in Seq(Byte) /\ Tail(s) \in Seq(Byte)
    BY <1>3, FirstIs DEF Readable
  <2>4. cs \in Seq(CodePoints)
    BY FitIs
  <2>5. bs \in Seq(Byte) /\ d \in Seq(Byte)
    BY <2>2, <2>4, BytesOfType, TrailingType
  <2>6. CASE d # <<>>
    <3>1. Tail(s) = Tail(d) \o bs
      BY <2>1, <2>2, <2>5, <2>6, ConcatFirst
    <3>2. Tail(d) \in Seq(Trailing)
      BY <2>6, FirstIs
    <3> QED
      BY <2>2, <2>3, <3>1, <3>2 DEF Readable
  <2>7. CASE d = <<>>
    <3>1. s = bs
      BY <2>1, <2>2, <2>5, <2>7, ConcatEmptySeq
    <3>2. cs # <<>>
      BY <1>3, <2>2, <3>1, BytesOfEmpty
    <3>3. PICK c, ds, u : c = cs[1] /\ ds = Tail(cs) /\ u = Utf8(c)
      OBVIOUS
    <3>4. c \in CodePoints /\ ds \in Seq(Character) /\ ds \in Seq(CodePoints)
      BY <3>2, <3>3, FirstIs, FitIs
    <3>5. bs = u \o BytesOf(ds) /\ BytesOf(ds) \in Seq(Byte)
      BY <2>2, <2>4, <3>2, <3>3, <3>4, BytesOfTail, BytesOfType
    <3>6. u \in Seq(Byte) /\ u # <<>> /\ Tail(u) \in Seq(Trailing)
      BY <3>3, <3>4, Utf8Type, TrailingType
    <3>7. Tail(s) = Tail(u) \o BytesOf(ds)
      BY <3>1, <3>5, <3>6, ConcatFirst
    <3> QED
      BY <2>3, <3>4, <3>6, <3>7 DEF Readable
  <2> QED
    BY <2>6, <2>7
<1> QED
  BY <1>1, <1>2, <1>3

LEMMA ReadableRest ==
  ASSUME Fit, NEW s \in Readable, NEW m \in 0 .. Len(s)
  PROVE  Drop(s, m) \in Readable
<1>1. PICK l : l = Len(s)
  OBVIOUS
<1>2. s \in Seq(Byte) /\ l \in Nat
  BY <1>1, LenIs DEF Readable
<1> DEFINE Good == {i \in 0 .. l : Drop(s, i) \in Readable}
<1>3. 0 \in Good
  <2>1. Drop(s, 0) = s /\ 0 \in 0 .. l
    BY <1>2, DropEnds
  <2> QED
    BY <2>1
<1>4. ASSUME NEW i \in 1 .. l, i - 1 \in Good
      PROVE  i \in Good
  <2>1. i - 1 \in Nat /\ i - 1 < Len(s) /\ (i - 1) + 1 = i /\ i \in 0 .. l
    BY <1>1, <1>2
  <2>2. Drop(s, i - 1) # <<>> /\ Tail(Drop(s, i - 1)) = Drop(s, (i - 1) + 1)
    BY <1>2, <2>1, DropNext
  <2>3. Drop(s, i - 1) \in Readable
    BY <1>4
  <2>4. Drop(s, i) \in Readable
    BY <2>1, <2>2, <2>3, ReadableIs
  <2> QED
    BY <2>1, <2>4
<1>5. 0 .. l \subseteq Good
  <2> HIDE DEF Good
  <2> QED
    BY <1>2, <1>3, <1>4, Upwards
<1> QED
  BY <1>1, <1>5

(* A port with what a reader can read, and read ahead one byte at most, a  *)
(* character, or the rest of one.                                          *)
GoodPort(p) ==
  /\ IsPort(p)
  /\ Left(p) \in Readable
  /\ \/ Len(p.data) <= 1
     \/ p.data \in Seq(Trailing)
     \/ \E c \in Character : p.data = Utf8(c)

LEMMA FromGood ==
  ASSUME NEW s \in Readable
  PROVE  /\ GoodPort([data |-> <<>>, source |-> s])
         /\ Left([data |-> <<>>, source |-> s]) = s
<1>1. PICK p : p = [data |-> <<>>, source |-> s]
  OBVIOUS
<1>2. s \in Seq(Byte)
  BY DEF Readable
<1>3. IsPort(p) /\ Left(p) = s /\ p.data = <<>>
  BY <1>1, <1>2, PlainPort
<1>4. p.data \in Seq(Trailing)
  BY <1>3
<1> QED
  BY <1>1, <1>3, <1>4, Zenon DEF GoodPort

LEMMA NoMoreGood ==
  ASSUME Fit
  PROVE  GoodPort(NoMore) /\ Left(NoMore) = <<>>
<1>1. <<>> \in Readable
  BY ReadableIs
<1> QED
  BY <1>1, FromGood, Zenon DEF NoMore

(* Where a character begins, a good port has characters and read ahead at  *)
(* most the first.                                                         *)
LEMMA AtCharacterIs ==
  ASSUME Fit, NEW p, GoodPort(p),
         Left(p) = <<>> \/ \E c \in Character : IsPrefix(Utf8(c), Left(p))
  PROVE  \E cs \in Seq(Character) : AtCharacters(p, cs)
<1>1. PICK d \in Seq(Trailing), cs \in Seq(Character) : Left(p) = d \o BytesOf(cs)
  BY DEF GoodPort, Readable
<1>2. PICK s, bs : s = Left(p) /\ bs = BytesOf(cs)
  OBVIOUS
<1>3. IsPort(p) /\ s \in Seq(Byte)
  BY <1>2 DEF GoodPort, Readable
<1>4. cs \in Seq(CodePoints) /\ d \in Seq(Byte)
  BY FitIs, TrailingType
<1>5. bs \in Seq(Byte) /\ s = d \o bs
  BY <1>1, <1>2, <1>4, BytesOfType
<1>6. \A t \in Seq(Byte) : t # <<>> /\ t[1] \in Trailing => \A v \in Seq(Byte) : s # t \o v
  <2>1. SUFFICES ASSUME NEW t \in Seq(Byte), t # <<>>, t[1] \in Trailing,
                        NEW v \in Seq(Byte), s = t \o v
                 PROVE  FALSE
    OBVIOUS
  <2>2. s # <<>> /\ Head(s) = t[1]
    BY <2>1, ConcatFirst, FirstIs
  <2>3. PICK c \in Character : IsPrefix(Utf8(c), s)
    BY <1>2, <2>2
  <2>4. c \in CodePoints
    BY FitIs
  <2>5. PICK u, x : u = Utf8(c) /\ x = Drop(s, Len(u))
    OBVIOUS
  <2>6. u \in Seq(Byte) /\ u # <<>> /\ u[1] \notin Trailing /\ Len(u) \in Nat
    BY <2>4, <2>5, Utf8Type, TrailingType
  <2>7. s = u \o x /\ x \in Seq(Byte)
    BY <1>3, <2>3, <2>5, <2>6, PrefixIs, DropIs
  <2>8. Head(s) = u[1]
    BY <2>6, <2>7, ConcatFirst, FirstIs
  <2> QED
    BY <2>1, <2>2, <2>6, <2>8
<1>7. d = <<>>
  <2>1. SUFFICES ASSUME d # <<>>
                 PROVE  FALSE
    OBVIOUS
  <2>2. d[1] \in Trailing
    BY <2>1, FirstIs
  <2> QED
    BY <1>4, <1>5, <1>6, <2>1, <2>2
<1>8. s = bs
  BY <1>5, <1>7, ConcatEmptySeq
<1>9. ASSUME cs # <<>>
      PROVE  Len(p.data) <= Len(Utf8(cs[1]))
  <2>1. PICK c, t, u : c = cs[1] /\ t = BytesOf(Tail(cs)) /\ u = Utf8(c)
    OBVIOUS
  <2>2. c \in CodePoints /\ Tail(cs) \in Seq(CodePoints)
    BY <1>4, <1>9, <2>1, FirstIs
  <2>3. bs = u \o t /\ t \in Seq(Byte) /\ u \in Seq(Byte) /\ Len(u) \in Nat /\ Len(u) >= 1
    BY <1>2, <1>4, <1>9, <2>1, <2>2, BytesOfTail, BytesOfType, Utf8Type
  <2>4. PICK k, n : k = Len(p.data) /\ n = Len(u)
    OBVIOUS
  <2>5. k \in Nat /\ n \in Nat /\ n >= 1
    BY <1>3, <2>3, <2>4, DataIs
  <2>6. k <= n
    <3>1. CASE Len(p.data) <= 1
      BY <2>4, <2>5, <3>1
    <3>2. CASE ~(Len(p.data) <= 1) /\ p.data \in Seq(Trailing)
      <4>1. p.data # <<>>
        <5>1. k # 0
          BY <2>4, <2>5, <3>2
        <5> QED
          BY <1>3, <2>4, <5>1, DataIs
      <4>2. p.data # Ended /\ p.data[1] \in Trailing /\ p.data \in Seq(Byte)
        BY <3>2, <4>1, FirstIs, TrailingType, EndedIs
      <4>3. s = p.data \o p.source /\ p.source \in Seq(Byte)
        BY <1>2, <1>3, <4>2, LeftType
      <4> QED
        BY <1>6, <4>1, <4>2, <4>3
    <3>3. CASE ~(Len(p.data) <= 1) /\ \E e \in Character : p.data = Utf8(e)
      <4>1. PICK e \in Character : p.data = Utf8(e)
        BY <3>3
      <4>2. e \in CodePoints
        BY FitIs
      <4>3. p.data # Ended
        <5>1. 1 <= 1
          OBVIOUS
        <5> QED
          BY <3>3, <5>1, EndedIs, Zenon
      <4>4. s = Utf8(e) \o p.source /\ p.source \in Seq(Byte)
        BY <1>2, <1>3, <4>1, <4>3, LeftType
      <4>5. Utf8(e) \o p.source = Utf8(c) \o t
        BY <1>8, <2>1, <2>3, <4>4
      <4>6. e = c
        BY <2>2, <2>3, <4>2, <4>4, <4>5, Injective
      <4>7. k = n
        BY <2>1, <2>4, <4>1, <4>6
      <4> QED
        BY <2>5, <4>7
    <3> QED
      BY <3>1, <3>2, <3>3 DEF GoodPort
  <2> QED
    BY <2>1, <2>4, <2>6
<1> QED
  BY <1>2, <1>3, <1>8, <1>9 DEF AtCharacters

-----------------------------------------------------------------------------
(* What the stream has. *)

LEMMA StreamTerms ==
  ASSUME NEW T, NEW s \in Seq(T), NEW n \in Nat
  PROVE  /\ Stream!DropFirst(s, n) = Drop(s, n)
         /\ n <= Len(s) => Stream!TakeFirst(s, n) = Take(s, n)
         /\ n >= Len(s) => Stream!TakeFirst(s, n) = s /\ Stream!DropFirst(s, n) = <<>>
<1>1. Len(s) \in Nat
  BY LenIs
<1>2. Stream!DropFirst(s, n) = Drop(s, n)
  BY Zenon DEF Stream!DropFirst, Drop
<1>3. ASSUME n <= Len(s)
      PROVE  Stream!TakeFirst(s, n) = Take(s, n)
  <2>1. (IF n < Len(s) THEN n ELSE Len(s)) = n
    BY <1>1, <1>3
  <2> QED
    BY <2>1, Zenon DEF Stream!TakeFirst, Take
<1>4. ASSUME n >= Len(s)
      PROVE  Stream!TakeFirst(s, n) = s
  <2>1. (IF n < Len(s) THEN n ELSE Len(s)) = Len(s) /\ Len(s) \in 0 .. Len(s)
    BY <1>1, <1>4
  <2>2. Take(s, Len(s)) = s
    BY <2>1, TakeIs
  <2> QED
    BY <2>1, <2>2, Zenon DEF Stream!TakeFirst, Take
<1>5. n >= Len(s) => Drop(s, n) = <<>>
  BY DropEnds
<1> QED
  BY <1>2, <1>3, <1>4, <1>5, Zenon

LEMMA StreamEnd ==
  /\ Stream!OrEnd(<<>>) = <<EndOfFile>>
  /\ \A s : s # <<>> => Stream!OrEnd(s) = s
  /\ Stream!Failure = Failure /\ Stream!Newline = Newline
BY Zenon DEF Stream!OrEnd, Stream!EndOfFile, EndOfFile, Stream!Failure, Failure,
     Stream!Newline, Newline

LEMMA StreamFirst ==
  ASSUME NEW T, NEW s \in Seq(T)
  PROVE  /\ s = <<>> => /\ Stream!OrEnd(Stream!TakeFirst(s, 1)) = <<EndOfFile>>
                        /\ Stream!DropFirst(s, 1) = <<>>
         /\ s # <<>> => /\ Stream!OrEnd(Stream!TakeFirst(s, 1)) = <<Head(s)>>
                        /\ Stream!DropFirst(s, 1) = Tail(s)
<1>1. CASE s = <<>>
  <2>1. Len(<<>>) = 0
    OBVIOUS
  <2>2. 1 \in Nat /\ 1 >= 0
    OBVIOUS
  <2>3. 1 >= Len(s)
    BY <1>1, <2>1, <2>2, Zenon
  <2>4. Stream!TakeFirst(s, 1) = s /\ Stream!DropFirst(s, 1) = <<>>
    BY <2>2, <2>3, StreamTerms
  <2> QED
    BY <1>1, <2>4, StreamEnd, Zenon
<1>2. CASE s # <<>>
  <2>1. /\ Head(s) = s[1] /\ s[1] \in T /\ Tail(s) = Drop(s, 1) /\ Len(s) >= 1
        /\ Tail(s) \in Seq(T)
    BY <1>2, FirstIs
  <2>2. 1 \in Nat /\ 1 <= Len(s) /\ 0 \in Nat /\ 0 < Len(s) /\ 0 + 1 = 1 /\ 0 \in 0 .. Len(s)
    BY <2>1, LenIs
  <2>3. Stream!TakeFirst(s, 1) = Take(s, 1) /\ Stream!DropFirst(s, 1) = Tail(s)
    BY <2>1, <2>2, StreamTerms
  <2>4. Take(s, 1) = <<s[1]>>
    <3>1. Append(Take(s, 0), s[0 + 1]) = Take(s, 0 + 1)
      BY <2>2, TakeNext
    <3>2. Take(s, 0) = <<>>
      BY <2>2, TakeIs
    <3>3. Append(<<>>, s[1]) = <<s[1]>>
      OBVIOUS
    <3> QED
      BY <2>2, <3>1, <3>2, <3>3
  <2>5. <<s[1]>> # <<>>
    OBVIOUS
  <2> QED
    BY <1>2, <2>1, <2>3, <2>4, <2>5, StreamEnd, Zenon
<1> QED
  BY <1>1, <1>2

-----------------------------------------------------------------------------
(* The inductive invariant. *)

Inv ==
  /\ textual \in BOOLEAN /\ reading \in BOOLEAN /\ open \in BOOLEAN
  /\ reading => GoodPort(Port)
  /\ ~reading => /\ open
                 /\ data = <<>> /\ source = <<>>
                 /\ textual => bytes = <<>> /\ string \in Seq(Character)
                 /\ ~textual => /\ string = <<>>
                                /\ \E cs \in Seq(Character) : bytes = BytesOf(cs)

LEMMA InitIs ==
  ASSUME Init
  PROVE  Inv /\ Stream!Init
<1>1. textual \in BOOLEAN /\ reading = FALSE /\ open = TRUE /\ data = <<>> /\ source = <<>>
      /\ string = <<>> /\ bytes = <<>> /\ result = <<>>
  BY DEF Init
<1>2. <<>> \in Seq(Character) /\ <<>> = BytesOf(<<>>) /\ <<>> \o <<>> = <<>>
  BY BytesOfEmpty, ConcatEmptySeq
<1>3. Inv
  BY <1>1, <1>2 DEF Inv
<1>4. Contents = BytesOf(string) \o bytes
  BY <1>1, Zenon DEF Contents, BytesOf
<1>5. Contents = <<>>
  BY <1>1, <1>2, <1>4
<1> QED
  BY <1>1, <1>3, <1>5 DEF Stream!Init

(* What a port has for its reader is what the stream has not read.         *)
LEMMA ContentsIs ==
  /\ reading => Contents = Left(Port)
  /\ ~reading => Contents = BytesOf(string) \o bytes
  /\ Port.data = data /\ Port.source = source
  /\ Port = [data |-> data, source |-> source]
BY Zenon DEF Contents, Left, Ended, Port, BytesOf

(* A read leaves the port that it returns. *)
LEMMA Returned ==
  ASSUME Reads, Inv, NEW v, NEW q, GoodPort(q), Return(v, q)
  PROVE  Inv' /\ Contents' = Left(q) /\ result' = v /\ open /\ open' = open /\ Contents = Left(Port)
<1>1. /\ data' = q.data /\ source' = q.source /\ result' = v
      /\ reading' = reading /\ open' = open /\ textual' = textual
  BY DEF Return, outputVars
<1>2. reading /\ open /\ textual \in BOOLEAN
  BY DEF Reads, Inv
<1>3. q = [data |-> q.data, source |-> q.source]
  BY LeftType DEF GoodPort
<1>4. Port' = q
  BY <1>1, <1>3 DEF Port
<1>5. Contents' = (IF data' = Ended THEN <<>> ELSE data') \o source'
  BY <1>1, <1>2, Zenon DEF Contents, Ended
<1>6. Contents' = Left(q)
  BY <1>1, <1>5, Zenon DEF Left
<1>7. Inv'
  BY <1>1, <1>2, <1>4 DEF Inv
<1> QED
  BY <1>1, <1>2, <1>6, <1>7, ContentsIs

-----------------------------------------------------------------------------
(* The steps. *)

LEMMA ReadByteGood ==
  ASSUME Fit, NEW p, GoodPort(p)
  PROVE  /\ GoodPort(ReadByte(p).port)
         /\ <<ReadByte(p).value>> = Stream!OrEnd(Stream!TakeFirst(Left(p), 1))
         /\ Left(ReadByte(p).port) = Stream!DropFirst(Left(p), 1)
<1>1. PICK s, b, q : s = Left(p) /\ b = ReadByte(p).value /\ q = ReadByte(p).port
  OBVIOUS
<1>2. IsPort(p) /\ s \in Readable /\ s \in Seq(Byte)
  BY <1>1 DEF GoodPort, Readable
<1>3. CASE s = <<>>
  <2>1. b = EndOfFile /\ q = NoMore
    <3>1. ReadByte(p) = Read(EndOfFile, NoMore)
      BY <1>1, <1>2, <1>3, ByteRead
    <3> QED
      BY <1>1, <3>1 DEF Read
  <2>2. /\ Stream!OrEnd(Stream!TakeFirst(s, 1)) = <<EndOfFile>>
        /\ Stream!DropFirst(s, 1) = <<>>
    BY <1>2, <1>3, StreamFirst
  <2> QED
    BY <1>1, <2>1, <2>2, NoMoreGood, Zenon
<1>4. CASE s # <<>>
  <2>1. /\ IsPort(q) /\ b = Head(s) /\ Left(q) = Tail(s) /\ p.data # Ended
        /\ q.data = IF p.data = <<>> THEN <<>> ELSE Tail(p.data)
    BY <1>1, <1>2, <1>4, ByteRead
  <2>2. /\ Stream!OrEnd(Stream!TakeFirst(s, 1)) = <<Head(s)>>
        /\ Stream!DropFirst(s, 1) = Tail(s)
    BY <1>2, <1>4, StreamFirst
  <2>3. Tail(s) \in Readable
    BY <1>2, <1>4, ReadableIs
  <2>4. Len(q.data) <= 1 \/ q.data \in Seq(Trailing)
    <3>1. CASE p.data = <<>>
      BY <2>1, <3>1
    <3>2. CASE p.data # <<>> /\ Len(p.data) <= 1
      <4>1. PICK k : k = Len(p.data)
        OBVIOUS
      <4>2. k \in Nat /\ k <= 1 /\ Len(q.data) = k - 1
        BY <1>2, <2>1, <3>2, <4>1, DataIs
      <4> QED
        BY <4>2
    <3>3. CASE p.data # <<>> /\ p.data \in Seq(Trailing)
      <4>1. Tail(p.data) \in Seq(Trailing)
        BY <3>3, FirstIs
      <4> QED
        BY <2>1, <3>3, <4>1
    <3>4. CASE p.data # <<>> /\ \E c \in Character : p.data = Utf8(c)
      <4>1. PICK c \in Character : p.data = Utf8(c)
        BY <3>4
      <4>2. c \in CodePoints
        BY FitIs
      <4>3. Tail(p.data) \in Seq(Trailing)
        BY <4>1, <4>2, TrailingType
      <4> QED
        BY <2>1, <3>4, <4>3
    <3> QED
      BY <3>1, <3>2, <3>3, <3>4 DEF GoodPort
  <2>5. GoodPort(q)
    BY <2>1, <2>3, <2>4 DEF GoodPort
  <2> QED
    BY <1>1, <2>1, <2>2, <2>5, Zenon
<1> QED
  BY <1>3, <1>4

LEMMA PeekByteGood ==
  ASSUME Fit, NEW p, GoodPort(p), Len(p.data) <= 1
  PROVE  /\ GoodPort(PeekByte(p).port)
         /\ <<PeekByte(p).value>> = Stream!OrEnd(Stream!TakeFirst(Left(p), 1))
         /\ Left(PeekByte(p).port) = Left(p)
<1>1. PICK s, b, q : s = Left(p) /\ b = PeekByte(p).value /\ q = PeekByte(p).port
  OBVIOUS
<1>2. IsPort(p) /\ s \in Readable /\ s \in Seq(Byte)
  BY <1>1 DEF GoodPort, Readable
<1>3. CASE s = <<>>
  <2>1. PeekByte(p) = Read(EndOfFile, [data |-> Ended, source |-> <<>>])
    BY <1>1, <1>2, <1>3, ByteSeen
  <2>2. b = EndOfFile /\ q = [data |-> Ended, source |-> <<>>]
    BY <1>1, <2>1 DEF Read
  <2>3. IsPort(q) /\ q.data = Ended
    BY <2>2 DEF IsPort
  <2>4. Left(q) = <<>> /\ Len(q.data) = 1
    BY <2>3, LeftType, EndedIs
  <2>5. 1 <= 1
    OBVIOUS
  <2>6. GoodPort(q)
    BY <1>2, <1>3, <2>3, <2>4, <2>5, Zenon DEF GoodPort
  <2>7. Stream!OrEnd(Stream!TakeFirst(s, 1)) = <<EndOfFile>>
    BY <1>2, <1>3, StreamFirst
  <2> QED
    BY <1>1, <1>3, <2>2, <2>4, <2>6, <2>7, Zenon
<1>4. CASE s # <<>>
  <2>1. PICK c, t : c = Head(s) /\ t = Tail(s)
    OBVIOUS
  <2>2. PeekByte(p) = Read(c, [data |-> <<c>>, source |-> t]) /\ c \in Byte
    BY <1>1, <1>2, <1>4, <2>1, ByteSeen
  <2>3. b = c /\ q = [data |-> <<c>>, source |-> t]
    BY <1>1, <2>2 DEF Read
  <2>4. c = s[1] /\ t \in Seq(Byte) /\ <<c>> \o t = s
    BY <1>2, <1>4, <2>1, FirstIs
  <2>5. <<c>> \in Seq(Byte) /\ Len(<<c>>) = 1
    BY <2>2
  <2>6. q.data = <<c>> /\ q.source = t
    BY <2>3
  <2>7. q.data # Ended
    BY <2>5, <2>6, EndedIs, Zenon
  <2>8. IsPort(q)
    BY <2>3, <2>4, <2>5, <2>7 DEF IsPort
  <2>9. Left(q) = s
    BY <2>4, <2>6, <2>7, Zenon DEF Left
  <2>10. 1 <= 1
    OBVIOUS
  <2>11. GoodPort(q)
    BY <1>2, <2>5, <2>6, <2>8, <2>9, <2>10, Zenon DEF GoodPort
  <2>12. Stream!OrEnd(Stream!TakeFirst(s, 1)) = <<Head(s)>>
    BY <1>2, <1>4, StreamFirst
  <2> QED
    BY <1>1, <2>1, <2>3, <2>9, <2>11, <2>12, Zenon
<1> QED
  BY <1>3, <1>4

LEMMA ReadU8Is ==
  ASSUME Fit, Inv, ReadU8
  PROVE  Inv' /\ Stream!ReadBytes
<1>1. PICK r : r = ReadByte(Port)
  OBVIOUS
<1>2. Reads /\ Return(<<r.value>>, r.port)
  BY <1>1 DEF ReadU8
<1>3. GoodPort(Port)
  BY <1>2 DEF Reads, Inv
<1>4. /\ GoodPort(r.port)
      /\ <<r.value>> = Stream!OrEnd(Stream!TakeFirst(Left(Port), 1))
      /\ Left(r.port) = Stream!DropFirst(Left(Port), 1)
  BY <1>1, <1>3, ReadByteGood
<1>5. /\ Inv' /\ Contents' = Left(r.port) /\ result' = <<r.value>>
      /\ open /\ open' = open /\ Contents = Left(Port)
  BY <1>2, <1>4, Returned
<1>6. 1 \in 0 .. MaxCount
  BY DEF Fit
<1>7. /\ result' = Stream!OrEnd(Stream!TakeFirst(Contents, 1))
      /\ Contents' = Stream!DropFirst(Contents, 1)
  BY <1>4, <1>5, Zenon
<1> QED
  BY <1>5, <1>6, <1>7, Zenon DEF Stream!ReadBytes

LEMMA PeekU8Is ==
  ASSUME Fit, Inv, RotatesNothing, PeekU8
  PROVE  Inv' /\ Stream!PeekU8
<1>1. PICK r : r = PeekByte(Port)
  OBVIOUS
<1>2. Reads /\ Return(<<r.value>>, r.port)
  BY <1>1 DEF PeekU8
<1>3. GoodPort(Port) /\ Len(Port.data) <= 1
  BY <1>2, ContentsIs DEF Reads, Inv, RotatesNothing
<1>4. /\ GoodPort(r.port)
      /\ <<r.value>> = Stream!OrEnd(Stream!TakeFirst(Left(Port), 1))
      /\ Left(r.port) = Left(Port)
  BY <1>1, <1>3, PeekByteGood
<1>5. /\ Inv' /\ Contents' = Left(r.port) /\ result' = <<r.value>>
      /\ open /\ open' = open /\ Contents = Left(Port)
  BY <1>2, <1>4, Returned
<1>6. /\ result' = Stream!OrEnd(Stream!TakeFirst(Contents, 1))
      /\ Contents' = Contents
  BY <1>4, <1>5, Zenon
<1> QED
  BY <1>5, <1>6, Zenon DEF Stream!PeekU8, Stream!Look

LEMMA ReadBytevectorIs ==
  ASSUME Fit, Inv, NEW count \in 0 .. MaxCount, ReadsAll(count), ReadBytevector(count)
  PROVE  Inv' /\ Stream!ReadBytes
<1>1. PICK r : r = ReadBytes(count, Port)
  OBVIOUS
<1>2. Reads /\ Return(r.value, r.port)
  BY <1>1 DEF ReadBytevector
<1>3. GoodPort(Port) /\ Contents = Left(Port) /\ IsPort(Port)
  BY <1>2, ContentsIs DEF Reads, Inv, GoodPort
<1>4. PICK s : s = Left(Port)
  OBVIOUS
<1>5. s \in Seq(Byte) /\ count >= Len(s) /\ count \in Nat
  <2>1. s \in Seq(Byte)
    BY <1>3, <1>4, LeftType
  <2>2. count >= Len(s)
    BY <1>3, <1>4, Zenon DEF ReadsAll
  <2>3. count \in Nat
    BY DEF Fit
  <2> QED
    BY <2>1, <2>2, <2>3
<1>6. r = Read(s, NoMore)
  BY <1>1, <1>3, <1>4, <1>5, AllBytes
<1>7. r.value = s /\ r.port = NoMore
  BY <1>6 DEF Read
<1>8. GoodPort(NoMore) /\ Left(NoMore) = <<>>
  BY NoMoreGood
<1>9. /\ Inv' /\ Contents' = Left(r.port) /\ result' = r.value
      /\ open /\ open' = open
  BY <1>2, <1>7, <1>8, Returned
<1>10. Stream!TakeFirst(s, count) = s /\ Stream!DropFirst(s, count) = <<>>
  BY <1>5, StreamTerms
<1>11. /\ result' = Stream!TakeFirst(Contents, count)
       /\ Contents' = Stream!DropFirst(Contents, count)
  BY <1>3, <1>4, <1>7, <1>8, <1>9, <1>10, Zenon
<1> QED
  BY <1>9, <1>11, Zenon DEF Stream!ReadBytes

LEMMA ReadBytevectorIntoIs ==
  ASSUME Fit, Inv, NEW count \in 0 .. MaxCount, RotatesNothing, ReadBytevectorInto(count)
  PROVE  Inv' /\ Stream!ReadBytes
<1>1. PICK r : r = ReadInto(count, Port)
  OBVIOUS
<1>2. Reads /\ Return(r.value, r.port)
  BY <1>1 DEF ReadBytevectorInto
<1>3. GoodPort(Port) /\ Contents = Left(Port) /\ IsPort(Port) /\ Len(Port.data) <= 1
  BY <1>2, ContentsIs DEF Reads, Inv, GoodPort, RotatesNothing
<1>4. PICK s, l : s = Left(Port) /\ l = Len(s)
  OBVIOUS
<1>5. s \in Seq(Byte) /\ s \in Readable /\ l \in Nat /\ count \in Nat
  <2>1. s \in Readable
    BY <1>3, <1>4, Zenon DEF GoodPort
  <2>2. s \in Seq(Byte)
    BY <1>3, <1>4, LeftType
  <2>3. count \in Nat
    BY DEF Fit
  <2> QED
    BY <1>4, <2>1, <2>2, <2>3, LenIs
<1>6. PICK m : m = IF count < l THEN count ELSE l
  OBVIOUS
<1>7. m \in 0 .. l /\ m <= count /\ (m = count \/ m = l) /\ m \in Nat
  BY <1>5, <1>6
<1>8. /\ r.value = Take(s, m)
      /\ IsPort(r.port) /\ Left(r.port) = Drop(s, m) /\ Len(r.port.data) <= 1
  BY <1>1, <1>3, <1>4, <1>5, <1>7, IntoIs
<1>9. Drop(s, m) \in Readable
  BY <1>4, <1>5, <1>7, ReadableRest
<1>10. GoodPort(r.port)
  BY <1>8, <1>9, Zenon DEF GoodPort
<1>11. /\ Inv' /\ Contents' = Left(r.port) /\ result' = r.value
       /\ open /\ open' = open
  BY <1>2, <1>10, Returned
<1>12. Stream!TakeFirst(s, count) = Take(s, m) /\ Stream!DropFirst(s, count) = Drop(s, m)
  <2>1. CASE m = count
    BY <1>4, <1>5, <1>7, <2>1, StreamTerms
  <2>2. CASE m = l /\ m # count
    <3>1. count >= Len(s) /\ l >= Len(s) /\ l \in 0 .. Len(s)
      BY <1>4, <1>5, <1>6, <2>2
    <3>2. Stream!TakeFirst(s, count) = s /\ Stream!DropFirst(s, count) = <<>>
      BY <1>5, <3>1, StreamTerms
    <3>3. Take(s, l) = s /\ Drop(s, l) = <<>>
      BY <1>4, <1>5, <3>1, TakeIs, DropEnds
    <3> QED
      BY <2>2, <3>2, <3>3
  <2> QED
    BY <1>7, <2>1, <2>2
<1>13. /\ result' = Stream!TakeFirst(Contents, count)
       /\ Contents' = Stream!DropFirst(Contents, count)
  BY <1>3, <1>4, <1>8, <1>11, <1>12, Zenon
<1> QED
  BY <1>11, <1>13, Zenon DEF Stream!ReadBytes

LEMMA CharactersHere ==
  ASSUME Fit, Inv, Reads, AtCharacter
  PROVE  /\ Contents = Left(Port) /\ GoodPort(Port)
         /\ Stream!AtCharacter(Contents)
         /\ \E cs \in Seq(Character) : /\ AtCharacters(Port, cs)
                                       /\ Contents = BytesOf(cs)
                                       /\ Stream!Characters(Contents) = cs
<1>1. Contents = Left(Port) /\ GoodPort(Port)
  BY ContentsIs DEF Reads, Inv
<1>2. Left(Port) = <<>> \/ \E c \in Character : IsPrefix(Utf8(c), Left(Port))
  BY <1>1, Zenon DEF AtCharacter
<1>3. PICK cs \in Seq(Character) : AtCharacters(Port, cs)
  BY <1>1, <1>2, AtCharacterIs
<1>4. Contents = BytesOf(cs)
  BY <1>1, <1>3, Zenon DEF AtCharacters
<1>5. Stream!Characters(Contents) = cs
  BY <1>4, CharactersIs
<1>6. Stream!AtCharacter(Contents)
  <2>1. \A c : Stream!IsPrefix(Stream!Utf8(c), Contents) = IsPrefix(Utf8(c), Contents)
    BY StreamIs, Zenon
  <2> QED
    BY <1>1, <1>2, <2>1, Zenon DEF Stream!AtCharacter
<1> QED
  BY <1>1, <1>3, <1>4, <1>5, <1>6

(* A character that was looked at. *)
LEMMA Seen ==
  ASSUME Fit, NEW cs \in Seq(Character), cs # <<>>, NEW q,
         q = [data |-> Utf8(cs[1]), source |-> BytesOf(Tail(cs))]
  PROVE  GoodPort(q) /\ AtCharacters(q, cs) /\ Left(q) = BytesOf(cs)
<1>1. PICK c, u, t, bs : c = cs[1] /\ u = Utf8(c) /\ t = BytesOf(Tail(cs)) /\ bs = BytesOf(cs)
  OBVIOUS
<1>2. c \in Character /\ Tail(cs) \in Seq(Character)
  BY <1>1, FirstIs
<1>3. c \in CodePoints /\ cs \in Seq(CodePoints) /\ Tail(cs) \in Seq(CodePoints)
  BY <1>2, FitIs
<1>4. u \in Seq(Byte) /\ u # <<>> /\ t \in Seq(Byte) /\ bs = u \o t /\ Len(u) \in Nat
  BY <1>1, <1>3, Utf8Type, BytesOfTail, BytesOfType
<1>5. q = [data |-> u, source |-> t]
  BY <1>1
<1>6. q.data = u /\ q.source = t
  BY <1>5
<1>7. u # Ended
  BY <1>4, EndedIs, Zenon
<1>8. IsPort(q)
  BY <1>4, <1>5, <1>7 DEF IsPort
<1>9. Left(q) = bs
  BY <1>4, <1>6, <1>7, Zenon DEF Left
<1>10. bs \in Readable
  BY <1>1, ReadableIs
<1>11. GoodPort(q)
  BY <1>1, <1>2, <1>6, <1>8, <1>9, <1>10, Zenon DEF GoodPort
<1>12. Len(q.data) <= Len(Utf8(cs[1]))
  <2>1. PICK n : n = Len(u)
    OBVIOUS
  <2>2. n <= n
    BY <1>4, <2>1
  <2> QED
    BY <1>1, <1>6, <2>1, <2>2, Zenon
<1> QED
  BY <1>1, <1>8, <1>9, <1>11, <1>12, Zenon DEF AtCharacters

LEMMA BeforeGood ==
  ASSUME Fit, NEW cs \in Seq(Character)
  PROVE  GoodPort(Before(cs)) /\ Left(Before(cs)) = BytesOf(cs) /\ Stream!Bytes(cs) = BytesOf(cs)
<1>1. BytesOf(cs) \in Readable
  BY ReadableIs
<1>2. Stream!Bytes(cs) = BytesOf(cs)
  BY StreamIs, Zenon
<1> QED
  BY <1>1, <1>2, FromGood, Zenon DEF Before

LEMMA ReadCharIs ==
  ASSUME Fit, Inv, AtCharacter, ReadChar
  PROVE  Inv' /\ Stream!ReadCharacters
<1>1. PICK r : r = ReadOneChar(Port)
  OBVIOUS
<1>2. Reads /\ Return(<<r.value>>, r.port)
  BY <1>1 DEF ReadChar
<1>3. Stream!AtCharacter(Contents)
  BY <1>2, CharactersHere
<1>4. PICK cs \in Seq(Character) : /\ AtCharacters(Port, cs)
                                   /\ Contents = BytesOf(cs)
                                   /\ Stream!Characters(Contents) = cs
  BY <1>2, CharactersHere
<1>5. /\ GoodPort(r.port)
      /\ <<r.value>> = Stream!OrEnd(Stream!TakeFirst(cs, 1))
      /\ Left(r.port) = Stream!Bytes(Stream!DropFirst(cs, 1))
  <2>1. CASE cs # <<>>
    <3>1. r = Read(cs[1], Before(Tail(cs))) /\ Tail(cs) \in Seq(Character) /\ Head(cs) = cs[1]
      BY <1>1, <1>4, <2>1, NextCharacter, FirstIs
    <3>2. r.value = cs[1] /\ r.port = Before(Tail(cs))
      BY <3>1 DEF Read
    <3>3. /\ Stream!OrEnd(Stream!TakeFirst(cs, 1)) = <<Head(cs)>>
          /\ Stream!DropFirst(cs, 1) = Tail(cs)
      BY <2>1, StreamFirst
    <3>4. /\ GoodPort(Before(Tail(cs)))
          /\ Left(Before(Tail(cs))) = Stream!Bytes(Tail(cs))
      BY <3>1, BeforeGood
    <3> QED
      BY <3>1, <3>2, <3>3, <3>4, Zenon
  <2>2. CASE cs = <<>>
    <3>1. r = Read(EndOfFile, NoMore)
      BY <1>1, <1>4, <2>2, NextCharacter
    <3>2. r.value = EndOfFile /\ r.port = NoMore
      BY <3>1 DEF Read
    <3>3. /\ Stream!OrEnd(Stream!TakeFirst(cs, 1)) = <<EndOfFile>>
          /\ Stream!DropFirst(cs, 1) = <<>>
      BY <2>2, StreamFirst
    <3>4. Stream!Bytes(<<>>) = <<>>
      BY StreamIs, BytesOfEmpty, Zenon
    <3> QED
      BY <3>2, <3>3, <3>4, NoMoreGood, Zenon
  <2> QED
    BY <2>1, <2>2
<1>6. /\ Inv' /\ Contents' = Left(r.port) /\ result' = <<r.value>>
      /\ open /\ open' = open
  BY <1>2, <1>5, Returned
<1>7. 1 \in 0 .. MaxCount
  BY DEF Fit
<1>8. /\ result' = Stream!OrEnd(Stream!TakeFirst(Stream!Characters(Contents), 1))
      /\ Contents' = Stream!Bytes(Stream!DropFirst(Stream!Characters(Contents), 1))
  BY <1>4, <1>5, <1>6, Zenon
<1> QED
  BY <1>3, <1>6, <1>7, <1>8, Zenon DEF Stream!ReadCharacters

LEMMA PeekCharIs ==
  ASSUME Fit, Inv, AtCharacter, PeekChar
  PROVE  Inv' /\ Stream!PeekChar
<1>1. PICK r : r = PeekOneChar(Port)
  OBVIOUS
<1>2. Reads /\ Return(<<r.value>>, r.port)
  BY <1>1 DEF PeekChar
<1>3. Stream!AtCharacter(Contents)
  BY <1>2, CharactersHere
<1>4. PICK cs \in Seq(Character) : /\ AtCharacters(Port, cs)
                                   /\ Contents = BytesOf(cs)
                                   /\ Stream!Characters(Contents) = cs
  BY <1>2, CharactersHere
<1>5. /\ GoodPort(r.port)
      /\ <<r.value>> = Stream!OrEnd(Stream!TakeFirst(cs, 1))
      /\ Left(r.port) = BytesOf(cs)
  <2>1. CASE cs # <<>>
    <3>1. PICK q : q = [data |-> Utf8(cs[1]), source |-> BytesOf(Tail(cs))]
      OBVIOUS
    <3>2. r = Read(cs[1], q) /\ Head(cs) = cs[1]
      BY <1>1, <1>4, <2>1, <3>1, NextCharacter, FirstIs
    <3>3. r.value = cs[1] /\ r.port = q
      BY <3>2 DEF Read
    <3>4. Stream!OrEnd(Stream!TakeFirst(cs, 1)) = <<Head(cs)>>
      BY <2>1, StreamFirst
    <3>5. GoodPort(q) /\ Left(q) = BytesOf(cs)
      BY <2>1, <3>1, Seen
    <3> QED
      BY <3>2, <3>3, <3>4, <3>5, Zenon
  <2>2. CASE cs = <<>>
    <3>1. r = Read(EndOfFile, NoMore)
      BY <1>1, <1>4, <2>2, NextCharacter
    <3>2. r.value = EndOfFile /\ r.port = NoMore
      BY <3>1 DEF Read
    <3>3. Stream!OrEnd(Stream!TakeFirst(cs, 1)) = <<EndOfFile>>
      BY <2>2, StreamFirst
    <3> QED
      BY <2>2, <3>2, <3>3, NoMoreGood, BytesOfEmpty, Zenon
  <2> QED
    BY <2>1, <2>2
<1>6. /\ Inv' /\ Contents' = Left(r.port) /\ result' = <<r.value>>
      /\ open /\ open' = open
  BY <1>2, <1>5, Returned
<1>7. /\ result' = Stream!OrEnd(Stream!TakeFirst(Stream!Characters(Contents), 1))
      /\ Contents' = Contents
  BY <1>4, <1>5, <1>6, Zenon
<1> QED
  BY <1>3, <1>6, <1>7, Zenon DEF Stream!PeekChar, Stream!Look

LEMMA ReadStringIs ==
  ASSUME Fit, Inv, NEW count \in 0 .. MaxCount, AtCharacter, ReadsAll(count), ReadString(count)
  PROVE  Inv' /\ Stream!ReadCharacters
<1>1. PICK r : r = ReadChars(count, Port)
  OBVIOUS
<1>2. Reads /\ Return(r.value, r.port)
  BY <1>1 DEF ReadString
<1>3. Stream!AtCharacter(Contents)
  BY <1>2, CharactersHere
<1>4. PICK cs \in Seq(Character) : /\ AtCharacters(Port, cs)
                                   /\ Contents = BytesOf(cs)
                                   /\ Stream!Characters(Contents) = cs
  BY <1>2, CharactersHere
<1>5. count \in Nat /\ count >= Len(cs)
  <2>1. count \in Nat
    BY DEF Fit
  <2>2. PICK l, k : l = Len(cs) /\ k = Len(BytesOf(cs))
    OBVIOUS
  <2>3. cs \in Seq(CodePoints)
    BY FitIs
  <2>4. l \in Nat /\ k \in Nat /\ k >= l
    BY <2>2, <2>3, BytesOfType, LenIs
  <2>5. count >= k
    BY <1>4, <2>2, Zenon DEF ReadsAll
  <2>6. count >= l
    BY <2>1, <2>4, <2>5
  <2> QED
    BY <2>1, <2>2, <2>6
<1>6. r = Read(cs, NoMore)
  BY <1>1, <1>4, <1>5, AllCharacters
<1>7. r.value = cs /\ r.port = NoMore
  BY <1>6 DEF Read
<1>8. GoodPort(NoMore) /\ Left(NoMore) = <<>>
  BY NoMoreGood
<1>9. /\ Inv' /\ Contents' = Left(r.port) /\ result' = r.value
      /\ open /\ open' = open
  BY <1>2, <1>7, <1>8, Returned
<1>10. Stream!TakeFirst(cs, count) = cs /\ Stream!DropFirst(cs, count) = <<>>
  BY <1>5, StreamTerms
<1>11. Stream!Bytes(<<>>) = <<>>
  BY StreamIs, BytesOfEmpty, Zenon
<1>12. /\ result' = Stream!TakeFirst(Stream!Characters(Contents), count)
       /\ Contents' = Stream!Bytes(Stream!DropFirst(Stream!Characters(Contents), count))
  BY <1>4, <1>7, <1>8, <1>9, <1>10, <1>11, Zenon
<1> QED
  BY <1>3, <1>9, <1>12, Zenon DEF Stream!ReadCharacters

(* Where the first line ends. *)
LEMMA LineNumbers ==
  ASSUME NEW l \in Nat
  PROVE  /\ l + 1 \in 1 .. l + 1 /\ (l + 1) - 1 = l /\ ~(l + 1 <= l)
         /\ \A e \in 1 .. l : e \in 1 .. l + 1
         /\ \A e \in 1 .. l : \A i \in 1 .. e - 1 : i \in 1 .. l /\ ~(e <= i)
OBVIOUS

Newlines(cs) == {i \in DOMAIN cs : cs[i] = Newline}
LineEnd(cs, ends) ==
  IF ends = {} THEN Len(cs) + 1 ELSE CHOOSE i \in ends : \A j \in ends : i <= j

LEMMA LineEnds ==
  ASSUME NEW T, NEW cs \in Seq(T), NEW ends, ends = Newlines(cs),
         NEW e, e = LineEnd(cs, ends)
  PROVE  /\ e \in 1 .. Len(cs) + 1
         /\ \A i \in 1 .. e - 1 : cs[i] # Newline
         /\ e <= Len(cs) => cs[e] = Newline
<1>1. PICK l : l = Len(cs)
  OBVIOUS
<1>2. l \in Nat /\ DOMAIN cs = 1 .. l
  BY <1>1
<1>3. ends = {i \in 1 .. l : cs[i] = Newline}
  BY <1>2, Zenon DEF Newlines
<1>4. CASE ends = {}
  <2>1. e = l + 1
    BY <1>1, <1>4, Zenon DEF LineEnd
  <2>2. \A i \in 1 .. l : cs[i] # Newline
    BY <1>3, <1>4
  <2>3. e \in 1 .. l + 1 /\ e - 1 = l /\ ~(e <= l)
    BY <1>2, <2>1, LineNumbers, Zenon
  <2> QED
    BY <1>1, <2>2, <2>3, Zenon
<1>5. CASE ends # {}
  <2>1. ends \subseteq Nat
    BY <1>2, <1>3
  <2>2. Min(ends) \in ends /\ \A j \in ends : Min(ends) <= j
    BY <1>5, <2>1, LeastOf
  <2>3. \E i \in ends : \A j \in ends : i <= j
    BY <2>2
  <2>4. e \in ends /\ \A j \in ends : e <= j
    BY <1>5, <2>3, Zenon DEF LineEnd
  <2>5. e \in 1 .. l /\ cs[e] = Newline
    BY <1>3, <2>4
  <2>6. ASSUME NEW i \in 1 .. e - 1, cs[i] = Newline
        PROVE  FALSE
    <3>1. i \in 1 .. l /\ ~(e <= i)
      BY <1>2, <2>5, <2>6, LineNumbers, Zenon
    <3>2. i \in ends
      BY <1>3, <2>6, <3>1, Zenon
    <3> QED
      BY <2>4, <3>1, <3>2, Zenon
  <2>7. e \in 1 .. l + 1
    BY <1>2, <2>5, LineNumbers, Zenon
  <2> QED
    BY <1>1, <2>5, <2>6, <2>7, Zenon
<1> QED
  BY <1>4, <1>5

LEMMA ReadLineIs ==
  ASSUME Fit, Inv, AtCharacter, ReadLine
  PROVE  Inv' /\ Stream!ReadLine
<1>1. PICK r : r = PeekOneChar(Port)
  OBVIOUS
<1>2. /\ Reads
      /\ IF r.value = EndOfFile
         THEN Return(<<EndOfFile>>, r.port)
         ELSE \E s \in {ReadToNewline(r.port)} : Return(s.value, s.port)
  BY <1>1, Zenon DEF ReadLine
<1>3. Stream!AtCharacter(Contents)
  BY <1>2, CharactersHere
<1>4. PICK cs \in Seq(Character) : /\ AtCharacters(Port, cs)
                                   /\ Contents = BytesOf(cs)
                                   /\ Stream!Characters(Contents) = cs
  BY <1>2, CharactersHere
<1>5. PICK ends : ends = Newlines(cs)
  OBVIOUS
<1>6. PICK e : e = LineEnd(cs, ends)
  OBVIOUS
<1>7. /\ e \in 1 .. Len(cs) + 1
      /\ \A i \in 1 .. e - 1 : cs[i] # Newline
      /\ e <= Len(cs) => cs[e] = Newline
  BY <1>5, <1>6, LineEnds
<1>8. PICK v, q : /\ v = IF cs = <<>> THEN <<EndOfFile>> ELSE Stream!TakeFirst(cs, e - 1)
                  /\ q = Before(Stream!DropFirst(cs, e))
  OBVIOUS
<1>9. e \in Nat /\ e - 1 \in Nat /\ e - 1 <= Len(cs) /\ Len(cs) \in Nat
  <2>1. PICK l : l = Len(cs)
    OBVIOUS
  <2>2. l \in Nat /\ e \in 1 .. l + 1
    BY <1>7, <2>1, LenIs
  <2>3. e \in Nat /\ e - 1 \in Nat /\ e - 1 <= l
    BY <2>2
  <2> QED
    BY <2>1, <2>2, <2>3
<1>10. /\ Stream!TakeFirst(cs, e - 1) = Take(cs, e - 1)
       /\ Stream!DropFirst(cs, e) = Drop(cs, e)
  BY <1>9, StreamTerms
<1>11. Drop(cs, e) \in Seq(Character)
  <2>1. CASE e <= Len(cs)
    <3>1. e \in 0 .. Len(cs)
      BY <1>9, <2>1
    <3> QED
      BY <3>1, DropIs
  <2>2. CASE ~(e <= Len(cs))
    <3>1. e >= Len(cs)
      BY <1>9, <2>2
    <3>2. Drop(cs, e) = <<>>
      BY <1>9, <3>1, DropEnds
    <3> QED
      BY <3>2
  <2> QED
    BY <2>1, <2>2
<1>12. GoodPort(q) /\ Left(q) = Stream!Bytes(Stream!DropFirst(cs, e))
  BY <1>8, <1>10, <1>11, BeforeGood, Zenon
<1>13. Return(v, q)
  <2>1. CASE cs = <<>>
    <3>1. r = Read(EndOfFile, NoMore)
      BY <1>1, <1>4, <2>1, NextCharacter
    <3>2. r.value = EndOfFile /\ r.port = NoMore
      BY <3>1 DEF Read
    <3>3. Len(cs) = 0
      BY <2>1
    <3>4. e >= 0
      BY <1>9
    <3>5. Stream!DropFirst(cs, e) = <<>>
      BY <1>9, <3>3, <3>4, StreamTerms
    <3>6. q = NoMore
      BY <1>8, <3>5, BeforeIs, Zenon
    <3> QED
      BY <1>2, <1>8, <2>1, <3>2, <3>6, Zenon
  <2>2. CASE cs # <<>>
    <3>1. PICK o : o = [data |-> Utf8(cs[1]), source |-> BytesOf(Tail(cs))]
      OBVIOUS
    <3>2. r = Read(cs[1], o) /\ cs[1] # EndOfFile
      BY <1>1, <1>4, <2>2, <3>1, NextCharacter
    <3>3. r.value = cs[1] /\ r.port = o
      BY <3>2 DEF Read
    <3>4. AtCharacters(o, cs)
      BY <2>2, <3>1, Seen
    <3>5. ReadToNewline(o) = Read(Take(cs, e - 1), Before(Drop(cs, e)))
      BY <1>7, <3>4, LineIs
    <3>6. PICK s : s = ReadToNewline(o)
      OBVIOUS
    <3>7. s.value = Take(cs, e - 1) /\ s.port = Before(Drop(cs, e))
      BY <3>5, <3>6 DEF Read
    <3>8. Return(s.value, s.port)
      BY <1>2, <3>2, <3>3, <3>6, Zenon
    <3> QED
      BY <1>8, <1>10, <2>2, <3>7, <3>8, Zenon
  <2> QED
    BY <2>1, <2>2
<1>14. /\ Inv' /\ Contents' = Left(q) /\ result' = v
       /\ open /\ open' = open
  BY <1>2, <1>12, <1>13, Returned
<1>15. Stream!EndOfFile = EndOfFile /\ Stream!Newline = Newline
  BY StreamEnd, Zenon DEF Stream!EndOfFile, EndOfFile
<1>16. /\ result' = IF Stream!Characters(Contents) = <<>> THEN <<Stream!EndOfFile>>
                    ELSE Stream!TakeFirst(Stream!Characters(Contents), e - 1)
       /\ Contents' = Stream!Bytes(Stream!DropFirst(Stream!Characters(Contents), e))
  BY <1>4, <1>8, <1>12, <1>14, <1>15, Zenon
<1>17. ends = {i \in DOMAIN Stream!Characters(Contents) :
                 Stream!Characters(Contents)[i] = Stream!Newline}
  BY <1>4, <1>5, <1>15, Zenon DEF Newlines
<1>18. e = IF ends = {} THEN Len(Stream!Characters(Contents)) + 1
           ELSE CHOOSE i \in ends : \A j \in ends : i <= j
  <2>1. e = LineEnd(Stream!Characters(Contents), ends)
    BY <1>4, <1>6, Zenon
  <2> QED
    BY <2>1 DEF LineEnd
<1> QED
  BY <1>3, <1>14, <1>16, <1>17, <1>18, Zenon DEF Stream!ReadLine

LEMMA CloseIs ==
  ASSUME Fit, Inv, CloseInput
  PROVE  Inv' /\ Stream!Close
<1>1. /\ reading /\ open /\ open' = FALSE /\ data' = <<>> /\ source' = <<>>
      /\ textual' = textual /\ reading' = reading /\ result' = result
  BY DEF CloseInput, Reads, outputVars
<1>2. Port' = NoMore
  BY <1>1, Zenon DEF Port, NoMore
<1>3. GoodPort(NoMore) /\ Left(NoMore) = <<>>
  BY NoMoreGood
<1>4. Contents' = (IF data' = Ended THEN <<>> ELSE data') \o source'
  BY <1>1, Zenon DEF Contents, Ended
<1>5. Contents' = <<>>
  <2>1. Left(NoMore) = (IF NoMore.data = Ended THEN <<>> ELSE NoMore.data) \o NoMore.source
    BY Zenon DEF Left
  <2>2. NoMore.data = <<>> /\ NoMore.source = <<>>
    BY DEF NoMore
  <2> QED
    BY <1>1, <1>3, <1>4, <2>1, <2>2, Zenon
<1>6. Inv'
  BY <1>1, <1>2, <1>3, Zenon DEF Inv
<1> QED
  BY <1>1, <1>5, <1>6, Zenon DEF Stream!Close

LEMMA ClosedIs ==
  ASSUME Inv, CallClosed
  PROVE  Inv' /\ Stream!Fail
<1>1. /\ ~open /\ open' = open /\ result' = <<Failure>> /\ data' = data /\ source' = source
      /\ textual' = textual /\ reading' = reading /\ string' = string /\ bytes' = bytes
  BY DEF CallClosed, outputVars
<1>2. Port' = Port /\ Contents' = Contents
  BY <1>1, Zenon DEF Port, Contents
<1>3. Inv'
  BY <1>1, <1>2, Zenon DEF Inv
<1> QED
  BY <1>1, <1>2, <1>3, StreamEnd, Zenon DEF Stream!Fail

(* A port opened for reading has what was written. *)
LEMMA OpenIs ==
  ASSUME Fit, Inv, OpenInput
  PROVE  Inv' /\ UNCHANGED Stream!vars
<1>1. /\ ~reading /\ reading' = TRUE
      /\ source' = IF textual THEN StringBytes ELSE bytes
      /\ data' = data /\ textual' = textual /\ open' = open /\ result' = result
  BY DEF OpenInput, outputVars
<1>2. /\ open /\ data = <<>> /\ textual \in BOOLEAN
      /\ textual => bytes = <<>> /\ string \in Seq(Character)
      /\ ~textual => string = <<>> /\ \E cs \in Seq(Character) : bytes = BytesOf(cs)
  BY <1>1, Zenon DEF Inv
<1>3. PICK s : s = source'
  OBVIOUS
<1>4. s \in Readable /\ Contents = s
  <2>1. Contents = BytesOf(string) \o bytes
    BY <1>1, ContentsIs
  <2>2. CASE textual
    <3>1. StringBytes = BytesOf(string)
      <4>1. \A i \in DOMAIN string : CharBytes(string[i]) = Utf8(string[i])
        <5>1. ASSUME NEW i \in DOMAIN string
              PROVE  CharBytes(string[i]) = Utf8(string[i])
          <6>1. string[i] \in Character
            BY <1>2, <2>2
          <6>2. Survives(string[i])
            BY <6>1 DEF Fit
          <6> QED
            BY <6>2, CharBytesIs
        <5> QED
          BY <5>1
      <4>2. [i \in DOMAIN string |-> CharBytes(string[i])] =
              [i \in DOMAIN string |-> Utf8(string[i])]
        BY <4>1, Zenon
      <4> QED
        BY <4>2, Zenon DEF StringBytes, BytesOf
    <3>2. string \in Seq(CodePoints) /\ bytes = <<>>
      BY <1>2, <2>2, FitIs
    <3>3. BytesOf(string) \in Seq(Byte)
      BY <3>2, BytesOfType
    <3>4. BytesOf(string) \o <<>> = BytesOf(string)
      BY <3>3, ConcatEmptySeq
    <3>5. BytesOf(string) \in Readable
      BY <1>2, <2>2, ReadableIs
    <3> QED
      BY <1>1, <1>3, <2>1, <2>2, <3>1, <3>2, <3>4, <3>5, Zenon
  <2>3. CASE ~textual
    <3>1. PICK cs \in Seq(Character) : bytes = BytesOf(cs)
      BY <1>2, <2>3
    <3>2. cs \in Seq(CodePoints)
      BY FitIs
    <3>3. bytes \in Seq(Byte)
      BY <3>1, <3>2, BytesOfType
    <3>4. BytesOf(string) = <<>>
      BY <1>2, <2>3, BytesOfEmpty
    <3>5. <<>> \o bytes = bytes
      BY <3>3, ConcatEmptySeq
    <3>6. bytes \in Readable
      BY <3>1, ReadableIs
    <3> QED
      BY <1>1, <1>3, <2>1, <2>3, <3>4, <3>5, <3>6, Zenon
  <2> QED
    BY <2>2, <2>3
<1>5. Port' = [data |-> <<>>, source |-> s]
  BY <1>1, <1>2, <1>3, Zenon DEF Port
<1>6. GoodPort(Port') /\ Left(Port') = s
  BY <1>4, <1>5, FromGood
<1>7. Contents' = s
  <2>1. Contents' = (IF data' = Ended THEN <<>> ELSE data') \o source'
    BY <1>1, Zenon DEF Contents, Ended
  <2>2. Port'.data = data' /\ Port'.source = source'
    BY DEF Port
  <2>3. Left(Port') = (IF Port'.data = Ended THEN <<>> ELSE Port'.data) \o Port'.source
    BY Zenon DEF Left
  <2> QED
    BY <1>6, <2>1, <2>2, <2>3, Zenon
<1>8. Inv'
  BY <1>1, <1>2, <1>6, Zenon DEF Inv
<1> QED
  BY <1>1, <1>4, <1>7, <1>8, Zenon DEF Stream!vars

LEMMA WriteIs ==
  ASSUME Fit, Inv, NEW c \in Character, Write(Utf8(c))
  PROVE  Inv' /\ Stream!Write
<1>1. PICK s : s = WriteAll([string |-> string, bytes |-> bytes], Utf8(c))
  OBVIOUS
<1>2. /\ ~reading /\ string' = s.string /\ bytes' = s.bytes
      /\ textual' = textual /\ reading' = reading /\ source' = source /\ data' = data
      /\ open' = open /\ result' = result
  BY <1>1 DEF Write
<1>3. /\ open /\ data = <<>> /\ source = <<>> /\ textual \in BOOLEAN
      /\ textual => bytes = <<>> /\ string \in Seq(Character)
      /\ ~textual => string = <<>> /\ \E cs \in Seq(Character) : bytes = BytesOf(cs)
  BY <1>2, Zenon DEF Inv
<1>4. c \in CodePoints
  BY FitIs
<1>5. Contents = BytesOf(string) \o bytes /\ Contents' = BytesOf(string') \o bytes'
  <2>1. Contents = BytesOf(string) \o bytes
    BY <1>2, ContentsIs
  <2>2. Contents' = BytesOf(string') \o bytes'
    BY <1>2, Zenon DEF Contents, BytesOf
  <2> QED
    BY <2>1, <2>2
<1>6. CASE textual
  <2>1. s = Output(Append(string, c), <<>>)
    BY <1>1, <1>3, <1>4, <1>6, CharacterWritten, Zenon DEF Output
  <2>2. string' = Append(string, c) /\ bytes' = <<>>
    BY <1>2, <2>1 DEF Output
  <2>3. string \in Seq(Character) /\ Append(string, c) \in Seq(Character)
    BY <1>3, <1>6
  <2>4. string \in Seq(CodePoints) /\ Append(string, c) \in Seq(CodePoints)
    BY <2>3, FitIs
  <2>5. BytesOf(Append(string, c)) = BytesOf(string) \o Utf8(c)
    BY <1>4, <2>4, BytesOfAppend
  <2>6. BytesOf(string) \in Seq(Byte) /\ BytesOf(Append(string, c)) \in Seq(Byte)
    BY <2>4, BytesOfType
  <2>7. /\ BytesOf(string) \o <<>> = BytesOf(string)
        /\ BytesOf(Append(string, c)) \o <<>> = BytesOf(Append(string, c))
    BY <2>6, ConcatEmptySeq
  <2>8. Contents' = Contents \o Utf8(c)
    BY <1>3, <1>5, <1>6, <2>2, <2>5, <2>7, Zenon
  <2>9. Inv'
    BY <1>2, <1>3, <1>6, <2>2, <2>3, Zenon DEF Inv
  <2> QED
    BY <1>2, <2>8, <2>9, StreamIs, Zenon DEF Stream!Write
<1>7. CASE ~textual
  <2>1. PICK cs \in Seq(Character) : bytes = BytesOf(cs)
    BY <1>3, <1>7
  <2>2. cs \in Seq(CodePoints) /\ Append(cs, c) \in Seq(Character)
    BY FitIs
  <2>3. bytes \in Seq(Byte) /\ Utf8(c) \in Seq(Byte)
    BY <1>4, <2>1, <2>2, BytesOfType, Utf8Type
  <2>4. s = Output(string, bytes \o Utf8(c))
    BY <1>1, <1>4, <1>7, <2>3, BytesWritten, Zenon DEF Output
  <2>5. string' = string /\ bytes' = bytes \o Utf8(c)
    BY <1>2, <2>4 DEF Output
  <2>6. bytes' = BytesOf(Append(cs, c))
    BY <1>4, <2>1, <2>2, <2>5, BytesOfAppend
  <2>7. BytesOf(string) = <<>>
    BY <1>3, <1>7, BytesOfEmpty
  <2>8. <<>> \o bytes = bytes /\ <<>> \o (bytes \o Utf8(c)) = bytes \o Utf8(c)
    <3>1. bytes \o Utf8(c) \in Seq(Byte)
      BY <2>3, ConcatProperties
    <3> QED
      BY <2>3, <3>1, ConcatEmptySeq
  <2>9. Contents' = Contents \o Utf8(c)
    BY <1>5, <2>5, <2>7, <2>8, Zenon
  <2>10. Inv'
    BY <1>2, <1>3, <1>7, <2>2, <2>5, <2>6, Zenon DEF Inv
  <2> QED
    BY <1>2, <2>9, <2>10, StreamIs, Zenon DEF Stream!Write
<1> QED
  BY <1>3, <1>6, <1>7

(* Every step of a port is one of the stream, or none. *)
LEMMA NextIs ==
  ASSUME Careful, Fit, Inv, [Next]_vars
  PROVE  Inv' /\ [Stream!Next]_Stream!vars
<1>1. ASSUME NEW c \in Character, WriteChar(c)
      PROVE  Inv' /\ Stream!Write
  <2>1. CharBytes(c) = Utf8(c)
    BY CharBytesIs DEF Fit
  <2>2. Write(Utf8(c))
    BY <1>1, <2>1, Zenon DEF WriteChar
  <2> QED
    BY <2>2, WriteIs
<1>2. ASSUME NEW c \in Character, WriteBytevector(c)
      PROVE  Inv' /\ Stream!Write
  BY <1>2, WriteIs DEF WriteBytevector
<1>3. ASSUME UNCHANGED vars
      PROVE  Inv' /\ UNCHANGED Stream!vars
  <2>1. /\ textual' = textual /\ string' = string /\ bytes' = bytes /\ reading' = reading
        /\ source' = source /\ data' = data /\ open' = open /\ result' = result
    BY <1>3 DEF vars, outputVars
  <2>2. Port' = Port /\ Contents' = Contents
    BY <2>1, Zenon DEF Port, Contents
  <2> QED
    BY <2>1, <2>2, Zenon DEF Inv, Stream!vars
<1>4. CASE \E c \in Character : WriteChar(c) \/ WriteBytevector(c)
  BY <1>1, <1>2, <1>4, Zenon DEF Stream!Next
<1>5. CASE OpenInput
  BY <1>5, OpenIs, Zenon
<1>6. CASE ReadU8
  BY <1>6, ReadU8Is, Zenon DEF Stream!Next
<1>7. CASE RotatesNothing /\ PeekU8
  BY <1>7, PeekU8Is, Zenon DEF Stream!Next
<1>8. CASE AtCharacter /\ ReadChar
  BY <1>8, ReadCharIs, Zenon DEF Stream!Next
<1>9. CASE AtCharacter /\ PeekChar
  BY <1>9, PeekCharIs, Zenon DEF Stream!Next
<1>10. CASE AtCharacter /\ ReadLine
  BY <1>10, ReadLineIs, Zenon DEF Stream!Next
<1>11. ASSUME NEW count \in 0 .. MaxCount,
              \/ AtCharacter /\ ReadsAll(count) /\ ReadString(count)
              \/ ReadsAll(count) /\ ReadBytevector(count)
              \/ RotatesNothing /\ ReadBytevectorInto(count)
       PROVE  Inv' /\ (Stream!ReadCharacters \/ Stream!ReadBytes)
  BY <1>11, ReadStringIs, ReadBytevectorIs, ReadBytevectorIntoIs
<1>12. CASE \E count \in 0 .. MaxCount :
              \/ AtCharacter /\ ReadsAll(count) /\ ReadString(count)
              \/ ReadsAll(count) /\ ReadBytevector(count)
              \/ RotatesNothing /\ ReadBytevectorInto(count)
  BY <1>11, <1>12, Zenon DEF Stream!Next
<1>13. CASE CloseInput
  BY <1>13, CloseIs, Zenon DEF Stream!Next
<1>14. CASE CallClosed
  BY <1>14, ClosedIs, Zenon DEF Stream!Next
<1>15. CASE UNCHANGED vars
  BY <1>3, <1>15, Zenon
<1> QED
  BY <1>4, <1>5, <1>6, <1>7, <1>8, <1>9, <1>10, <1>12, <1>13, <1>14, <1>15, Zenon DEF Next

-----------------------------------------------------------------------------
(* The theorems. *)

(* Which characters survive: write-char writes the bytes of UTF-8 just if  *)
(* the highest group of six bits that write-trailing-bytes has to write is *)
(* not zero, and then parse-char-bytes gives the character back.           *)
THEOREM CharactersSurvive ==
  ASSUME NEW x \in CodePoints
  PROVE  /\ CharBytes(x) = Utf8(x) <=> Survives(x)
         /\ Survives(x) => ParseChar(CharBytes(x)) = x
<1>1. Survives(x) => CharBytes(x) = Utf8(x)
  BY CharBytesIs
<1>2. ~Survives(x) => CharBytes(x) # Utf8(x)
  BY CharBytesShort
<1>3. ParseChar(Utf8(x)) = x
  BY Utf8Is
<1> QED
  BY <1>1, <1>2, <1>3, Zenon

(* Between two calls, an input port has characters, after what a reader of *)
(* bytes left of the one it is in, and has read ahead one byte at most, a  *)
(* character, or the rest of one; and the bytes of an output string are    *)
(* those of no character but the ones it has.                              *)
THEOREM PortsAreGood ==
  ASSUME Careful, Fit
  PROVE  Spec => []Inv
<1>1. Init => Inv
  BY InitIs
<1>2. Inv /\ [Next]_vars => Inv'
  BY NextIs
<1> QED
  BY <1>1, <1>2, PTL DEF Spec

(* To a careful program a port of the prelude is a stream: what is written *)
(* to it is read from it, by bytes, characters, lines or all at once, each *)
(* once and in order, looking ahead changes nothing, and a closed port     *)
(* fails.  A program that is not careful may lose what it reads.           *)
THEOREM PortsAreTextStreams ==
  ASSUME Careful, Fit
  PROVE  Spec => ImplementsStream
<1>1. Init => Inv /\ Stream!Init
  BY InitIs
<1>2. Inv /\ [Next]_vars => Inv' /\ [Stream!Next]_Stream!vars
  BY NextIs
<1> QED
  BY <1>1, <1>2, PTL DEF Spec, ImplementsStream, Stream!Spec

=============================================================================
