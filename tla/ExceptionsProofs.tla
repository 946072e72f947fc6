---------------------------- MODULE ExceptionsProofs ----------------------------
(***************************************************************************)
(* Proofs about Exceptions, where before and after procedures neither      *)
(* capture nor call continuations and raise nothing.  The value expression *)
(* of a parameterize may, but not when a jump enters its extent again.     *)
(***************************************************************************)
EXTENDS Exceptions, SequenceTheorems, FiniteSetTheorems, WellFoundedInduction, TLAPS

-----------------------------------------------------------------------------
(* Points, and the extents that are sequences of them.                     *)

Source == Nat \cup {Computed}
Binds == {<<>>} \cup (Parameter \X Source \X Nat)

(* Handlers are installed, and put aside, one by one.                      *)
Installs(bind) == bind # <<>> /\ bind[1] = Handler /\ bind[2] > bind[3]
PutsAside(bind) == bind # <<>> /\ bind[1] = Handler /\ bind[2] < bind[3]
OneByOne(bind) ==
  bind # <<>> /\ bind[1] = Handler =>
    /\ bind[2] \in Nat
    /\ bind[2] = bind[3] + 1 \/ bind[3] = bind[2] + 1

IsTree(ps) ==
  /\ ps \in Seq([depth : Nat, bind : Binds, parent : Nat])
  /\ Len(ps) >= 1
  /\ ps[Root] = Point(0, <<>>, 0)
  /\ \A q \in 2 .. Len(ps) :
       /\ ps[q].parent \in 1 .. q - 1
       /\ ps[q].depth = ps[ps[q].parent].depth + 1
       /\ OneByOne(ps[q].bind)

(* The value that a point restores is the one around it.                   *)
Restores(ps, bind, e) ==
  bind # <<>> => bind[3] = BoundIn(ps, e, bind[1])

Scoped(ps, e) ==
  /\ e \in Seq(2 .. Len(ps))
  /\ \A i \in 1 .. Len(e) : Restores(ps, ps[e[i]].bind, SubSeq(e, 1, i - 1))

-----------------------------------------------------------------------------
(* Stacks.                                                                 *)

(* The extent that a frame is returned to in, by that of the frame below.  *)
Above(x, e) == IF x.f = "inside" THEN Append(e, x.point) ELSE e

(* A parameterize that has not begun will restore the value it is called   *)
(* with.                                                                   *)
Kept(ps, x, e) == x.f = "entering" => Restores(ps, x.bind, e)

(* A stack whose return in extent e ends in extent b.                      *)
Nested(ps, s, e, b) ==
  \E x \in [1 .. Len(s) + 1 -> Seq(Nat)] :
    /\ x[1] = e /\ x[Len(s) + 1] = b
    /\ \A i \in 1 .. Len(s) : x[i] = Above(s[i], x[i + 1]) /\ Kept(ps, s[i], x[i + 1])

IsStack(s) == s \in Seq(Range(s))

Handles(thunk) == \E continuable \in BOOLEAN : thunk = <<Handling(continuable)>>

(* A frame of a call of dynamic-wind or of parameterize. *)
IsEntering(x) ==
  /\ x.bind \in Binds
  /\ \/ x.thunk = <<>> /\ ~PutsAside(x.bind) /\ OneByOne(x.bind)
     \/ Handles(x.thunk) /\ PutsAside(x.bind) /\ OneByOne(x.bind)

(* One whose before procedure runs nothing is returned to at once.         *)
IsFrame(ps, x, returns) ==
  /\ x.f = "inside" => x.point \in 2 .. Len(ps) /\ x.saved = ps[x.point].parent
  /\ x.f \in {"handling", "raised"} => x.continuable \in BOOLEAN
  /\ x.f = "entering" => IsEntering(x) /\ (RunsProgram(x.bind) \/ returns)

Frames(ps, s, returns) ==
  \A i \in 1 .. Len(s) : IsFrame(ps, s[i], IF i = 1 THEN returns ELSE FALSE)

(* A handler that is put aside runs, and one that runs is put aside.       *)
IsAside(ps, x) == x.f = "inside" /\ PutsAside(ps[x.point].bind)

Paired(ps, s, returns) ==
  \A i \in 1 .. Len(s) :
    /\ s[i].f = "handling" => i < Len(s) /\ IsAside(ps, s[i + 1])
    /\ IsAside(ps, s[i]) => IF i = 1 THEN returns ELSE s[i - 1].f = "handling"

(* A handler that has been raised to does not return there, or its return  *)
(* is raised.                                                              *)
IsRaised(x) == x.f = "raised" /\ ~x.continuable

(* So the three frames above one of its raise are these.                   *)
Covered(a, b, c) ==
  \/ c.f = "entering" /\ c.thunk = <<Handling(FALSE)>>
  \/ c.f = "inside" /\ b.f = "handling" /\ (~b.continuable \/ IsRaised(a))

Under(a, b, c, s) ==
  \A i \in 1 .. Len(s) :
    IsRaised(s[i]) =>
      Covered(IF i > 3 THEN s[i - 3] ELSE IF i = 3 THEN c ELSE IF i = 2 THEN b ELSE a,
              IF i > 2 THEN s[i - 2] ELSE IF i = 2 THEN c ELSE b,
              IF i > 1 THEN s[i - 1] ELSE c)

Shielded(s) == Under(Leaving, Leaving, Leaving, s)

-----------------------------------------------------------------------------
(* Continuations and jumps.                                                *)

Resumed(x) ==
  x.f \in {"inside", "handling", "raised"} \/ (x.f = "entering" /\ x.bind # <<>>)

IsContinuation(ps, k) ==
  /\ k.point \in 1 .. Len(ps)
  /\ k.at \in {"run", "halted"}
  /\ k.at = "halted" => k.stack = <<>> /\ k.point = Root
  /\ IsStack(k.stack)
  /\ \A i \in 1 .. Len(k.stack) : Resumed(k.stack[i])
  /\ Frames(ps, k.stack, FALSE)
  /\ Paired(ps, k.stack, FALSE)
  /\ Shielded(k.stack)
  /\ Nested(ps, k.stack, PathIn(ps, k.point), <<>>)
  /\ Scoped(ps, PathIn(ps, k.point))

(* What a frame of a travel waits for the arrival at.                      *)
Destination(ps, x) == IF x.f = "enter" THEN ps[x.to].parent ELSE x.continuation.point

(* A stack that waits for the arrival at q, to go on to the continuation.  *)
Chain(ps, s, q) ==
  /\ s # <<>> /\ IsStack(s)
  /\ q = Destination(ps, s[1])
  /\ s[Len(s)].f = "jump" /\ IsContinuation(ps, s[Len(s)].continuation)
  /\ \A i \in 1 .. Len(s) - 1 :
       s[i].f = "enter" /\ s[i].to \in 2 .. Len(ps) /\ s[i].to = Destination(ps, s[i + 1])
  /\ \A i \in 1 .. Len(s) :
       Destination(ps, s[i]) \in 1 .. Len(ps) /\ Scoped(ps, PathIn(ps, Destination(ps, s[i])))

(* A travel calls a before or after procedure of p and goes on in b.       *)
Calls(ps, x, p) ==
  p \in 2 .. Len(ps) /\ ((x.f = "entered" /\ x.point = p) \/ (x.f = "leave" /\ x.from = p))

Calling(ps, s, b) ==
  /\ s # <<>> /\ IsStack(s)
  /\ \E p \in 2 .. Len(ps) : Calls(ps, s[1], p) /\ b = PathIn(ps, ps[p].parent)
  /\ Chain(ps, Tail(s), IF s[1].f = "entered" THEN s[1].point ELSE s[1].to)

-----------------------------------------------------------------------------
(* The invariant.                                                          *)

(* Procedures of the program, or of dynamic-wind, wait above nothing, or   *)
(* above a procedure that a travel calls.                                  *)
IsRunning(t, w, b) ==
  /\ IsStack(t) /\ stack = t \o w
  /\ at \in {"run", "return", "halted"}
  /\ Nested(points, t, extent, b)
  /\ \/ /\ w = <<>> /\ b = <<>>
        /\ extent = PathIn(points, currentPoint)
        /\ \A i \in 1 .. Len(t) : t[i].f \in {"inside", "entering", "leaving", "handling", "raised"}
        /\ at = "halted" => t = <<>> /\ currentPoint = Root
     \/ /\ Calling(points, w, b)
        /\ \A i \in 1 .. Len(t) :
             t[i].f \in {"inside", "leaving"} \/ (t[i].f = "entering" /\ t[i].thunk = <<>>)
        /\ at # "halted"
        /\ w[1].f = "entered" /\ ~RunsProgram(points[w[1].point].bind) => t = <<>> /\ at = "return"

Running == \E t, w, b : IsRunning(t, w, b)

Travelling ==
  /\ at = "travel"
  /\ Chain(points, stack, to)
  /\ from \in 1 .. Len(points) /\ extent = PathIn(points, from)

Arrived ==
  /\ at = "return"
  /\ \E q : Chain(points, stack, q) /\ extent = PathIn(points, q)

ValuesAre(v, ps, e) ==
  /\ v \in [Parameter -> Nat]
  /\ \A p \in Parameter : v[p] = BoundIn(ps, e, p)

ValueInv == ValuesAre(value, points, extent)

StackInv ==
  /\ IsStack(stack)
  /\ at = "return" => stack # <<>>
  /\ Frames(points, stack, at = "return")
  /\ Paired(points, stack, at = "return")
  /\ Shielded(stack)

IInv ==
  /\ IsTree(points)
  /\ currentPoint \in 1 .. Len(points)
  /\ continuations \in Seq(Range(continuations))
  /\ \A i \in 1 .. Len(continuations) : IsContinuation(points, continuations[i])
  /\ Scoped(points, extent)
  /\ StackInv
  /\ ValueInv
  /\ Running \/ Travelling \/ Arrived

-----------------------------------------------------------------------------
(* Numbers and sequences.                                                  *)

(* A set of numbers that is not empty has a least one, and a bounded one a *)
(* greatest.                                                               *)
LEMMA LeastOf ==
  ASSUME NEW S, S \subseteq Nat, S # {}
  PROVE  \E least \in S : \A n \in S : least <= n
<1> DEFINE Less == {ss \in Nat \X Nat : ss[1] < ss[2]}
<1>1. IsWellFoundedOn(Less, Nat)
  BY NatLessThanWellFounded DEF OpToRel
<1>2. PICK least \in S : \A n \in S : <<n, least>> \notin Less
  <2> HIDE DEF Less
  <2> QED
    BY <1>1, WFMin
<1>3. ASSUME NEW n \in S
      PROVE  least <= n
  <2>1. <<n, least>> \in Nat \X Nat /\ <<n, least>> \notin Less
    BY <1>2, <1>3
  <2>2. ~(n < least)
    BY <2>1
  <2> QED
    BY <2>2, <1>3
<1> QED
  BY <1>3

LEMMA GreatestOf ==
  ASSUME NEW n \in Nat, NEW S, S \subseteq 1 .. n, S # {}
  PROVE  Max(S) \in S /\ \A x \in S : x <= Max(S)
<1> DEFINE T == {m \in 0 .. n : n - m \in S}
<1>1. T \subseteq Nat /\ T # {}
  <2>1. PICK x \in S : TRUE
    OBVIOUS
  <2>2. x \in Nat /\ x <= n /\ n - x \in 0 .. n /\ n - (n - x) = x
    BY <2>1
  <2>3. n - x \in T
    BY <2>1, <2>2
  <2>4. T \subseteq Nat
    OBVIOUS
  <2> QED
    BY <2>3, <2>4
<1>2. PICK least \in T : \A m \in T : least <= m
  <2> HIDE DEF T
  <2> QED
    BY <1>1, LeastOf
<1>3. ASSUME NEW x \in S
      PROVE  n - least >= x
  <2>1. x \in Nat /\ x <= n /\ n - x \in 0 .. n /\ n - (n - x) = x
    BY <1>3
  <2>2. n - x \in T
    BY <1>3, <2>1
  <2>3. least \in Nat /\ least <= n - x
    BY <1>2, <2>2
  <2> QED
    BY <2>1, <2>3
<1>4. n - least \in S
  BY <1>2
<1>5. \E x \in S : \A y \in S : x >= y
  BY <1>3, <1>4
<1>6. Max(S) \in S /\ \A y \in S : Max(S) >= y
  BY <1>5 DEF Max
<1> QED
  BY <1>6

LEMMA Pushed ==
  ASSUME NEW S, NEW s \in Seq(S), NEW x, NEW u, u = <<x>> \o s
  PROVE  /\ u \in Seq(S \cup {x}) /\ u # <<>> /\ Len(u) = Len(s) + 1 /\ u[1] = x
         /\ \A i \in 1 .. Len(s) : u[i + 1] = s[i]
         /\ \A j \in 2 .. Len(u) : j - 1 \in 1 .. Len(s) /\ u[j] = s[j - 1]
         /\ Head(u) = x /\ Tail(u) = s
<1> DEFINE T == S \cup {x}
<1>1. s \in Seq(T) /\ <<x>> \in Seq(T) /\ Len(<<x>>) = 1 /\ <<x>>[1] = x
  <2>1. s \in Seq(T)
    BY SeqMonotonic
  <2> QED
    BY <2>1
<1> HIDE DEF T
<1>2. /\ u \in Seq(T) /\ Len(u) = 1 + Len(s)
      /\ \A i \in 1 .. 1 + Len(s) : u[i] = IF i <= 1 THEN <<x>>[i] ELSE s[i - 1]
  BY <1>1, ConcatProperties
<1>3. Len(s) \in Nat
  OBVIOUS
<1>4. u[1] = x /\ u # <<>>
  BY <1>1, <1>2, <1>3
<1>5. \A i \in 1 .. Len(s) : u[i + 1] = s[i]
  <2> TAKE i \in 1 .. Len(s)
  <2>1. i + 1 \in 1 .. 1 + Len(s) /\ ~(i + 1 <= 1) /\ (i + 1) - 1 = i
    BY <1>3
  <2> QED
    BY <1>2, <2>1
<1>6. \A j \in 2 .. Len(u) : j - 1 \in 1 .. Len(s) /\ u[j] = s[j - 1]
  BY <1>2, <1>3
<1>7. Head(u) = x
  BY <1>2, <1>4
<1>8. Tail(u) = s
  <2>1. /\ Tail(u) \in Seq(T) /\ Len(Tail(u)) = Len(u) - 1
        /\ \A i \in 1 .. Len(Tail(u)) : Tail(u)[i] = u[i + 1]
    BY <1>2, <1>4, HeadTailProperties
  <2> DEFINE t == Tail(u)
  <2>2. t \in Seq(T) /\ Len(t) = Len(s) /\ \A i \in 1 .. Len(t) : t[i] = s[i]
    BY <1>2, <1>3, <1>5, <2>1
  <2> HIDE DEF t
  <2>3. t = s
    BY <1>1, <2>2, SeqEqual
  <2> QED
    BY <2>3 DEF t
<1> QED
  BY <1>2, <1>3, <1>4, <1>5, <1>6, <1>7, <1>8 DEF T

LEMMA Popped ==
  ASSUME NEW S, NEW s \in Seq(S), s # <<>>
  PROVE  /\ Tail(s) \in Seq(S) /\ Len(s) \in Nat \ {0} /\ Len(Tail(s)) = Len(s) - 1
         /\ Head(s) = s[1] /\ s[1] \in S
         /\ s = <<s[1]>> \o Tail(s)
<1> DEFINE t == Tail(s)
           u == <<s[1]>> \o t
<1>1. /\ Head(s) \in S /\ t \in Seq(S) /\ Len(t) = Len(s) - 1
      /\ \A i \in 1 .. Len(t) : t[i] = s[i + 1]
  BY HeadTailProperties
<1>2. Head(s) = s[1] /\ Len(s) \in Nat \ {0}
  OBVIOUS
<1> HIDE DEF t
<1>3. /\ u \in Seq(S \cup {s[1]}) /\ Len(u) = Len(t) + 1 /\ u[1] = s[1]
      /\ \A j \in 2 .. Len(u) : j - 1 \in 1 .. Len(t) /\ u[j] = t[j - 1]
  BY <1>1, Pushed
<1>4. S \cup {s[1]} = S
  BY <1>1, <1>2
<1> HIDE DEF u
<1>5. \A i \in 1 .. Len(u) : u[i] = s[i]
  BY <1>1, <1>2, <1>3
<1>6. u = s
  <2>1. u \in Seq(S) /\ Len(u) = Len(s)
    BY <1>1, <1>2, <1>3, <1>4
  <2> QED
    BY <1>5, <2>1, SeqEqual
<1> QED
  BY <1>1, <1>2, <1>6 DEF u, t

LEMMA Stacks ==
  ASSUME NEW s, IsStack(s)
  PROVE  /\ Len(s) \in Nat
         /\ \A x : IsStack(<<x>> \o s)
         /\ s # <<>> => IsStack(Tail(s))
<1>1. s \in Seq(Range(s))
  BY DEF IsStack
<1>2. ASSUME NEW x
      PROVE  IsStack(<<x>> \o s)
  <2>1. <<x>> \o s \in Seq(Range(s) \cup {x})
    BY <1>1, Pushed
  <2> QED
    BY <2>1, SeqOfRange DEF IsStack
<1>3. ASSUME s # <<>>
      PROVE  IsStack(Tail(s))
  <2>1. Tail(s) \in Seq(Range(s))
    BY <1>1, <1>3, Popped
  <2> QED
    BY <2>1, SeqOfRange DEF IsStack
<1> QED
  BY <1>1, <1>2, <1>3

LEMMA EmptyStack ==
  /\ IsStack(<<>>) /\ Len(<<>>) = 0
  /\ \A x : IsStack(<<x>>) /\ <<x>> \o <<>> = <<x>> /\ Len(<<x>>) = 1 /\ <<x>>[1] = x
            /\ <<x>> # <<>>
<1>1. <<>> \in Seq({})
  OBVIOUS
<1>2. IsStack(<<>>) /\ Len(<<>>) = 0
  BY <1>1, SeqOfRange DEF IsStack
<1>3. ASSUME NEW x
      PROVE  IsStack(<<x>>) /\ <<x>> \o <<>> = <<x>>
  <2>1. <<x>> \in Seq({x})
    OBVIOUS
  <2> QED
    BY <2>1, SeqOfRange, ConcatEmptySeq DEF IsStack
<1> QED
  BY <1>2, <1>3

LEMMA StackParts ==
  ASSUME NEW t, IsStack(t), NEW w, IsStack(w)
  PROVE  /\ IsStack(t \o w)
         /\ <<>> \o w = w
         /\ t \o <<>> = t
         /\ Len(t \o w) = Len(t) + Len(w) /\ Len(t) \in Nat /\ Len(w) \in Nat
         /\ \A i \in 1 .. Len(t) : (t \o w)[i] = t[i]
         /\ \A i \in 1 .. Len(w) : (t \o w)[i + Len(t)] = w[i]
         /\ \A x : (<<x>> \o t) \o w = <<x>> \o (t \o w)
         /\ t # <<>> => /\ t \o w # <<>> /\ (t \o w)[1] = t[1]
                        /\ Tail(t \o w) = Tail(t) \o w
<1> DEFINE S == Range(t) \cup Range(w)
           u == t \o w
<1>1. t \in Seq(S) /\ w \in Seq(S)
  <2>1. t \in Seq(Range(t)) /\ w \in Seq(Range(w))
    BY DEF IsStack
  <2> QED
    BY <2>1, SeqMonotonic
<1> HIDE DEF S
<1>2. /\ u \in Seq(S) /\ Len(u) = Len(t) + Len(w)
      /\ \A i \in 1 .. Len(t) + Len(w) : u[i] = IF i <= Len(t) THEN t[i] ELSE w[i - Len(t)]
  BY <1>1, ConcatProperties
<1>3. IsStack(u)
  BY <1>2, SeqOfRange DEF IsStack
<1>4. <<>> \o w = w /\ t \o <<>> = t
  BY <1>1, ConcatEmptySeq
<1>5. Len(t) \in Nat /\ Len(w) \in Nat
  BY <1>1
<1>6. \A i \in 1 .. Len(t) : u[i] = t[i]
  BY <1>2, <1>5
<1>7. \A i \in 1 .. Len(w) : u[i + Len(t)] = w[i]
  <2> TAKE i \in 1 .. Len(w)
  <2>1. i + Len(t) \in 1 .. Len(t) + Len(w) /\ ~(i + Len(t) <= Len(t)) /\ (i + Len(t)) - Len(t) = i
    BY <1>5
  <2> QED
    BY <1>2, <2>1
<1>8. ASSUME NEW x
      PROVE  (<<x>> \o t) \o w = <<x>> \o (t \o w)
  <2>1. t \in Seq(S \cup {x}) /\ w \in Seq(S \cup {x}) /\ <<x>> \in Seq(S \cup {x})
    BY <1>1, SeqMonotonic
  <2> QED
    BY <2>1, ConcatAssociative
<1>9. ASSUME t # <<>>
      PROVE  u # <<>> /\ u[1] = t[1] /\ Tail(u) = Tail(t) \o w
  <2>1. t = <<t[1]>> \o Tail(t) /\ Len(t) \in Nat \ {0} /\ Tail(t) \in Seq(S)
    BY <1>1, <1>9, Popped
  <2>2. u[1] = t[1] /\ u # <<>>
    BY <1>2, <1>5, <1>6, <2>1
  <2>3. (<<t[1]>> \o Tail(t)) \o w = <<t[1]>> \o (Tail(t) \o w)
    <3>1. t[1] \in S
      BY <1>1, <1>9, Popped
    <3>2. <<t[1]>> \in Seq(S)
      BY <3>1
    <3> QED
      BY <1>1, <2>1, <3>2, ConcatAssociative
  <2>4. u = <<t[1]>> \o (Tail(t) \o w)
    BY <2>1, <2>3
  <2>5. Tail(t) \o w \in Seq(S)
    BY <1>1, <2>1, ConcatProperties
  <2>6. Tail(u) = Tail(t) \o w
    BY <2>4, <2>5, Pushed
  <2> QED
    BY <2>2, <2>6
<1> QED
  BY <1>2, <1>3, <1>4, <1>5, <1>6, <1>7, <1>8, <1>9

LEMMA PushedOver ==
  ASSUME NEW t, IsStack(t), NEW w, IsStack(w), NEW x
  PROVE  IsStack(<<x>> \o t) /\ (<<x>> \o t) \o w = <<x>> \o (t \o w)
<1>1. IsStack(<<x>> \o t)
  BY Stacks
<1> DEFINE S == Range(t) \cup Range(w) \cup {x}
<1>2. t \in Seq(S) /\ w \in Seq(S) /\ <<x>> \in Seq(S)
  <2>1. t \in Seq(Range(t)) /\ w \in Seq(Range(w)) /\ <<x>> \in Seq({x})
    BY DEF IsStack
  <2> QED
    BY <2>1, SeqMonotonic
<1> HIDE DEF S
<1>3. (<<x>> \o t) \o w = <<x>> \o (t \o w)
  BY <1>2, ConcatAssociative
<1> QED
  BY <1>1, <1>3

-----------------------------------------------------------------------------
(* Paths: the recursive function of a tree, by its equation for a point    *)
(* and that for its parent, which is before it.                            *)

Step(ps, g, q) == IF q = Root THEN <<>> ELSE Append(g[ps[q].parent], q)

LEMMA Earlier ==
  ASSUME NEW n \in Nat, NEW q \in 2 .. n, NEW p \in 1 .. q - 1
  PROVE  p \in 1 .. n
OBVIOUS

LEMMA TreePoint ==
  ASSUME NEW ps, IsTree(ps)
  PROVE  /\ Len(ps) \in Nat \ {0} /\ Root \in 1 .. Len(ps) /\ DOMAIN ps = 1 .. Len(ps)
         /\ ps[Root].bind = <<>> /\ ps[Root].depth = 0
         /\ \A q \in 1 .. Len(ps) :
              /\ ps[q].depth \in Nat /\ ps[q].bind \in Binds
              /\ q # Root => /\ q \in 2 .. Len(ps)
                             /\ ps[q].parent \in 1 .. q - 1 /\ ps[q].parent \in 1 .. Len(ps)
                             /\ ps[q].depth = ps[ps[q].parent].depth + 1
                             /\ ps[q].depth # 0 /\ OneByOne(ps[q].bind)
<1>1. ps \in Seq([depth : Nat, bind : Binds, parent : Nat]) /\ Len(ps) >= 1 /\ Len(ps) \in Nat
  BY DEF IsTree
<1>2. ps[Root].bind = <<>> /\ ps[Root].depth = 0
  BY DEF IsTree, Point
<1>3. \A q \in 1 .. Len(ps) : ps[q] \in [depth : Nat, bind : Binds, parent : Nat]
  BY <1>1, ElementOfSeq
<1>4. \A q \in 1 .. Len(ps) : ps[q].depth \in Nat /\ ps[q].bind \in Binds
  BY <1>3
<1>5. ASSUME NEW q \in 1 .. Len(ps), q # Root
      PROVE  /\ q \in 2 .. Len(ps)
             /\ ps[q].parent \in 1 .. q - 1 /\ ps[q].parent \in 1 .. Len(ps)
             /\ ps[q].depth = ps[ps[q].parent].depth + 1
             /\ ps[q].depth # 0 /\ OneByOne(ps[q].bind)
  <2>1. q \in 2 .. Len(ps)
    BY <1>1, <1>5 DEF Root
  <2>2. ps[q].parent \in 1 .. q - 1 /\ ps[q].depth = ps[ps[q].parent].depth + 1
        /\ OneByOne(ps[q].bind)
    BY <2>1 DEF IsTree
  <2>3. ps[q].parent \in 1 .. Len(ps)
    BY <1>1, <2>1, <2>2, Earlier
  <2>4. ps[ps[q].parent].depth \in Nat
    BY <1>4, <2>3
  <2> QED
    BY <2>1, <2>2, <2>3, <2>4
<1>6. DOMAIN ps = 1 .. Len(ps) /\ Root \in 1 .. Len(ps)
  BY <1>1 DEF Root
<1> QED
  BY <1>1, <1>2, <1>4, <1>5, <1>6

LEMMA PathsExist ==
  ASSUME NEW ps, IsTree(ps), NEW n \in 0 .. Len(ps)
  PROVE  \E g \in [1 .. n -> Seq(2 .. Len(ps))] : \A q \in 1 .. n : g[q] = Step(ps, g, q)
<1> DEFINE T == Seq(2 .. Len(ps))
           Good(m) == \E g \in [1 .. m -> T] : \A q \in 1 .. m : g[q] = Step(ps, g, q)
           Bad == {m \in 0 .. Len(ps) : ~Good(m)}
<1>0. Len(ps) \in Nat
  BY TreePoint
<1>1. SUFFICES ASSUME Bad # {}
               PROVE  FALSE
  OBVIOUS
<1>2. PICK m \in Bad : \A k \in Bad : m <= k
  <2>1. Bad \subseteq Nat
    BY <1>0
  <2> HIDE DEF Bad
  <2> QED
    BY <1>1, <2>1, LeastOf
<1>3. m \in 0 .. Len(ps) /\ ~Good(m)
  BY <1>2
<1>4. m # 0
  <2>1. Good(0)
    <3>1. 1 .. 0 = {}
      OBVIOUS
    <3>2. [q \in {} |-> <<>>] \in [{} -> T]
      OBVIOUS
    <3>3. \E g \in [{} -> T] : \A q \in {} : g[q] = Step(ps, g, q)
      BY <3>2, Zenon
    <3> QED
      BY <3>1, <3>3, Zenon
  <2> HIDE DEF Good
  <2> QED
    BY <1>3, <2>1
<1>5. m - 1 \in 0 .. Len(ps) /\ ~(m <= m - 1)
  BY <1>0, <1>3, <1>4
<1>6. Good(m - 1)
  <2>1. m - 1 \notin Bad
    <3> HIDE DEF Bad
    <3> QED
      BY <1>2, <1>5
  <2> HIDE DEF Good
  <2> QED
    BY <1>5, <2>1
<1>7. PICK g \in [1 .. m - 1 -> T] : \A q \in 1 .. m - 1 : g[q] = Step(ps, g, q)
  BY <1>6
<1> DEFINE last == Step(ps, g, m)
           h == [q \in 1 .. m |-> IF q < m THEN g[q] ELSE last]
<1>8. m # Root => ps[m].parent \in 1 .. m - 1 /\ m \in 2 .. Len(ps)
  BY <1>0, <1>3, <1>4, TreePoint
<1>9. last \in T
  <2>1. m # Root => g[ps[m].parent] \in T
    BY <1>7, <1>8
  <2>2. CASE m = Root
    BY <2>2 DEF Step
  <2>3. CASE m # Root
    <3>1. Append(g[ps[m].parent], m) \in T
      BY <1>8, <2>1, <2>3, AppendProperties
    <3> QED
      BY <2>3, <3>1, Zenon DEF Step
  <2> QED
    BY <2>2, <2>3
<1>10. h \in [1 .. m -> T]
  <2>1. \A q \in 1 .. m : q < m => q \in 1 .. m - 1
    BY <1>0, <1>3
  <2>2. \A q \in 1 .. m : q < m => g[q] \in T
    BY <1>7, <2>1
  <2> HIDE DEF last
  <2> QED
    BY <1>9, <2>2
<1>11. \A q \in 1 .. m - 1 : h[q] = g[q]
  <2>1. \A q \in 1 .. m - 1 : q \in 1 .. m /\ q < m
    BY <1>0, <1>3
  <2> HIDE DEF last
  <2> QED
    BY <2>1
<1>12. h[m] = last
  <2>1. m \in 1 .. m /\ ~(m < m)
    BY <1>0, <1>3, <1>4
  <2> HIDE DEF last
  <2> QED
    BY <2>1
<1>13. ASSUME NEW q \in 1 .. m
       PROVE  h[q] = Step(ps, h, q)
  <2>1. q \in 1 .. m - 1 \/ q = m
    BY <1>0, <1>3
  <2>2. q # Root => ps[q].parent \in 1 .. m - 1
    <3>1. q \in 1 .. Len(ps) /\ q <= m
      BY <1>0, <1>3
    <3>2. q # Root => ps[q].parent \in 1 .. q - 1
      BY <3>1, TreePoint
    <3> QED
      BY <1>0, <1>3, <3>1, <3>2
  <2> HIDE DEF h
  <2>3. Step(ps, h, q) = Step(ps, g, q)
    BY <1>11, <2>2, Zenon DEF Step
  <2>4. CASE q = m
    BY <1>12, <2>3, <2>4
  <2>5. CASE q \in 1 .. m - 1
    BY <1>7, <1>11, <2>3, <2>5
  <2> QED
    BY <2>1, <2>4, <2>5
<1>14. Good(m)
  <2> HIDE DEF h
  <2> QED
    BY <1>10, <1>13
<1> QED
  BY <1>3, <1>14

LEMMA PathStep ==
  ASSUME NEW ps, IsTree(ps)
  PROVE  /\ PathIn(ps, Root) = <<>>
         /\ \A q \in 2 .. Len(ps) : PathIn(ps, q) = Append(PathIn(ps, ps[q].parent), q)
<1> DEFINE Is(path) == path = [q \in DOMAIN ps |-> IF q = Root THEN <<>>
                                                   ELSE Append(path[ps[q].parent], q)]
           F == CHOOSE path : Is(path)
<1>1. \A p : PathIn(ps, p) = F[p]
  BY Zenon DEF PathIn
<1>2. Len(ps) \in Nat \ {0} /\ Root \in 1 .. Len(ps) /\ DOMAIN ps = 1 .. Len(ps)
  BY TreePoint
<1>3. PICK g \in [1 .. Len(ps) -> Seq(2 .. Len(ps))] : \A q \in 1 .. Len(ps) : g[q] = Step(ps, g, q)
  <2>1. Len(ps) \in 0 .. Len(ps)
    BY <1>2
  <2> QED
    BY <2>1, PathsExist
<1>4. Is(g)
  BY <1>2, <1>3 DEF Step
<1>5. Is(F)
  <2> HIDE DEF Is
  <2> QED
    BY <1>4
<1> HIDE DEF F
<1>6. \A q \in 1 .. Len(ps) : F[q] = IF q = Root THEN <<>> ELSE Append(F[ps[q].parent], q)
  BY <1>2, <1>5
<1>7. \A q \in 2 .. Len(ps) : q \in 1 .. Len(ps) /\ q # Root
  BY <1>2 DEF Root
<1> QED
  BY <1>1, <1>2, <1>6, <1>7, Zenon

LEMMA PathType ==
  ASSUME NEW ps, IsTree(ps), NEW p \in 1 .. Len(ps)
  PROVE  PathIn(ps, p) \in Seq(2 .. Len(ps))
<1> DEFINE Bad == {q \in 1 .. Len(ps) : PathIn(ps, q) \notin Seq(2 .. Len(ps))}
<1>1. SUFFICES ASSUME Bad # {}
               PROVE  FALSE
  OBVIOUS
<1>2. PICK q \in Bad : \A k \in Bad : q <= k
  <2>1. Bad \subseteq Nat
    BY TreePoint
  <2> HIDE DEF Bad
  <2> QED
    BY <1>1, <2>1, LeastOf
<1>3. q \in 1 .. Len(ps) /\ PathIn(ps, q) \notin Seq(2 .. Len(ps))
  BY <1>2
<1>4. q # Root
  <2>1. PathIn(ps, Root) = <<>> /\ <<>> \in Seq(2 .. Len(ps))
    BY PathStep
  <2> QED
    BY <1>3, <2>1
<1>5. q \in 2 .. Len(ps) /\ ps[q].parent \in 1 .. Len(ps) /\ ps[q].parent \in 1 .. q - 1
  BY <1>3, <1>4, TreePoint
<1>6. PathIn(ps, ps[q].parent) \in Seq(2 .. Len(ps))
  <2>1. ~(q <= ps[q].parent)
    BY <1>3, <1>5
  <2>2. ps[q].parent \notin Bad
    <3> HIDE DEF Bad
    <3> QED
      BY <1>2, <2>1
  <2> QED
    BY <1>5, <2>2
<1>7. PathIn(ps, q) = Append(PathIn(ps, ps[q].parent), q)
  BY <1>5, PathStep
<1> QED
  BY <1>3, <1>5, <1>6, <1>7

(* A tree with one more point. *)
Grown(ps, qs) ==
  /\ IsTree(ps) /\ IsTree(qs)
  /\ Len(qs) = Len(ps) + 1
  /\ \A q \in 1 .. Len(ps) : qs[q] = ps[q]

LEMMA Grows ==
  ASSUME NEW ps, IsTree(ps), NEW parent \in 1 .. Len(ps), NEW bind \in Binds, OneByOne(bind)
  PROVE  LET point == Point(ps[parent].depth + 1, bind, parent)
             qs == Append(ps, point)
         IN /\ Grown(ps, qs)
            /\ qs[Len(ps) + 1].bind = bind /\ qs[Len(ps) + 1].parent = parent
            /\ Len(ps) + 1 \in 2 .. Len(qs)
            /\ PathIn(qs, Len(ps) + 1) = Append(PathIn(qs, parent), Len(ps) + 1)
<1> DEFINE point == Point(ps[parent].depth + 1, bind, parent)
           qs == Append(ps, point)
           R == [depth : Nat, bind : Binds, parent : Nat]
<1>1. /\ ps \in Seq(R) /\ Len(ps) \in Nat \ {0} /\ ps[parent].depth \in Nat
      /\ \A q \in 2 .. Len(ps) : ps[q].parent \in 1 .. q - 1
  BY TreePoint DEF IsTree
<1>2. /\ point \in R /\ point.depth = ps[parent].depth + 1 /\ point.bind = bind
      /\ point.parent = parent
  BY <1>1 DEF Point
<1> HIDE DEF point, R
<1>3. /\ qs \in Seq(R) /\ Len(qs) = Len(ps) + 1
      /\ \A q \in 1 .. Len(ps) : qs[q] = ps[q]
      /\ qs[Len(ps) + 1] = point
  BY <1>1, <1>2, AppendProperties
<1> HIDE DEF qs
<1>4. ASSUME NEW q \in 2 .. Len(qs)
      PROVE  /\ qs[q].parent \in 1 .. q - 1
             /\ qs[q].depth = qs[qs[q].parent].depth + 1
             /\ OneByOne(qs[q].bind)
  <2>1. CASE q \in 2 .. Len(ps)
    <3>1. q \in 1 .. Len(ps) /\ ps[q].parent \in 1 .. q - 1 /\ ps[q].parent \in 1 .. Len(ps)
      BY <1>1, <2>1
    <3>2. qs[q] = ps[q] /\ qs[ps[q].parent] = ps[ps[q].parent]
      BY <1>3, <3>1
    <3>3. ps[q].depth = ps[ps[q].parent].depth + 1 /\ OneByOne(ps[q].bind)
      BY <2>1 DEF IsTree
    <3> QED
      BY <3>1, <3>2, <3>3
  <2>2. CASE q = Len(ps) + 1
    <3>1. qs[q] = point /\ qs[parent] = ps[parent]
      BY <1>3, <2>2
    <3>2. parent \in 1 .. q - 1
      BY <1>1, <2>2
    <3> QED
      BY <1>2, <3>1, <3>2
  <2> QED
    BY <1>1, <1>3, <2>1, <2>2
<1>5. IsTree(qs)
  <2>1. qs[Root] = Point(0, <<>>, 0) /\ Len(qs) >= 1
    <3>1. ps[Root] = Point(0, <<>>, 0)
      BY DEF IsTree
    <3>2. Root \in 1 .. Len(ps)
      BY TreePoint
    <3> QED
      BY <1>1, <1>3, <3>1, <3>2
  <2> QED
    BY <1>3, <1>4, <2>1 DEF IsTree, R
<1>6. Grown(ps, qs)
  BY <1>3, <1>5 DEF Grown
<1>7. Len(ps) + 1 \in 2 .. Len(qs)
  BY <1>1, <1>3
<1>8. PathIn(qs, Len(ps) + 1) = Append(PathIn(qs, parent), Len(ps) + 1)
  BY <1>2, <1>3, <1>5, <1>7, PathStep
<1> QED
  BY <1>2, <1>3, <1>6, <1>7, <1>8 DEF qs, point

LEMMA PathGrown ==
  ASSUME NEW ps, NEW qs, Grown(ps, qs), NEW p \in 1 .. Len(ps)
  PROVE  PathIn(qs, p) = PathIn(ps, p)
<1> DEFINE Bad == {q \in 1 .. Len(ps) : PathIn(qs, q) # PathIn(ps, q)}
<1>0. /\ IsTree(ps) /\ IsTree(qs) /\ Len(ps) \in Nat /\ Len(qs) = Len(ps) + 1
      /\ \A q \in 1 .. Len(ps) : qs[q] = ps[q]
  BY TreePoint DEF Grown
<1>1. SUFFICES ASSUME Bad # {}
               PROVE  FALSE
  OBVIOUS
<1>2. PICK q \in Bad : \A k \in Bad : q <= k
  <2>1. Bad \subseteq Nat
    BY <1>0
  <2> HIDE DEF Bad
  <2> QED
    BY <1>1, <2>1, LeastOf
<1>3. q \in 1 .. Len(ps) /\ PathIn(qs, q) # PathIn(ps, q)
  BY <1>2
<1>4. q # Root
  BY <1>0, <1>3, PathStep
<1>5. q \in 2 .. Len(ps) /\ ps[q].parent \in 1 .. Len(ps) /\ ps[q].parent \in 1 .. q - 1
  BY <1>0, <1>3, <1>4, TreePoint
<1>6. PathIn(qs, ps[q].parent) = PathIn(ps, ps[q].parent)
  <2>1. ~(q <= ps[q].parent)
    BY <1>3, <1>5
  <2>2. ps[q].parent \notin Bad
    <3> HIDE DEF Bad
    <3> QED
      BY <1>2, <2>1
  <2> QED
    BY <1>5, <2>2
<1>7. PathIn(ps, q) = Append(PathIn(ps, ps[q].parent), q)
  BY <1>0, <1>5, PathStep
<1>8. PathIn(qs, q) = Append(PathIn(qs, qs[q].parent), q)
  <2>1. q \in 2 .. Len(qs)
    BY <1>0, <1>5
  <2> QED
    BY <1>0, <2>1, PathStep
<1> QED
  BY <1>0, <1>3, <1>6, <1>7, <1>8

-----------------------------------------------------------------------------
(* Values of parameters in an extent.                                      *)

Of(bind, p) == bind # <<>> /\ bind[1] = p
BindsIn(ps, e, p) == {i \in DOMAIN e : Of(ps[e[i]].bind, p)}

LEMMA BoundBy ==
  ASSUME NEW ps, NEW e, NEW p
  PROVE  BoundIn(ps, e, p) =
           IF BindsIn(ps, e, p) = {} THEN 0
           ELSE Given(ps[e[Max(BindsIn(ps, e, p))]].bind, e[Max(BindsIn(ps, e, p))])
BY Zenon DEF BoundIn, BindsIn, Of

LEMMA BoundEmpty ==
  ASSUME NEW ps, NEW p
  PROVE  BoundIn(ps, <<>>, p) = 0
<1>1. BindsIn(ps, <<>>, p) = {}
  BY DEF BindsIn
<1> QED
  BY <1>1, BoundBy, Zenon

LEMMA BoundAppend ==
  ASSUME NEW ps, NEW e \in Seq(Nat), NEW q \in Nat, NEW p
  PROVE  BoundIn(ps, Append(e, q), p) =
           IF Of(ps[q].bind, p) THEN Given(ps[q].bind, q) ELSE BoundIn(ps, e, p)
<1> DEFINE a == Append(e, q)
           n == Len(e)
           B == BindsIn(ps, e, p)
           A == BindsIn(ps, a, p)
<1>1. /\ a \in Seq(Nat) /\ Len(a) = n + 1 /\ n \in Nat /\ a[n + 1] = q
      /\ \A i \in 1 .. n : a[i] = e[i]
  BY AppendProperties
<1>2. DOMAIN a = 1 .. n + 1 /\ DOMAIN e = 1 .. n
  BY <1>1
<1> HIDE DEF a, n
<1>3. A \subseteq 1 .. n + 1 /\ B \subseteq 1 .. n
  BY <1>2 DEF BindsIn
<1>4. \A i \in 1 .. n : i \in A <=> i \in B
  BY <1>1, <1>2 DEF BindsIn
<1>5. n + 1 \in A <=> Of(ps[q].bind, p)
  BY <1>1, <1>2 DEF BindsIn
<1>6. CASE Of(ps[q].bind, p)
  <2>1. A # {} /\ n + 1 \in A
    BY <1>5, <1>6
  <2>2. Max(A) \in A /\ \A x \in A : x <= Max(A)
    <3>1. n + 1 \in Nat
      BY <1>1
    <3> HIDE DEF A
    <3> QED
      BY <1>3, <2>1, <3>1, GreatestOf
  <2>3. Max(A) = n + 1
    <3> DEFINE m == Max(A)
    <3>1. m \in 1 .. n + 1 /\ n + 1 <= m
      BY <1>3, <2>1, <2>2
    <3> HIDE DEF m
    <3>2. m = n + 1
      BY <1>1, <3>1
    <3> QED
      BY <3>2 DEF m
  <2>4. BoundIn(ps, a, p) = Given(ps[a[n + 1]].bind, a[n + 1])
    <3>1. BoundIn(ps, a, p) = IF A = {} THEN 0 ELSE Given(ps[a[Max(A)]].bind, a[Max(A)])
      BY BoundBy
    <3> HIDE DEF A
    <3> QED
      BY <2>1, <2>3, <3>1, Zenon
  <2> QED
    BY <1>1, <1>6, <2>4 DEF a
<1>7. CASE ~Of(ps[q].bind, p)
  <2>1. A = B
    <3>1. \A i \in A : i \in 1 .. n
      BY <1>1, <1>3, <1>5, <1>7
    <3>2. \A i \in B : i \in 1 .. n
      BY <1>3
    <3> HIDE DEF A, B
    <3> QED
      BY <1>4, <3>1, <3>2
  <2>2. B # {} => a[Max(B)] = e[Max(B)]
    <3>1. B # {} => Max(B) \in B
      BY <1>1, <1>3, GreatestOf
    <3> HIDE DEF B
    <3> QED
      BY <1>1, <1>3, <3>1
  <2> DEFINE va == IF A = {} THEN 0 ELSE Given(ps[a[Max(A)]].bind, a[Max(A)])
             ve == IF B = {} THEN 0 ELSE Given(ps[e[Max(B)]].bind, e[Max(B)])
  <2>3. BoundIn(ps, a, p) = va /\ BoundIn(ps, e, p) = ve
    BY BoundBy
  <2> HIDE DEF A, B
  <2>4. va = ve
    <3>1. CASE B = {}
      BY <2>1, <3>1, Zenon
    <3>2. CASE B # {}
      BY <2>1, <2>2, <3>2, Zenon
    <3> QED
      BY <3>1, <3>2
  <2> HIDE DEF va, ve
  <2>5. BoundIn(ps, a, p) = BoundIn(ps, e, p)
    BY <2>3, <2>4
  <2> QED
    BY <1>7, <2>5 DEF a
<1> QED
  BY <1>6, <1>7

LEMMA BoundGrown ==
  ASSUME NEW ps, NEW qs, Grown(ps, qs), NEW e \in Seq(2 .. Len(ps)), NEW p
  PROVE  BoundIn(qs, e, p) = BoundIn(ps, e, p)
<1>1. Len(e) \in Nat /\ DOMAIN e = 1 .. Len(e) /\ \A i \in 1 .. Len(e) : e[i] \in 2 .. Len(ps)
  BY ElementOfSeq
<1>2. \A i \in 1 .. Len(e) : qs[e[i]] = ps[e[i]]
  <2>1. \A i \in 1 .. Len(e) : e[i] \in 1 .. Len(ps)
    BY <1>1, TreePoint DEF Grown
  <2> QED
    BY <2>1 DEF Grown
<1>3. BindsIn(qs, e, p) = BindsIn(ps, e, p)
  BY <1>1, <1>2 DEF BindsIn
<1> DEFINE B == BindsIn(ps, e, p)
<1>4. B \subseteq 1 .. Len(e)
  BY <1>1 DEF BindsIn
<1>5. B # {} => qs[e[Max(B)]] = ps[e[Max(B)]]
  <2>1. B # {} => Max(B) \in B
    BY <1>1, <1>4, GreatestOf
  <2> HIDE DEF B
  <2> QED
    BY <1>2, <1>4, <2>1
<1>6. /\ BoundIn(qs, e, p) = IF B = {} THEN 0 ELSE Given(qs[e[Max(B)]].bind, e[Max(B)])
      /\ BoundIn(ps, e, p) = IF B = {} THEN 0 ELSE Given(ps[e[Max(B)]].bind, e[Max(B)])
  BY <1>3, BoundBy
<1> HIDE DEF B
<1>7. CASE B = {}
  BY <1>6, <1>7, Zenon
<1>8. CASE B # {}
  BY <1>5, <1>6, <1>8, Zenon
<1> QED
  BY <1>7, <1>8

LEMMA BindType ==
  ASSUME NEW bind \in Binds, bind # <<>>
  PROVE  /\ bind \in Parameter \X Source \X Nat
         /\ bind[1] \in Parameter /\ bind[2] \in Source /\ bind[3] \in Nat
         /\ \A q \in Nat : Given(bind, q) \in Nat
<1>1. bind \in Parameter \X Source \X Nat
  BY DEF Binds
<1>2. bind[2] \in Source
  BY <1>1
<1> QED
  BY <1>1, <1>2 DEF Given, Source

LEMMA BindMade ==
  ASSUME NEW p \in Parameter, NEW v \in Source, NEW w \in Nat
  PROVE  /\ <<p, v, w>> \in Binds /\ <<p, v, w>> # <<>>
         /\ <<p, v, w>>[1] = p /\ <<p, v, w>>[2] = v /\ <<p, v, w>>[3] = w
BY DEF Binds

LEMMA BoundType ==
  ASSUME NEW ps, IsTree(ps), NEW e \in Seq(2 .. Len(ps)), NEW p \in Parameter
  PROVE  BoundIn(ps, e, p) \in Nat
<1> DEFINE B == BindsIn(ps, e, p)
<1>1. Len(e) \in Nat /\ DOMAIN e = 1 .. Len(e) /\ \A i \in 1 .. Len(e) : e[i] \in 1 .. Len(ps)
  <2>1. \A i \in 1 .. Len(e) : e[i] \in 2 .. Len(ps)
    BY ElementOfSeq
  <2> QED
    BY <2>1, TreePoint
<1>2. B \subseteq 1 .. Len(e)
  BY <1>1 DEF BindsIn
<1>3. CASE B = {}
  BY <1>3, BoundBy
<1>4. CASE B # {}
  <2>1. Max(B) \in B
    BY <1>1, <1>2, <1>4, GreatestOf
  <2> DEFINE m == Max(B)
             q == e[m]
             bind == ps[q].bind
  <2>2. BoundIn(ps, e, p) = Given(bind, q)
    BY <1>4, BoundBy
  <2>3. m \in B
    BY <2>1
  <2>4. \A i \in B : i \in 1 .. Len(e) /\ ps[e[i]].bind # <<>>
    BY <1>1 DEF BindsIn, Of
  <2> HIDE DEF m, B
  <2>5. q \in 1 .. Len(ps) /\ bind # <<>>
    BY <1>1, <2>3, <2>4
  <2>6. bind \in Binds /\ q \in Nat
    BY <2>5, TreePoint
  <2> HIDE DEF bind, q
  <2> QED
    BY <2>2, <2>5, <2>6, BindType
<1> QED
  BY <1>3, <1>4

LEMMA ScopedEmpty ==
  ASSUME NEW ps
  PROVE  Scoped(ps, <<>>)
BY DEF Scoped

LEMMA FrontOf ==
  ASSUME NEW S, NEW e \in Seq(S), NEW q \in S
  PROVE  LET a == Append(e, q)
         IN /\ SubSeq(a, 1, Len(a) - 1) = e
            /\ \A i \in 1 .. Len(e) : SubSeq(a, 1, i - 1) = SubSeq(e, 1, i - 1)
<1> DEFINE a == Append(e, q)
<1>1. /\ a \in Seq(S) /\ Len(a) = Len(e) + 1 /\ Len(e) \in Nat
      /\ \A i \in 1 .. Len(e) : a[i] = e[i] /\ e[i] \in S
  BY AppendProperties
<1> HIDE DEF a
<1>2. ASSUME NEW n \in 0 .. Len(e)
      PROVE  SubSeq(a, 1, n) = SubSeq(e, 1, n)
  <2> DEFINE x == SubSeq(a, 1, n)
             y == SubSeq(e, 1, n)
  <2>1. \A i \in 1 .. n : a[i] \in S /\ e[i] \in S /\ a[i] = e[i]
    BY <1>1
  <2>2. /\ x \in Seq(S) /\ Len(x) = IF 1 <= n THEN n - 1 + 1 ELSE 0
        /\ \A i \in 1 .. n - 1 + 1 : x[i] = a[1 + i - 1]
    BY <2>1, SubSeqProperties
  <2>3. /\ y \in Seq(S) /\ Len(y) = IF 1 <= n THEN n - 1 + 1 ELSE 0
        /\ \A i \in 1 .. n - 1 + 1 : y[i] = e[1 + i - 1]
    BY <2>1, SubSeqProperties
  <2> HIDE DEF x, y
  <2>4. Len(x) = n /\ Len(y) = n /\ \A i \in 1 .. n : x[i] = a[i] /\ y[i] = e[i]
    BY <1>1, <2>2, <2>3
  <2>5. \A i \in 1 .. Len(x) : x[i] = y[i]
    BY <2>1, <2>4
  <2>6. x = y
    BY <2>2, <2>3, <2>4, <2>5, SeqEqual
  <2> QED
    BY <2>6 DEF x, y
<1>3. SubSeq(e, 1, Len(e)) = e
  BY SubSeqFull
<1>4. Len(a) - 1 = Len(e) /\ Len(e) \in 0 .. Len(e)
      /\ \A i \in 1 .. Len(e) : i - 1 \in 0 .. Len(e)
  BY <1>1
<1> QED
  BY <1>2, <1>3, <1>4 DEF a

LEMMA ScopedAppend ==
  ASSUME NEW ps, NEW e \in Seq(Nat), NEW q \in Nat
  PROVE  Scoped(ps, Append(e, q)) <=>
           Scoped(ps, e) /\ q \in 2 .. Len(ps) /\ Restores(ps, ps[q].bind, e)
<1> DEFINE a == Append(e, q)
           T == 2 .. Len(ps)
<1>1. /\ a \in Seq(Nat) /\ Len(a) = Len(e) + 1 /\ Len(e) \in Nat /\ a[Len(e) + 1] = q
      /\ \A i \in 1 .. Len(e) : a[i] = e[i]
  BY AppendProperties
<1>2. SubSeq(a, 1, Len(e)) = e /\ \A i \in 1 .. Len(e) : SubSeq(a, 1, i - 1) = SubSeq(e, 1, i - 1)
  <2>1. Len(a) - 1 = Len(e)
    BY <1>1
  <2> QED
    BY <2>1, FrontOf
<1>3. e \in Seq(T) /\ q \in T => a \in Seq(T)
  BY AppendProperties
<1>4. a \in Seq(T) => e \in Seq(T) /\ q \in T
  <2>1. ASSUME a \in Seq(T)
        PROVE  e \in Seq(T) /\ q \in T
    <3>1. \A i \in 1 .. Len(a) : a[i] \in T
      BY <2>1, ElementOfSeq
    <3> HIDE DEF a
    <3> HIDE DEF T
    <3>2. Len(e) + 1 \in 1 .. Len(a) /\ \A i \in 1 .. Len(e) : i \in 1 .. Len(a)
      BY <1>1
    <3>3. q \in T /\ \A i \in 1 .. Len(e) : e[i] \in T
      BY <1>1, <3>1, <3>2
    <3>4. \A i \in 1 .. Len(e) : i \in 1 .. Len(e) /\ e[i] \in T
      BY <3>3
    <3>5. SubSeq(e, 1, Len(e)) \in Seq(T)
      BY <1>1, <3>4, SubSeqProperties
    <3>6. SubSeq(e, 1, Len(e)) = e
      BY SubSeqFull
    <3> QED
      BY <3>3, <3>5, <3>6
  <2> QED
    BY <2>1
<1> HIDE DEF a
<1>5. (\A i \in 1 .. Len(a) : Restores(ps, ps[a[i]].bind, SubSeq(a, 1, i - 1)))
      <=> /\ \A i \in 1 .. Len(e) : Restores(ps, ps[e[i]].bind, SubSeq(e, 1, i - 1))
          /\ Restores(ps, ps[q].bind, e)
  <2>1. \A i : i \in 1 .. Len(a) <=> i \in 1 .. Len(e) \/ i = Len(e) + 1
    BY <1>1
  <2>2. Len(e) + 1 - 1 = Len(e)
    BY <1>1
  <2> DEFINE At(i) == Restores(ps, ps[a[i]].bind, SubSeq(a, 1, i - 1))
  <2>3. \A i \in 1 .. Len(e) : At(i) <=> Restores(ps, ps[e[i]].bind, SubSeq(e, 1, i - 1))
    BY <1>1, <1>2
  <2>4. At(Len(e) + 1) <=> Restores(ps, ps[q].bind, e)
    <3> DEFINE sub == SubSeq(a, 1, (Len(e) + 1) - 1)
               x == ps[a[Len(e) + 1]].bind
    <3>1. sub = e /\ x = ps[q].bind
      BY <1>1, <1>2, <2>2
    <3> HIDE DEF sub, x
    <3>2. Restores(ps, x, sub) <=> Restores(ps, ps[q].bind, e)
      BY <3>1
    <3> QED
      BY <3>2 DEF sub, x
  <2> HIDE DEF At
  <2>5. (\A i \in 1 .. Len(a) : At(i)) <=> (\A i \in 1 .. Len(e) : At(i)) /\ At(Len(e) + 1)
    BY <2>1, Zenon
  <2>6. (\A i \in 1 .. Len(e) : At(i))
          <=> \A i \in 1 .. Len(e) : Restores(ps, ps[e[i]].bind, SubSeq(e, 1, i - 1))
    BY <2>3, Zenon
  <2> QED
    BY <2>4, <2>5, <2>6, Zenon DEF At
<1> QED
  BY <1>3, <1>4, <1>5 DEF Scoped, a

LEMMA RestoresGrown ==
  ASSUME NEW ps, NEW qs, Grown(ps, qs), NEW e \in Seq(2 .. Len(ps)), NEW bind
  PROVE  Restores(qs, bind, e) <=> Restores(ps, bind, e)
BY BoundGrown DEF Restores

LEMMA ScopedGrown ==
  ASSUME NEW ps, NEW qs, Grown(ps, qs), NEW e, Scoped(ps, e)
  PROVE  Scoped(qs, e)
<1>1. e \in Seq(2 .. Len(ps)) /\ Len(e) \in Nat /\ Len(ps) \in Nat /\ Len(qs) = Len(ps) + 1
  BY TreePoint DEF Scoped, Grown
<1>2. e \in Seq(2 .. Len(qs))
  <2>1. 2 .. Len(ps) \subseteq 2 .. Len(qs)
    BY <1>1
  <2> QED
    BY <1>1, <2>1, SeqMonotonic
<1>3. ASSUME NEW i \in 1 .. Len(e)
      PROVE  Restores(qs, qs[e[i]].bind, SubSeq(e, 1, i - 1))
  <2>1. e[i] \in 2 .. Len(ps) /\ e[i] \in 1 .. Len(ps)
    BY <1>1, ElementOfSeq
  <2>2. qs[e[i]] = ps[e[i]]
    BY <2>1 DEF Grown
  <2>3. SubSeq(e, 1, i - 1) \in Seq(2 .. Len(ps))
    <3>1. i - 1 \in Int /\ \A k \in 1 .. i - 1 : k \in 1 .. Len(e)
      BY <1>1
    <3>2. \A k \in 1 .. i - 1 : e[k] \in 2 .. Len(ps)
      BY <1>1, <3>1, ElementOfSeq
    <3> QED
      BY <3>1, <3>2, SubSeqProperties
  <2>4. Restores(ps, ps[e[i]].bind, SubSeq(e, 1, i - 1))
    BY DEF Scoped
  <2> QED
    BY <2>2, <2>3, <2>4, RestoresGrown
<1> QED
  BY <1>2, <1>3 DEF Scoped

-----------------------------------------------------------------------------
(* Stacks with one frame more.                                             *)

LEMMA NestedEmpty ==
  ASSUME NEW ps, NEW e \in Seq(Nat), NEW b
  PROVE  Nested(ps, <<>>, e, b) <=> e = b
<1>1. Len(<<>>) = 0 /\ 0 + 1 = 1 /\ 1 \in 1 .. 1 /\ \A i : i \notin 1 .. 0
  OBVIOUS
<1>2. ASSUME e = b
      PROVE  Nested(ps, <<>>, e, b)
  <2> DEFINE x == [i \in 1 .. 1 |-> e]
  <2>1. x \in [1 .. 1 -> Seq(Nat)] /\ x[1] = e
    OBVIOUS
  <2> HIDE DEF x
  <2>2. x \in [1 .. Len(<<>>) + 1 -> Seq(Nat)] /\ x[Len(<<>>) + 1] = b
    BY <1>1, <1>2, <2>1
  <2> QED
    BY <1>1, <2>1, <2>2, Zenon DEF Nested
<1>3. ASSUME Nested(ps, <<>>, e, b)
      PROVE  e = b
  <2>1. PICK x \in [1 .. Len(<<>>) + 1 -> Seq(Nat)] : x[1] = e /\ x[Len(<<>>) + 1] = b
    BY <1>3 DEF Nested
  <2> QED
    BY <1>1, <2>1
<1> QED
  BY <1>2, <1>3

LEMMA NestedPushed ==
  ASSUME NEW ps, NEW x, x.f = "inside" => x.point \in Nat,
         NEW s, IsStack(s), NEW e \in Seq(Nat), NEW b
  PROVE  Nested(ps, <<x>> \o s, e, b)
           <=> \E d \in Seq(Nat) : e = Above(x, d) /\ Kept(ps, x, d) /\ Nested(ps, s, d, b)
<1> DEFINE n == Len(s)
           u == <<x>> \o s
<1>1. n \in Nat /\ s \in Seq(Range(s))
  BY Stacks DEF IsStack
<1>2. /\ Len(u) = n + 1 /\ u[1] = x /\ \A i \in 1 .. n : u[i + 1] = s[i]
      /\ \A j \in 2 .. Len(u) : j - 1 \in 1 .. n /\ u[j] = s[j - 1]
  BY <1>1, Pushed
<1> HIDE DEF u
<1>3. ASSUME Nested(ps, u, e, b)
      PROVE  \E d \in Seq(Nat) : e = Above(x, d) /\ Kept(ps, x, d) /\ Nested(ps, s, d, b)
  <2>1. PICK y \in [1 .. Len(u) + 1 -> Seq(Nat)] :
          /\ y[1] = e /\ y[Len(u) + 1] = b
          /\ \A i \in 1 .. Len(u) : y[i] = Above(u[i], y[i + 1]) /\ Kept(ps, u[i], y[i + 1])
    BY <1>3 DEF Nested
  <2> HIDE DEF n
  <2> DEFINE z == [i \in 1 .. n + 1 |-> y[i + 1]]
  <2>2. \A i \in 1 .. n + 1 : i + 1 \in 1 .. Len(u) + 1 /\ i \in 1 .. Len(u)
    BY <1>1, <1>2
  <2>3. z \in [1 .. n + 1 -> Seq(Nat)] /\ \A i \in 1 .. n + 1 : z[i] = y[i + 1]
    BY <2>1, <2>2
  <2>4. 1 \in 1 .. n + 1 /\ n + 1 \in 1 .. n + 1 /\ 1 + 1 = 2
        /\ \A i \in 1 .. n : i \in 1 .. n + 1 /\ i + 1 \in 1 .. n + 1 /\ i + 1 \in 1 .. Len(u)
    BY <1>1, <1>2
  <2> HIDE DEF z
  <2>5. z[n + 1] = b /\ z[1] \in Seq(Nat)
    <3>1. z[n + 1] = y[n + 1 + 1] /\ z[1] \in Seq(Nat)
      BY <2>3, <2>4
    <3>2. Len(u) + 1 = n + 1 + 1
      BY <1>2
    <3> QED
      BY <2>1, <3>1, <3>2
  <2>6. e = Above(x, z[1]) /\ Kept(ps, x, z[1])
    <3>1. y[1] = Above(u[1], y[1 + 1]) /\ z[1] = y[1 + 1] /\ Kept(ps, u[1], y[1 + 1])
      BY <2>1, <2>2, <2>3, <2>4
    <3> QED
      BY <1>2, <2>1, <3>1
  <2>7. \A i \in 1 .. n : z[i] = Above(s[i], z[i + 1]) /\ Kept(ps, s[i], z[i + 1])
    <3> TAKE i \in 1 .. n
    <3>1. z[i] = y[i + 1] /\ z[i + 1] = y[i + 1 + 1] /\ u[i + 1] = s[i]
      BY <1>2, <2>3, <2>4
    <3>2. y[i + 1] = Above(u[i + 1], y[i + 1 + 1]) /\ Kept(ps, u[i + 1], y[i + 1 + 1])
      BY <2>1, <2>4
    <3> QED
      BY <3>1, <3>2
  <2>8. Nested(ps, s, z[1], b)
    BY <2>3, <2>5, <2>7, Zenon DEF Nested, n
  <2> QED
    BY <2>5, <2>6, <2>8
<1>4. ASSUME NEW d \in Seq(Nat), e = Above(x, d), Kept(ps, x, d), Nested(ps, s, d, b)
      PROVE  Nested(ps, u, e, b)
  <2>1. PICK y \in [1 .. n + 1 -> Seq(Nat)] :
          /\ y[1] = d /\ y[n + 1] = b
          /\ \A i \in 1 .. n : y[i] = Above(s[i], y[i + 1]) /\ Kept(ps, s[i], y[i + 1])
    BY <1>4 DEF Nested
  <2> HIDE DEF n
  <2> DEFINE z == [i \in 1 .. Len(u) + 1 |-> IF i = 1 THEN e ELSE y[i - 1]]
  <2>2. \A i \in 1 .. Len(u) + 1 : i # 1 => i - 1 \in 1 .. n + 1
    BY <1>1, <1>2
  <2>3. z \in [1 .. Len(u) + 1 -> Seq(Nat)]
    BY <2>1, <2>2
  <2>4. z[1] = e /\ z[Len(u) + 1] = b /\ \A i \in 1 .. n + 1 : z[i + 1] = y[i]
    <3>1. /\ 1 \in 1 .. Len(u) + 1 /\ Len(u) + 1 \in 1 .. Len(u) + 1
          /\ Len(u) + 1 # 1 /\ Len(u) + 1 - 1 = n + 1
          /\ \A i \in 1 .. n + 1 : i + 1 \in 1 .. Len(u) + 1 /\ i + 1 # 1 /\ i + 1 - 1 = i
      BY <1>1, <1>2
    <3> QED
      BY <2>1, <3>1
  <2> HIDE DEF z
  <2>5. ASSUME NEW i \in 1 .. Len(u)
        PROVE  z[i] = Above(u[i], z[i + 1]) /\ Kept(ps, u[i], z[i + 1])
    <3>1. CASE i = 1
      <4>1. z[1 + 1] = y[1]
        BY <1>1, <2>4
      <4> QED
        BY <1>2, <1>4, <2>1, <2>4, <3>1, <4>1
    <3>2. CASE i # 1
      <4>1. /\ i - 1 \in 1 .. n /\ i - 1 \in 1 .. n + 1 /\ (i - 1) + 1 = i
            /\ i \in 1 .. n + 1 /\ i \in 2 .. Len(u)
        BY <1>1, <1>2, <3>2
      <4>2. z[i] = y[i - 1] /\ z[i + 1] = y[i] /\ u[i] = s[i - 1]
        BY <1>2, <2>4, <4>1
      <4>3. y[i - 1] = Above(s[i - 1], y[i]) /\ Kept(ps, s[i - 1], y[i])
        BY <2>1, <4>1
      <4> QED
        BY <4>2, <4>3
    <3> QED
      BY <3>1, <3>2
  <2> QED
    BY <2>3, <2>4, <2>5, Zenon DEF Nested
<1> QED
  BY <1>3, <1>4 DEF u

(* Below the top of a stack, extents are beginnings of that of the top.    *)
LEMMA NestedGrown ==
  ASSUME NEW ps, NEW qs, Grown(ps, qs), NEW s, Len(s) \in Nat, NEW e \in Seq(2 .. Len(ps)),
         NEW b, Nested(ps, s, e, b)
  PROVE  Nested(qs, s, e, b)
<1> DEFINE S == 2 .. Len(ps)
           n == Len(s)
<1>1. PICK x \in [1 .. n + 1 -> Seq(Nat)] :
        /\ x[1] = e /\ x[n + 1] = b
        /\ \A i \in 1 .. n : x[i] = Above(s[i], x[i + 1]) /\ Kept(ps, s[i], x[i + 1])
  BY DEF Nested
<1> DEFINE Bad == {i \in 1 .. n + 1 : x[i] \notin Seq(S)}
<1>2. Bad = {}
  <2>1. SUFFICES ASSUME Bad # {}
                 PROVE  FALSE
    OBVIOUS
  <2>2. PICK m \in Bad : \A k \in Bad : m <= k
    <3>1. Bad \subseteq Nat
      OBVIOUS
    <3> HIDE DEF Bad
    <3> QED
      BY <2>1, <3>1, LeastOf
  <2>3. m \in 1 .. n + 1 /\ x[m] \notin Seq(S)
    BY <2>2
  <2>4. m # 1
    BY <1>1, <2>3
  <2>5. m - 1 \in 1 .. n /\ (m - 1) + 1 = m /\ m - 1 \in 1 .. n + 1 /\ ~(m <= m - 1)
    BY <2>3, <2>4
  <2>6. x[m - 1] \in Seq(S)
    <3>1. m - 1 \notin Bad
      <4> HIDE DEF Bad
      <4> QED
        BY <2>2, <2>5
    <3> QED
      BY <2>5, <3>1
  <2>7. x[m - 1] = Above(s[m - 1], x[m]) /\ x[m] \in Seq(Nat)
    BY <1>1, <2>3, <2>5
  <2>8. ASSUME NEW d \in Seq(Nat), NEW q, Append(d, q) \in Seq(S)
        PROVE  d \in Seq(S)
    <3> DEFINE a == Append(d, q)
    <3>0. d \in Seq(Nat \cup {q}) /\ q \in Nat \cup {q}
      BY SeqMonotonic
    <3>1. Len(a) = Len(d) + 1 /\ Len(d) \in Nat /\ \A i \in 1 .. Len(d) : a[i] = d[i]
      BY <3>0, AppendProperties
    <3>2. \A i \in 1 .. Len(a) : a[i] \in S
      BY <2>8, ElementOfSeq
    <3> HIDE DEF a, S
    <3>3. \A i \in 1 .. Len(d) : i \in 1 .. Len(a) /\ i \in 1 .. Len(d) /\ d[i] \in S
      BY <3>1, <3>2
    <3>4. SubSeq(d, 1, Len(d)) \in Seq(S)
      BY <3>1, <3>3, SubSeqProperties
    <3>5. SubSeq(d, 1, Len(d)) = d
      BY SubSeqFull
    <3> QED
      BY <3>4, <3>5
  <2>9. x[m] \in Seq(S)
    <3>1. CASE s[m - 1].f = "inside"
      BY <2>5, <2>6, <2>7, <2>8, <3>1 DEF Above
    <3>2. CASE s[m - 1].f # "inside"
      BY <2>6, <2>7, <3>2 DEF Above
    <3> QED
      BY <3>1, <3>2
  <2> QED
    BY <2>3, <2>9
<1>3. ASSUME NEW i \in 1 .. n
      PROVE  Kept(qs, s[i], x[i + 1])
  <2>1. x[i + 1] \in Seq(S)
    <3>1. i + 1 \in 1 .. n + 1
      OBVIOUS
    <3>2. i + 1 \notin Bad
      <4> HIDE DEF Bad
      <4> QED
        BY <1>2
    <3> HIDE DEF S
    <3> QED
      BY <3>1, <3>2
  <2>2. Kept(ps, s[i], x[i + 1])
    BY <1>1
  <2> QED
    BY <2>1, <2>2, RestoresGrown DEF Kept
<1> HIDE DEF S, Bad
<1> QED
  BY <1>1, <1>3, Zenon DEF Nested

LEMMA FramesPushed ==
  ASSUME NEW ps, NEW x, NEW s, IsStack(s), NEW u, u = <<x>> \o s, NEW r \in BOOLEAN
  PROVE  Frames(ps, u, r) <=> IsFrame(ps, x, r) /\ Frames(ps, s, FALSE)
<1>1. Len(s) \in Nat /\ s \in Seq(Range(s))
  BY Stacks DEF IsStack
<1>2. /\ Len(u) = Len(s) + 1 /\ u[1] = x /\ \A i \in 1 .. Len(s) : u[i + 1] = s[i]
      /\ \A j \in 2 .. Len(u) : j - 1 \in 1 .. Len(s) /\ u[j] = s[j - 1]
  BY <1>1, Pushed
<1>3. ASSUME NEW i \in 1 .. Len(s)
      PROVE  /\ IsFrame(ps, s[i], FALSE)
                <=> IsFrame(ps, u[i + 1], IF i + 1 = 1 THEN r ELSE FALSE)
             /\ IsFrame(ps, s[i], FALSE)
                <=> IsFrame(ps, s[i], IF i = 1 THEN FALSE ELSE FALSE)
  <2>1. i + 1 # 1 /\ u[i + 1] = s[i]
    BY <1>1, <1>2
  <2>2. (IF i + 1 = 1 THEN r ELSE FALSE) = FALSE /\ (IF i = 1 THEN FALSE ELSE FALSE) = FALSE
    BY <2>1
  <2> QED
    BY <2>1, <2>2
<1>4. IsFrame(ps, x, r) <=> IsFrame(ps, u[1], IF 1 = 1 THEN r ELSE FALSE)
  BY <1>2
<1>5. \A i \in 1 .. Len(s) : i + 1 \in 1 .. Len(u)
  BY <1>1, <1>2
<1>6. 1 \in 1 .. Len(u)
  BY <1>1, <1>2
<1>7. ASSUME Frames(ps, u, r)
      PROVE  IsFrame(ps, x, r) /\ Frames(ps, s, FALSE)
  <2>1. IsFrame(ps, x, r)
    BY <1>4, <1>6, <1>7 DEF Frames
  <2>2. \A i \in 1 .. Len(s) : IsFrame(ps, s[i], FALSE)
    BY <1>3, <1>5, <1>7 DEF Frames
  <2> QED
    BY <1>3, <2>1, <2>2 DEF Frames
<1>8. ASSUME IsFrame(ps, x, r), Frames(ps, s, FALSE)
      PROVE  Frames(ps, u, r)
  <2>1. \A i \in 1 .. Len(s) : IsFrame(ps, s[i], FALSE)
    BY <1>3, <1>8 DEF Frames
  <2>2. ASSUME NEW j \in 2 .. Len(u)
        PROVE  IsFrame(ps, u[j], IF j = 1 THEN r ELSE FALSE)
    <3>1. j - 1 \in 1 .. Len(s) /\ (j - 1) + 1 = j
      BY <1>1, <1>2
    <3> QED
      BY <1>3, <2>1, <3>1
  <2>3. \A j \in 1 .. Len(u) : j = 1 \/ j \in 2 .. Len(u)
    BY <1>1, <1>2
  <2> QED
    BY <1>4, <1>8, <2>2, <2>3 DEF Frames
<1> QED
  BY <1>7, <1>8

LEMMA FramesMoved ==
  ASSUME NEW ps, NEW s, NEW r \in BOOLEAN, Frames(ps, s, FALSE)
  PROVE  Frames(ps, s, r)
<1>1. ASSUME NEW i \in 1 .. Len(s)
      PROVE  IsFrame(ps, s[i], IF i = 1 THEN r ELSE FALSE)
  <2>1. IsFrame(ps, s[i], FALSE)
    <3>1. (IF i = 1 THEN FALSE ELSE FALSE) = FALSE
      OBVIOUS
    <3> QED
      BY <3>1 DEF Frames
  <2> QED
    BY <2>1 DEF IsFrame
<1> QED
  BY <1>1 DEF Frames

LEMMA PairedPushed ==
  ASSUME NEW ps, NEW x, NEW s, IsStack(s), NEW u, u = <<x>> \o s, NEW r \in BOOLEAN
  PROVE  Paired(ps, u, r) <=>
           /\ Paired(ps, s, TRUE)
           /\ x.f = "handling" => s # <<>> /\ IsAside(ps, s[1])
           /\ IsAside(ps, x) => r
           /\ s # <<>> /\ IsAside(ps, s[1]) => x.f = "handling"
<1>1. Len(s) \in Nat /\ s \in Seq(Range(s)) /\ (s # <<>> <=> 1 \in 1 .. Len(s))
  BY Stacks DEF IsStack
<1>2. /\ Len(u) = Len(s) + 1 /\ u[1] = x /\ \A i \in 1 .. Len(s) : u[i + 1] = s[i]
      /\ \A j \in 2 .. Len(u) : j - 1 \in 1 .. Len(s) /\ u[j] = s[j - 1]
  BY <1>1, Pushed
<1>3. ASSUME Paired(ps, u, r)
      PROVE  /\ Paired(ps, s, TRUE)
             /\ x.f = "handling" => s # <<>> /\ IsAside(ps, s[1])
             /\ IsAside(ps, x) => r
             /\ s # <<>> /\ IsAside(ps, s[1]) => x.f = "handling"
  <2>1. 1 \in 1 .. Len(u) /\ (1 < Len(u) => 1 \in 1 .. Len(s)) /\ 1 + 1 = 2
    BY <1>1, <1>2
  <2>2. x.f = "handling" => s # <<>> /\ IsAside(ps, s[1])
    <3>1. x.f = "handling" => 1 < Len(u) /\ IsAside(ps, u[1 + 1])
      BY <1>2, <1>3, <2>1 DEF Paired
    <3> QED
      BY <1>1, <1>2, <2>1, <3>1
  <2>3. IsAside(ps, x) => r
    BY <1>2, <1>3, <2>1 DEF Paired
  <2>4. s # <<>> /\ IsAside(ps, s[1]) => x.f = "handling"
    <3>1. s # <<>> => 1 + 1 \in 1 .. Len(u) /\ 1 + 1 # 1 /\ (1 + 1) - 1 = 1 /\ u[1 + 1] = s[1]
      BY <1>1, <1>2
    <3>2. s # <<>> /\ IsAside(ps, u[1 + 1]) => u[(1 + 1) - 1].f = "handling"
      BY <1>3, <3>1 DEF Paired
    <3> QED
      BY <1>2, <3>1, <3>2
  <2> DEFINE Is(k) == /\ u[k].f = "handling" => k < Len(u) /\ IsAside(ps, u[k + 1])
                      /\ IsAside(ps, u[k]) /\ k # 1 => u[k - 1].f = "handling"
  <2>7. \A k \in 1 .. Len(u) : Is(k)
    BY <1>3 DEF Paired
  <2>5. ASSUME NEW i \in 1 .. Len(s)
        PROVE  /\ s[i].f = "handling" => i < Len(s) /\ IsAside(ps, s[i + 1])
               /\ IsAside(ps, s[i]) => IF i = 1 THEN TRUE ELSE s[i - 1].f = "handling"
    <3>1. i + 1 \in 1 .. Len(u) /\ u[i + 1] = s[i] /\ i + 1 # 1
      BY <1>1, <1>2
    <3>2. /\ u[i + 1].f = "handling" => i + 1 < Len(u) /\ IsAside(ps, u[i + 1 + 1])
          /\ IsAside(ps, u[i + 1]) => u[i + 1 - 1].f = "handling"
      <4>1. Is(i + 1)
        <5> HIDE DEF Is
        <5> QED
          BY <2>7, <3>1
      <4> QED
        BY <3>1, <4>1
    <3>3. i + 1 < Len(u) => i < Len(s) /\ u[i + 1 + 1] = s[i + 1]
      BY <1>1, <1>2
    <3>4. i # 1 => u[i + 1 - 1] = s[i - 1]
      <4>1. i # 1 => i - 1 \in 1 .. Len(s) /\ i + 1 - 1 = (i - 1) + 1
        BY <1>1
      <4> QED
        BY <1>2, <4>1
    <3> QED
      BY <3>1, <3>2, <3>3, <3>4
  <2>6. Paired(ps, s, TRUE)
    BY <2>5 DEF Paired
  <2> QED
    BY <2>2, <2>3, <2>4, <2>6
<1>4. ASSUME Paired(ps, s, TRUE),
             x.f = "handling" => s # <<>> /\ IsAside(ps, s[1]),
             IsAside(ps, x) => r,
             s # <<>> /\ IsAside(ps, s[1]) => x.f = "handling"
      PROVE  Paired(ps, u, r)
  <2>1. ASSUME NEW j \in 1 .. Len(u)
        PROVE  /\ u[j].f = "handling" => j < Len(u) /\ IsAside(ps, u[j + 1])
               /\ IsAside(ps, u[j]) => IF j = 1 THEN r ELSE u[j - 1].f = "handling"
    <3>1. CASE j = 1
      <4>1. s # <<>> => 1 < Len(u) /\ u[1 + 1] = s[1]
        BY <1>1, <1>2
      <4> QED
        BY <1>2, <1>4, <3>1, <4>1
    <3>2. CASE j # 1
      <4>1. j \in 2 .. Len(u) /\ j - 1 \in 1 .. Len(s) /\ u[j] = s[j - 1] /\ (j - 1) + 1 = j
        BY <1>1, <1>2, <3>2
      <4>2. /\ s[j - 1].f = "handling" => j - 1 < Len(s) /\ IsAside(ps, s[j - 1 + 1])
            /\ IsAside(ps, s[j - 1]) /\ j - 1 # 1 => s[j - 1 - 1].f = "handling"
        BY <1>4, <4>1 DEF Paired
      <4>3. j - 1 < Len(s) => j < Len(u) /\ u[j + 1] = s[j - 1 + 1]
        BY <1>1, <1>2, <4>1
      <4>4. j - 1 # 1 => u[j - 1] = s[j - 1 - 1]
        <5>1. j - 1 # 1 => j - 1 \in 2 .. Len(u)
          BY <1>1, <1>2, <4>1
        <5> QED
          BY <1>2, <5>1
      <4>5. j - 1 = 1 => s # <<>> /\ u[j - 1] = x /\ s[j - 1] = s[1]
        BY <1>1, <1>2, <4>1
      <4> QED
        BY <1>4, <3>2, <4>1, <4>2, <4>3, <4>4, <4>5
    <3> QED
      BY <3>1, <3>2
  <2> QED
    BY <2>1 DEF Paired
<1> QED
  BY <1>3, <1>4

LEMMA PairedReturns ==
  ASSUME NEW ps, NEW s, IsStack(s), NEW r \in BOOLEAN
  PROVE  /\ Paired(ps, s, r) => Paired(ps, s, TRUE)
         /\ Paired(ps, s, FALSE) /\ s # <<>> => ~IsAside(ps, s[1])
         /\ Paired(ps, s, TRUE) /\ (s # <<>> => ~IsAside(ps, s[1])) => Paired(ps, s, r)
         /\ Paired(ps, s, FALSE) => Paired(ps, s, r)
<1>1. Len(s) \in Nat /\ (s # <<>> <=> 1 \in 1 .. Len(s))
  BY DEF IsStack
<1>2. \A i \in 1 .. Len(s) : s # <<>>
  BY <1>1
<1>3. Paired(ps, s, r) => Paired(ps, s, TRUE)
  BY DEF Paired
<1>4. Paired(ps, s, FALSE) /\ s # <<>> => ~IsAside(ps, s[1])
  BY <1>1 DEF Paired
<1>5. Paired(ps, s, TRUE) /\ (s # <<>> => ~IsAside(ps, s[1])) => Paired(ps, s, r)
  BY <1>2 DEF Paired
<1>6. Paired(ps, s, FALSE) => Paired(ps, s, r)
  BY DEF Paired
<1> QED
  BY <1>3, <1>4, <1>5, <1>6

LEMMA UnderPushed ==
  ASSUME NEW x, NEW s, IsStack(s), NEW u, u = <<x>> \o s, NEW a, NEW b, NEW c
  PROVE  Under(a, b, c, u) <=> (IsRaised(x) => Covered(a, b, c)) /\ Under(b, c, x, s)
<1>1. Len(s) \in Nat /\ s \in Seq(Range(s))
  BY Stacks DEF IsStack
<1>2. /\ Len(u) = Len(s) + 1 /\ u[1] = x
      /\ \A j \in 2 .. Len(u) : j - 1 \in 1 .. Len(s) /\ u[j] = s[j - 1]
  BY <1>1, Pushed
<1> DEFINE AtU(j) ==
             IsRaised(u[j]) =>
               Covered(IF j > 3 THEN u[j - 3] ELSE IF j = 3 THEN c ELSE IF j = 2 THEN b ELSE a,
                       IF j > 2 THEN u[j - 2] ELSE IF j = 2 THEN c ELSE b,
                       IF j > 1 THEN u[j - 1] ELSE c)
           AtS(i) ==
             IsRaised(s[i]) =>
               Covered(IF i > 3 THEN s[i - 3] ELSE IF i = 3 THEN x ELSE IF i = 2 THEN c ELSE b,
                       IF i > 2 THEN s[i - 2] ELSE IF i = 2 THEN x ELSE c,
                       IF i > 1 THEN s[i - 1] ELSE x)
<1>3. AtU(1) <=> (IsRaised(x) => Covered(a, b, c))
  BY <1>2
<1>4. ASSUME NEW j \in 2 .. Len(u)
      PROVE  AtU(j) <=> AtS(j - 1)
  <2>1. j \in Nat /\ j >= 2 /\ j <= Len(u) /\ u[j] = s[j - 1]
    BY <1>1, <1>2
  <2>2. u[j - 1] = IF j - 1 > 1 THEN s[j - 1 - 1] ELSE x
    <3>1. CASE j = 2
      BY <1>2, <3>1
    <3>2. CASE j > 2
      <4>1. j - 1 \in 2 .. Len(u)
        BY <1>1, <1>2, <2>1, <3>2
      <4> QED
        BY <1>2, <2>1, <3>2, <4>1
    <3> QED
      BY <2>1, <3>1, <3>2
  <2>3. j > 2 => u[j - 2] = IF j - 1 > 2 THEN s[j - 1 - 2] ELSE x
    <3>1. CASE j = 3
      BY <1>2, <3>1
    <3>2. CASE j > 3
      <4>1. j - 2 \in 2 .. Len(u) /\ j - 2 - 1 = j - 1 - 2 /\ j - 1 > 2
        BY <1>1, <1>2, <2>1, <3>2
      <4>2. u[j - 2] = s[j - 2 - 1]
        BY <1>2, <4>1
      <4> QED
        BY <4>1, <4>2
    <3> QED
      BY <2>1, <3>1, <3>2
  <2>4. j > 3 => u[j - 3] = IF j - 1 > 3 THEN s[j - 1 - 3] ELSE x
    <3>1. CASE j = 4
      BY <1>2, <3>1
    <3>2. CASE j > 4
      <4>1. j - 3 \in 2 .. Len(u) /\ j - 3 - 1 = j - 1 - 3 /\ j - 1 > 3
        BY <1>1, <1>2, <2>1, <3>2
      <4>2. u[j - 3] = s[j - 3 - 1]
        BY <1>2, <4>1
      <4> QED
        BY <4>1, <4>2
    <3> QED
      BY <2>1, <3>1, <3>2
  <2>5. (IF j > 1 THEN u[j - 1] ELSE c) = IF j - 1 > 1 THEN s[j - 1 - 1] ELSE x
    BY <2>1, <2>2
  <2>6. (IF j > 2 THEN u[j - 2] ELSE IF j = 2 THEN c ELSE b)
          = IF j - 1 > 2 THEN s[j - 1 - 2] ELSE IF j - 1 = 2 THEN x ELSE c
    BY <2>1, <2>3
  <2>7. (IF j > 3 THEN u[j - 3] ELSE IF j = 3 THEN c ELSE IF j = 2 THEN b ELSE a)
          = IF j - 1 > 3 THEN s[j - 1 - 3] ELSE IF j - 1 = 3 THEN x ELSE IF j - 1 = 2 THEN c ELSE b
    BY <2>1, <2>4
  <2> QED
    BY <2>1, <2>5, <2>6, <2>7
<1>5. \A j : j \in 1 .. Len(u) <=> j = 1 \/ j \in 2 .. Len(u)
  BY <1>1, <1>2
<1>6. \A j \in 2 .. Len(u) : j - 1 \in 1 .. Len(s)
  BY <1>1, <1>2
<1>7. \A i \in 1 .. Len(s) : i + 1 \in 2 .. Len(u) /\ (i + 1) - 1 = i
  BY <1>1, <1>2
<1> HIDE DEF AtU, AtS
<1>8. (\A j \in 1 .. Len(u) : AtU(j)) <=> AtU(1) /\ \A i \in 1 .. Len(s) : AtS(i)
  <2>1. ASSUME \A j \in 2 .. Len(u) : AtU(j), NEW i \in 1 .. Len(s)
        PROVE  AtS(i)
    <3>1. AtS((i + 1) - 1)
      BY <1>4, <1>7, <2>1
    <3> QED
      BY <1>7, <3>1
  <2>2. ASSUME \A i \in 1 .. Len(s) : AtS(i), NEW j \in 2 .. Len(u)
        PROVE  AtU(j)
    BY <1>4, <1>6, <2>2
  <2>3. (\A j \in 1 .. Len(u) : AtU(j)) <=> AtU(1) /\ \A j \in 2 .. Len(u) : AtU(j)
    BY <1>5, Zenon
  <2> QED
    BY <2>1, <2>2, <2>3, Zenon
<1>9. Under(a, b, c, u) <=> \A j \in 1 .. Len(u) : AtU(j)
  BY Zenon DEF Under, AtU
<1>10. Under(b, c, x, s) <=> \A i \in 1 .. Len(s) : AtS(i)
  BY Zenon DEF Under, AtS
<1> QED
  BY <1>3, <1>8, <1>9, <1>10, Zenon

(* The frames above a stack are changed. *)
LEMMA UnderChanged ==
  ASSUME NEW s, IsStack(s), NEW a, NEW b, NEW c, NEW d, NEW e, NEW f, Under(a, b, c, s),
         Covered(a, b, c) => Covered(d, e, f),
         \A x : Covered(b, c, x) => Covered(e, f, x),
         \A x, y : Covered(c, x, y) => Covered(f, x, y)
  PROVE  Under(d, e, f, s)
<1>1. ASSUME NEW i \in 1 .. Len(s), IsRaised(s[i])
      PROVE  Covered(IF i > 3 THEN s[i - 3] ELSE IF i = 3 THEN f ELSE IF i = 2 THEN e ELSE d,
                     IF i > 2 THEN s[i - 2] ELSE IF i = 2 THEN f ELSE e,
                     IF i > 1 THEN s[i - 1] ELSE f)
  <2>1. Covered(IF i > 3 THEN s[i - 3] ELSE IF i = 3 THEN c ELSE IF i = 2 THEN b ELSE a,
                IF i > 2 THEN s[i - 2] ELSE IF i = 2 THEN c ELSE b,
                IF i > 1 THEN s[i - 1] ELSE c)
    BY <1>1 DEF Under
  <2>2. CASE i = 1
    BY <2>1, <2>2
  <2>3. CASE i = 2
    BY <2>1, <2>3
  <2>4. CASE i = 3
    BY <2>1, <2>4
  <2>5. CASE i > 3
    BY <2>1, <2>5
  <2>6. i \in Nat /\ i # 0
    OBVIOUS
  <2> QED
    BY <2>2, <2>3, <2>4, <2>5, <2>6
<1> QED
  BY <1>1 DEF Under

-----------------------------------------------------------------------------
(* What does not change where a point is made.                             *)

LEMMA FramesGrown ==
  ASSUME NEW ps, NEW qs, Grown(ps, qs), NEW s, NEW r \in BOOLEAN, Frames(ps, s, r)
  PROVE  Frames(qs, s, r)
<1>1. Len(ps) \in Nat /\ Len(qs) = Len(ps) + 1 /\ \A q \in 1 .. Len(ps) : qs[q] = ps[q]
  BY TreePoint DEF Grown
<1>2. \A q \in 2 .. Len(ps) : q \in 2 .. Len(qs) /\ qs[q] = ps[q]
  BY <1>1
<1>3. ASSUME NEW x, NEW y \in BOOLEAN, IsFrame(ps, x, y)
      PROVE  IsFrame(qs, x, y)
  BY <1>2, <1>3 DEF IsFrame
<1> QED
  BY <1>3 DEF Frames

LEMMA PairedGrown ==
  ASSUME NEW ps, NEW qs, Grown(ps, qs), NEW s, NEW d \in BOOLEAN, NEW r \in BOOLEAN,
         Frames(ps, s, d), Paired(ps, s, r)
  PROVE  Paired(qs, s, r)
<1>1. Len(ps) \in Nat /\ \A q \in 1 .. Len(ps) : qs[q] = ps[q]
  BY TreePoint DEF Grown
<1>2. ASSUME NEW i \in 1 .. Len(s)
      PROVE  IsAside(qs, s[i]) <=> IsAside(ps, s[i])
  <2>1. s[i].f = "inside" => s[i].point \in 2 .. Len(ps)
    BY DEF Frames, IsFrame
  <2>2. s[i].f = "inside" => qs[s[i].point] = ps[s[i].point]
    BY <1>1, <2>1
  <2> QED
    BY <2>2 DEF IsAside
<1>3. ASSUME NEW i \in 1 .. Len(s)
      PROVE  /\ s[i].f = "handling" => i < Len(s) /\ IsAside(qs, s[i + 1])
             /\ IsAside(qs, s[i]) => IF i = 1 THEN r ELSE s[i - 1].f = "handling"
  <2>1. /\ s[i].f = "handling" => i < Len(s) /\ IsAside(ps, s[i + 1])
        /\ IsAside(ps, s[i]) => IF i = 1 THEN r ELSE s[i - 1].f = "handling"
    BY DEF Paired
  <2>2. s[i].f = "handling" => i + 1 \in 1 .. Len(s)
    <3>1. i < Len(s) /\ Len(s) \in Int => i + 1 \in 1 .. Len(s)
      OBVIOUS
    <3>2. CASE Len(s) \in Int
      BY <2>1, <3>1, <3>2
    <3>3. CASE Len(s) \notin Int
      BY <3>3, <2>1
    <3> QED
      BY <3>2, <3>3
  <2> QED
    BY <1>2, <2>1, <2>2
<1> QED
  BY <1>3 DEF Paired

LEMMA ContinuationGrown ==
  ASSUME NEW ps, NEW qs, Grown(ps, qs), NEW k, IsContinuation(ps, k)
  PROVE  IsContinuation(qs, k)
<1>1. Len(ps) \in Nat /\ Len(qs) = Len(ps) + 1
  BY TreePoint DEF Grown
<1>2. k.point \in 1 .. Len(ps) /\ k.point \in 1 .. Len(qs)
  BY <1>1 DEF IsContinuation
<1>3. PathIn(qs, k.point) = PathIn(ps, k.point)
  BY <1>2, PathGrown
<1>4. Frames(qs, k.stack, FALSE) /\ Paired(qs, k.stack, FALSE)
  <2>1. Frames(ps, k.stack, FALSE) /\ Paired(ps, k.stack, FALSE)
    BY Zenon DEF IsContinuation
  <2>2. FALSE \in BOOLEAN
    OBVIOUS
  <2> QED
    BY <2>1, <2>2, FramesGrown, PairedGrown
<1>6. Nested(qs, k.stack, PathIn(qs, k.point), <<>>)
  <2> DEFINE s == k.stack
             e == PathIn(ps, k.point)
  <2>1. IsStack(s) /\ Nested(ps, s, e, <<>>)
    BY Zenon DEF IsContinuation
  <2>2. e \in Seq(2 .. Len(ps))
    BY <1>2, PathType DEF Grown
  <2> HIDE DEF s, e
  <2>4. Len(s) \in Nat
    BY <2>1, Stacks DEF IsStack
  <2>5. Nested(qs, s, e, <<>>)
    BY <2>1, <2>2, <2>4, NestedGrown
  <2> QED
    BY <1>3, <2>5 DEF s, e
<1>5. Scoped(qs, PathIn(qs, k.point))
  BY <1>3, ScopedGrown DEF IsContinuation
<1> QED
  BY <1>2, <1>4, <1>5, <1>6 DEF IsContinuation

LEMMA ChainGrown ==
  ASSUME NEW ps, NEW qs, Grown(ps, qs), NEW s, NEW q, Chain(ps, s, q)
  PROVE  Chain(qs, s, q)
<1>1. /\ Len(ps) \in Nat /\ Len(qs) = Len(ps) + 1
      /\ \A p \in 1 .. Len(ps) : qs[p] = ps[p] /\ p \in 1 .. Len(qs)
      /\ \A p \in 2 .. Len(ps) : qs[p] = ps[p] /\ p \in 2 .. Len(qs)
  BY TreePoint DEF Grown
<1>2. Len(s) \in Nat \ {0}
  BY DEF Chain, IsStack
<1>3. ASSUME NEW i \in 1 .. Len(s)
      PROVE  Destination(qs, s[i]) = Destination(ps, s[i])
  <2>1. CASE i = Len(s)
    BY <2>1 DEF Destination, Chain
  <2>2. CASE i # Len(s)
    <3>1. i \in 1 .. Len(s) - 1
      BY <1>2, <2>2
    <3>2. s[i].f = "enter" /\ s[i].to \in 2 .. Len(ps)
      BY <3>1 DEF Chain
    <3> QED
      BY <1>1, <3>2 DEF Destination
  <2> QED
    BY <2>1, <2>2
<1>4. q = Destination(qs, s[1])
  BY <1>2, <1>3 DEF Chain
<1>5. IsContinuation(qs, s[Len(s)].continuation)
  BY ContinuationGrown DEF Chain
<1>6. ASSUME NEW i \in 1 .. Len(s) - 1
      PROVE  s[i].f = "enter" /\ s[i].to \in 2 .. Len(qs) /\ s[i].to = Destination(qs, s[i + 1])
  <2>1. s[i].f = "enter" /\ s[i].to \in 2 .. Len(ps) /\ s[i].to = Destination(ps, s[i + 1])
    BY DEF Chain
  <2>2. i + 1 \in 1 .. Len(s)
    BY <1>2
  <2> QED
    BY <1>1, <1>3, <2>1, <2>2
<1>7. ASSUME NEW i \in 1 .. Len(s)
      PROVE  /\ Destination(qs, s[i]) \in 1 .. Len(qs)
             /\ Scoped(qs, PathIn(qs, Destination(qs, s[i])))
  <2>1. Destination(ps, s[i]) \in 1 .. Len(ps) /\ Scoped(ps, PathIn(ps, Destination(ps, s[i])))
    BY DEF Chain
  <2>2. PathIn(qs, Destination(ps, s[i])) = PathIn(ps, Destination(ps, s[i]))
    BY <2>1, PathGrown
  <2>3. Scoped(qs, PathIn(ps, Destination(ps, s[i])))
    BY <2>1, ScopedGrown
  <2> QED
    BY <1>1, <1>3, <2>1, <2>2, <2>3
<1> QED
  BY <1>4, <1>5, <1>6, <1>7 DEF Chain

-----------------------------------------------------------------------------
(* Travels. *)

LEMMA FirstOf ==
  ASSUME NEW n \in Nat \ {0}, n # 1
  PROVE  1 \in 1 .. n - 1 /\ n - 1 # 0
OBVIOUS

LEMMA ChainTop ==
  ASSUME NEW ps, NEW s, NEW q, Chain(ps, s, q)
  PROVE  /\ q \in 1 .. Len(ps) /\ Scoped(ps, PathIn(ps, q))
         /\ s # <<>> /\ IsStack(s) /\ Len(s) \in Nat \ {0}
         /\ \A i \in 1 .. Len(s) : s[i].f \in {"enter", "jump"}
         /\ s[1].f = "enter" =>
              /\ s[1].to \in 2 .. Len(ps) /\ q = ps[s[1].to].parent
              /\ Chain(ps, Tail(s), s[1].to)
         /\ s[1].f = "jump" =>
              /\ q = s[1].continuation.point
              /\ IsContinuation(ps, s[1].continuation)
<1>1. Len(s) \in Nat \ {0} /\ s # <<>> /\ s \in Seq(Range(s))
  BY DEF Chain, IsStack
<1>2. q \in 1 .. Len(ps) /\ Scoped(ps, PathIn(ps, q))
  <2>1. 1 \in 1 .. Len(s)
    BY <1>1
  <2> QED
    BY <2>1 DEF Chain
<1>3. \A i \in 1 .. Len(s) : s[i].f \in {"enter", "jump"}
  <2>1. \A i \in 1 .. Len(s) : i = Len(s) \/ i \in 1 .. Len(s) - 1
    BY <1>1
  <2> QED
    BY <2>1 DEF Chain
<1>4. ASSUME s[1].f = "enter"
      PROVE  /\ s[1].to \in 2 .. Len(ps) /\ q = ps[s[1].to].parent
             /\ Chain(ps, Tail(s), s[1].to)
  <2>1. Len(s) # 1
    BY <1>4 DEF Chain
  <2>2. s[1].to \in 2 .. Len(ps) /\ s[1].to = Destination(ps, s[2])
    <3>1. 1 \in 1 .. Len(s) - 1
      BY <1>1, <2>1, FirstOf
    <3>2. 1 + 1 = 2
      OBVIOUS
    <3> QED
      BY <3>1, <3>2 DEF Chain
  <2>3. q = ps[s[1].to].parent
    BY <1>4 DEF Chain, Destination
  <2>4. /\ Tail(s) \in Seq(Range(s)) /\ Len(Tail(s)) = Len(s) - 1
        /\ \A i \in 1 .. Len(Tail(s)) : Tail(s)[i] = s[i + 1]
    BY <1>1, HeadTailProperties
  <2> DEFINE w == Tail(s)
  <2>5. w # <<>> /\ IsStack(w) /\ Len(w) = Len(s) - 1 /\ \A i \in 1 .. Len(w) : w[i] = s[i + 1]
    <3>1. IsStack(w)
      BY <2>4, SeqOfRange DEF IsStack
    <3>2. Len(w) # 0
      BY <1>1, <2>1, <2>4, FirstOf
    <3>3. w # <<>>
      <4> HIDE DEF w
      <4> QED
        BY <3>2, EmptyStack
    <3> QED
      BY <2>4, <3>1, <3>3
  <2> HIDE DEF w
  <2>6. Len(w) \in Nat \ {0} /\ Len(w) + 1 = Len(s)
    BY <1>1, <2>1, <2>5
  <2>7. w[1] = s[2] /\ w[Len(w)] = s[Len(s)]
    BY <2>5, <2>6
  <2>8. ASSUME NEW i \in 1 .. Len(w) - 1
        PROVE  w[i].f = "enter" /\ w[i].to \in 2 .. Len(ps) /\ w[i].to = Destination(ps, w[i + 1])
    <3>1. i + 1 \in 1 .. Len(s) - 1 /\ i \in 1 .. Len(w) /\ i + 1 \in 1 .. Len(w)
      BY <2>6
    <3>2. w[i] = s[i + 1] /\ w[i + 1] = s[i + 1 + 1]
      BY <2>5, <3>1
    <3> QED
      BY <3>1, <3>2 DEF Chain
  <2>9. ASSUME NEW i \in 1 .. Len(w)
        PROVE  /\ Destination(ps, w[i]) \in 1 .. Len(ps)
               /\ Scoped(ps, PathIn(ps, Destination(ps, w[i])))
    <3>1. i + 1 \in 1 .. Len(s) /\ w[i] = s[i + 1]
      BY <2>5, <2>6
    <3> QED
      BY <3>1 DEF Chain
  <2>10. w[Len(w)].f = "jump" /\ IsContinuation(ps, w[Len(w)].continuation)
    BY <2>7 DEF Chain
  <2>11. s[1].to = Destination(ps, w[1])
    BY <2>2, <2>7
  <2>12. Chain(ps, w, s[1].to)
    BY <2>5, <2>8, <2>9, <2>10, <2>11 DEF Chain
  <2> QED
    BY <2>2, <2>3, <2>12 DEF w
<1>5. ASSUME s[1].f = "jump"
      PROVE  q = s[1].continuation.point /\ IsContinuation(ps, s[1].continuation)
  <2>1. Len(s) = 1
    <3>1. Len(s) # 1 => 1 \in 1 .. Len(s) - 1
      BY <1>1, FirstOf
    <3> QED
      BY <1>5, <3>1 DEF Chain
  <2> QED
    BY <1>5, <2>1 DEF Chain, Destination
<1>6. IsStack(s)
  BY DEF Chain
<1> QED
  BY <1>1, <1>2, <1>3, <1>4, <1>5, <1>6

LEMMA ChainPushed ==
  ASSUME NEW ps, IsTree(ps), NEW s, NEW q \in 2 .. Len(ps), Chain(ps, s, q)
  PROVE  Chain(ps, <<Enter(q)>> \o s, ps[q].parent)
<1> DEFINE u == <<Enter(q)>> \o s
           p == ps[q].parent
<1>1. s # <<>> /\ IsStack(s) /\ Len(s) \in Nat \ {0} /\ s \in Seq(Range(s))
  BY ChainTop DEF IsStack
<1>2. /\ u # <<>> /\ Len(u) = Len(s) + 1 /\ u[1] = Enter(q)
      /\ \A i \in 1 .. Len(s) : u[i + 1] = s[i]
      /\ \A j \in 2 .. Len(u) : j - 1 \in 1 .. Len(s) /\ u[j] = s[j - 1]
  BY <1>1, Pushed
<1>3. IsStack(u)
  BY <1>1, Stacks
<1> HIDE DEF u
<1>4. Enter(q).f = "enter" /\ Enter(q).to = q
  BY DEF Enter
<1>5. Destination(ps, u[1]) = p /\ q = Destination(ps, s[1])
  BY <1>2, <1>4 DEF Destination, Chain
<1>6. p \in 1 .. Len(ps) /\ Scoped(ps, PathIn(ps, p))
  <2>1. q \in 1 .. Len(ps) /\ q # Root
    BY TreePoint DEF Root
  <2>2. p \in 1 .. Len(ps)
    BY <2>1, TreePoint
  <2>3. PathIn(ps, q) = Append(PathIn(ps, p), q)
    BY PathStep
  <2>4. PathIn(ps, p) \in Seq(Nat) /\ q \in Nat
    <3>1. PathIn(ps, p) \in Seq(2 .. Len(ps))
      BY <2>2, PathType
    <3>2. 2 .. Len(ps) \subseteq Nat
      BY TreePoint
    <3> QED
      BY <3>1, <3>2, SeqMonotonic
  <2>5. Scoped(ps, PathIn(ps, q))
    BY ChainTop
  <2> QED
    BY <2>2, <2>3, <2>4, <2>5, ScopedAppend
<1>7. ASSUME NEW i \in 1 .. Len(u) - 1
      PROVE  u[i].f = "enter" /\ u[i].to \in 2 .. Len(ps) /\ u[i].to = Destination(ps, u[i + 1])
  <2>1. CASE i = 1
    <3>1. u[1 + 1] = s[1]
      BY <1>1, <1>2
    <3> QED
      BY <1>2, <1>4, <1>5, <2>1, <3>1
  <2>2. CASE i # 1
    <3>1. i - 1 \in 1 .. Len(s) - 1 /\ i \in 2 .. Len(u) /\ i + 1 \in 2 .. Len(u)
          /\ i + 1 - 1 = (i - 1) + 1
      BY <1>1, <1>2, <2>2
    <3>2. u[i] = s[i - 1] /\ u[i + 1] = s[(i - 1) + 1]
      BY <1>2, <3>1
    <3> QED
      BY <3>1, <3>2 DEF Chain
  <2> QED
    BY <2>1, <2>2
<1>8. ASSUME NEW i \in 1 .. Len(u)
      PROVE  Destination(ps, u[i]) \in 1 .. Len(ps) /\ Scoped(ps, PathIn(ps, Destination(ps, u[i])))
  <2>1. CASE i = 1
    BY <1>5, <1>6, <2>1
  <2>2. CASE i # 1
    <3>1. i - 1 \in 1 .. Len(s) /\ u[i] = s[i - 1]
      BY <1>1, <1>2, <2>2
    <3> QED
      BY <3>1 DEF Chain
  <2> QED
    BY <2>1, <2>2
<1>9. u[Len(u)].f = "jump" /\ IsContinuation(ps, u[Len(u)].continuation)
  <2>1. u[Len(u)] = s[Len(s)]
    BY <1>1, <1>2
  <2> QED
    BY <2>1 DEF Chain
<1> QED
  BY <1>2, <1>3, <1>5, <1>7, <1>8, <1>9 DEF Chain, u

LEMMA ChainJump ==
  ASSUME NEW ps, NEW k, IsContinuation(ps, k)
  PROVE  Chain(ps, <<Jump(k)>>, k.point)
<1>1. Jump(k).f = "jump" /\ Jump(k).continuation = k
  BY DEF Jump
<1>2. <<Jump(k)>> # <<>> /\ IsStack(<<Jump(k)>>) /\ Len(<<Jump(k)>>) = 1 /\ <<Jump(k)>>[1] = Jump(k)
  BY EmptyStack
<1>3. Destination(ps, Jump(k)) = k.point
  BY <1>1 DEF Destination
<1>4. k.point \in 1 .. Len(ps) /\ Scoped(ps, PathIn(ps, k.point))
  BY DEF IsContinuation
<1>5. 1 .. 1 - 1 = {} /\ \A i \in 1 .. 1 : i = 1
  OBVIOUS
<1> QED
  BY <1>1, <1>2, <1>3, <1>4, <1>5 DEF Chain

(* Frames of a travel ask nothing of a stack. *)
Plain(s) == \A i \in 1 .. Len(s) : s[i].f \in {"enter", "jump", "entered", "leave"}

LEMMA PlainStack ==
  ASSUME NEW s, Plain(s), NEW ps, NEW r \in BOOLEAN
  PROVE  /\ Frames(ps, s, r) /\ Paired(ps, s, r)
         /\ \A a, b, c : Under(a, b, c, s)
<1>1. \A i \in 1 .. Len(s) : s[i].f \notin {"inside", "handling", "raised", "entering"}
  BY DEF Plain
<1>2. Frames(ps, s, r)
  BY <1>1 DEF Frames, IsFrame
<1>3. Paired(ps, s, r)
  BY <1>1 DEF Paired, IsAside
<1>4. \A a, b, c : Under(a, b, c, s)
  BY <1>1 DEF Under, IsRaised
<1> QED
  BY <1>2, <1>3, <1>4

-----------------------------------------------------------------------------
(* Extents and values. *)

LEMMA ExtentType ==
  ASSUME NEW ps, IsTree(ps), NEW e, Scoped(ps, e)
  PROVE  e \in Seq(2 .. Len(ps)) /\ e \in Seq(Nat)
<1>1. e \in Seq(2 .. Len(ps))
  BY DEF Scoped
<1>2. 2 .. Len(ps) \subseteq Nat
  BY TreePoint
<1> QED
  BY <1>1, <1>2, SeqMonotonic

LEMMA PathExtent ==
  ASSUME NEW ps, IsTree(ps), NEW p \in 1 .. Len(ps)
  PROVE  PathIn(ps, p) \in Seq(2 .. Len(ps)) /\ PathIn(ps, p) \in Seq(Nat)
<1>1. PathIn(ps, p) \in Seq(2 .. Len(ps))
  BY PathType
<1>2. 2 .. Len(ps) \subseteq Nat
  BY TreePoint
<1> QED
  BY <1>1, <1>2, SeqMonotonic

(* A path ends in its point. *)
LEMMA PathEnds ==
  ASSUME NEW ps, IsTree(ps), NEW p \in 1 .. Len(ps), NEW e \in Seq(Nat), NEW q \in Nat,
         PathIn(ps, p) = Append(e, q)
  PROVE  p = q /\ q \in 2 .. Len(ps) /\ e = PathIn(ps, ps[q].parent)
<1>1. p # Root
  <2>1. PathIn(ps, Root) = <<>>
    BY PathStep
  <2>2. Append(e, q) # <<>>
    <3>2. Len(Append(e, q)) = Len(e) + 1 /\ Len(e) \in Nat
      BY AppendProperties
    <3> HIDE DEF Root
    <3>3. Len(Append(e, q)) # 0
      BY <3>2
    <3> QED
      BY <3>3, EmptyStack
  <2> QED
    BY <2>1, <2>2
<1>2. p \in 2 .. Len(ps) /\ ps[p].parent \in 1 .. Len(ps)
  BY <1>1, TreePoint
<1>3. PathIn(ps, p) = Append(PathIn(ps, ps[p].parent), p)
  BY <1>2, PathStep
<1> DEFINE d == PathIn(ps, ps[p].parent)
<1>4. d \in Seq(Nat) /\ p \in Nat
  BY <1>2, PathExtent, TreePoint
<1>5. Append(e, q) = Append(d, p)
  BY <1>3
<1> HIDE DEF d
<1>6. e = d /\ q = p
  BY <1>4, <1>5, AppendInjective
<1> QED
  BY <1>2, <1>6 DEF d

LEMMA WithoutLast ==
  ASSUME NEW e \in Seq(Nat), NEW p \in Nat
  PROVE  /\ Without(Append(e, p), p) = e
         /\ Append(e, p) # <<>> /\ Last(Append(e, p)) = p
<1> DEFINE a == Append(e, p)
           places == {i \in DOMAIN a : a[i] = p}
           n == Len(e) + 1
<1>1. /\ a \in Seq(Nat) /\ Len(a) = n /\ Len(e) \in Nat /\ a[n] = p /\ DOMAIN a = 1 .. n
      /\ \A i \in 1 .. Len(e) : a[i] = e[i]
  BY AppendProperties
<1> HIDE DEF a
<1>2. n \in places /\ places \subseteq 1 .. n /\ n \in Nat
  BY <1>1
<1>3. Max(places) = n
  <2>1. Max(places) \in places /\ \A x \in places : x <= Max(places)
    <3> HIDE DEF places, n
    <3> QED
      BY <1>2, GreatestOf
  <2> DEFINE m == Max(places)
  <2>2. m \in 1 .. n /\ n <= m
    BY <1>2, <2>1
  <2> HIDE DEF m
  <2>3. m = n
    BY <1>2, <2>2
  <2> QED
    BY <2>3 DEF m
<1>4. RemoveAt(a, n) = e
  <2>1. RemoveAt(a, n) = SubSeq(a, 1, n - 1) \o SubSeq(a, n + 1, Len(a))
    BY DEF RemoveAt
  <2>2. SubSeq(a, 1, n - 1) = e
    <3>1. SubSeq(a, 1, Len(a) - 1) = e
      BY FrontOf DEF a
    <3> QED
      BY <1>1, <3>1
  <2>3. SubSeq(a, n + 1, Len(a)) = <<>>
    <3>1. n + 1 > Len(a) /\ n + 1 \in Nat /\ Len(a) \in Nat
      BY <1>1
    <3> QED
      BY <1>1, <3>1, SubSeqEmpty
  <2> QED
    BY <2>1, <2>2, <2>3, ConcatEmptySeq
<1>5. Without(a, p) = e
  <2>1. Without(a, p) = IF places = {} THEN a ELSE RemoveAt(a, Max(places))
    BY Zenon DEF Without
  <2>2. places # {}
    BY <1>2
  <2> HIDE DEF places
  <2> QED
    BY <1>3, <1>4, <2>1, <2>2, Zenon
<1>6. a # <<>>
  BY <1>1, EmptyStack
<1>7. Last(a) = p
  BY <1>1 DEF Last
<1> QED
  BY <1>5, <1>6, <1>7 DEF a

LEMMA ValueEntered ==
  ASSUME NEW v, NEW ps, IsTree(ps), NEW e \in Seq(Nat), NEW q \in 2 .. Len(ps),
         ValuesAre(v, ps, e)
  PROVE  LET bind == ps[q].bind
         IN /\ bind = <<>> => ValuesAre(v, ps, Append(e, q))
            /\ bind # <<>> =>
                 ValuesAre([v EXCEPT ![bind[1]] = Given(bind, q)], ps, Append(e, q))
<1> DEFINE bind == ps[q].bind
           a == Append(e, q)
<1>1. bind \in Binds /\ q \in Nat
  <2>1. q \in 1 .. Len(ps) /\ q \in Nat
    BY TreePoint
  <2> QED
    BY <2>1, TreePoint
<1>2. v \in [Parameter -> Nat] /\ \A p \in Parameter : v[p] = BoundIn(ps, e, p)
  BY DEF ValuesAre
<1>3. \A p : BoundIn(ps, a, p) = IF Of(bind, p) THEN Given(bind, q) ELSE BoundIn(ps, e, p)
  BY <1>1, BoundAppend
<1> HIDE DEF bind, a
<1>4. CASE bind = <<>>
  <2>1. \A p \in Parameter : ~Of(bind, p)
    BY <1>4 DEF Of
  <2>2. ValuesAre(v, ps, a)
    BY <1>2, <1>3, <2>1 DEF ValuesAre
  <2> QED
    BY <1>4, <2>2 DEF bind, a
<1>5. CASE bind # <<>>
  <2> DEFINE c == Given(bind, q)
             w == [v EXCEPT ![bind[1]] = c]
  <2>1. bind[1] \in Parameter /\ c \in Nat
    BY <1>1, <1>5, BindType
  <2> HIDE DEF c
  <2>3. w \in [Parameter -> Nat] /\ \A p \in Parameter : w[p] = IF bind[1] = p THEN c ELSE v[p]
    BY <1>2, <2>1
  <2> HIDE DEF w
  <2>4. \A p \in Parameter : Of(bind, p) <=> bind[1] = p
    BY <1>5 DEF Of
  <2>5. \A p \in Parameter : w[p] = BoundIn(ps, a, p)
    BY <1>2, <1>3, <2>1, <2>3, <2>4 DEF c
  <2>6. ValuesAre(w, ps, a)
    BY <2>3, <2>5 DEF ValuesAre
  <2> QED
    BY <1>5, <2>6 DEF w, c, bind, a
<1> QED
  BY <1>4, <1>5

LEMMA ValueLeaving ==
  ASSUME NEW v, NEW ps, IsTree(ps), NEW e \in Seq(Nat), NEW q \in 2 .. Len(ps),
         ValuesAre(v, ps, Append(e, q)), Restores(ps, ps[q].bind, e)
  PROVE  LET bind == ps[q].bind
         IN /\ bind = <<>> => ValuesAre(v, ps, e)
            /\ bind # <<>> =>
                 ValuesAre([v EXCEPT ![bind[1]] = bind[3]], ps, e)
<1> DEFINE bind == ps[q].bind
<1>1. bind \in Binds /\ q \in Nat
  <2>1. q \in 1 .. Len(ps) /\ q \in Nat
    BY TreePoint
  <2> QED
    BY <2>1, TreePoint
<1>2. v \in [Parameter -> Nat]
  BY DEF ValuesAre
<1>3. ASSUME NEW p \in Parameter, ~Of(bind, p)
      PROVE  v[p] = BoundIn(ps, e, p)
  <2>1. v[p] = BoundIn(ps, Append(e, q), p)
    BY DEF ValuesAre
  <2> QED
    BY <1>1, <1>3, <2>1, BoundAppend
<1> HIDE DEF bind
<1>4. CASE bind = <<>>
  <2>1. \A p \in Parameter : ~Of(bind, p)
    BY <1>4 DEF Of
  <2>2. ValuesAre(v, ps, e)
    BY <1>2, <1>3, <2>1 DEF ValuesAre
  <2> QED
    BY <1>4, <2>2 DEF bind
<1>5. CASE bind # <<>>
  <2> DEFINE c == bind[3]
             w == [v EXCEPT ![bind[1]] = c]
  <2>1. bind[1] \in Parameter /\ bind[3] \in Nat /\ c = BoundIn(ps, e, bind[1])
    BY <1>1, <1>5, BindType DEF Restores, bind
  <2>2. c \in Nat
    BY <2>1
  <2> HIDE DEF c
  <2>3. w \in [Parameter -> Nat] /\ \A p \in Parameter : w[p] = IF bind[1] = p THEN c ELSE v[p]
    BY <1>2, <2>1, <2>2
  <2> HIDE DEF w
  <2>4. \A p \in Parameter : Of(bind, p) <=> bind[1] = p
    BY <1>5 DEF Of
  <2>5. \A p \in Parameter : w[p] = BoundIn(ps, e, p)
    BY <1>3, <2>1, <2>3, <2>4
  <2>6. ValuesAre(w, ps, e)
    BY <2>3, <2>5 DEF ValuesAre
  <2> QED
    BY <1>5, <2>6 DEF w, c, bind
<1> QED
  BY <1>4, <1>5

LEMMA ValueGrown ==
  ASSUME NEW ps, NEW qs, Grown(ps, qs), NEW v, NEW e \in Seq(2 .. Len(ps)),
         ValuesAre(v, ps, e)
  PROVE  ValuesAre(v, qs, e)
<1>1. \A p \in Parameter : BoundIn(qs, e, p) = BoundIn(ps, e, p)
  BY BoundGrown
<1> QED
  BY <1>1 DEF ValuesAre

-----------------------------------------------------------------------------
(* What the invariant says where a procedure runs, and where one returns.  *)

LEMMA AtRun ==
  ASSUME IInv, at = "run"
  PROVE  /\ Running
         /\ IsStack(stack) /\ Frames(points, stack, FALSE) /\ Paired(points, stack, TRUE)
         /\ stack # <<>> => ~IsAside(points, stack[1])
         /\ Shielded(stack)
         /\ ValuesAre(value, points, extent)
<1>1. (at = "return") = FALSE
  OBVIOUS
<1>2. /\ IsStack(stack) /\ Shielded(stack)
      /\ Frames(points, stack, FALSE) /\ Paired(points, stack, FALSE)
  BY <1>1 DEF IInv, StackInv
<1>3. Paired(points, stack, TRUE) /\ (stack # <<>> => ~IsAside(points, stack[1]))
  BY <1>2, PairedReturns
<1>5. ValuesAre(value, points, extent)
  BY DEF IInv, ValueInv
<1>6. Running
  BY DEF IInv, Travelling, Arrived
<1> QED
  BY <1>2, <1>3, <1>5, <1>6

LEMMA AtReturn ==
  ASSUME IInv, NEW f, Returns(f)
  PROVE  LET x == stack[1]
             r == Tail(stack)
         IN /\ at = "return" /\ stack # <<>> /\ Head(stack) = x /\ x.f = f
            /\ stack = <<x>> \o r /\ IsStack(r)
            /\ IsFrame(points, x, TRUE) /\ Frames(points, r, FALSE)
            /\ Paired(points, r, TRUE)
            /\ f = "handling" => r # <<>> /\ IsAside(points, r[1])
            /\ r # <<>> /\ IsAside(points, r[1]) => f = "handling"
            /\ ~IsRaised(x) /\ Under(Leaving, Leaving, x, r)
<1> DEFINE x == stack[1]
           r == Tail(stack)
<1>1. at = "return" /\ stack # <<>> /\ IsStack(stack)
  BY DEF Returns, IInv, StackInv
<1>2. stack \in Seq(Range(stack))
  BY <1>1 DEF IsStack
<1>3. Head(stack) = x /\ stack = <<x>> \o r
  BY <1>1, <1>2, Popped
<1>4. x.f = f
  BY <1>3 DEF Returns
<1>5. IsStack(r)
  BY <1>1, Stacks
<1>6. Frames(points, stack, TRUE) /\ Paired(points, stack, TRUE) /\ Shielded(stack)
  <2>1. (at = "return") = TRUE
    BY <1>1
  <2> QED
    BY <2>1 DEF IInv, StackInv
<1> HIDE DEF x, r
<1>7. IsFrame(points, x, TRUE) /\ Frames(points, r, FALSE)
  BY <1>3, <1>5, <1>6, FramesPushed
<1>8. /\ Paired(points, r, TRUE)
      /\ x.f = "handling" => r # <<>> /\ IsAside(points, r[1])
      /\ r # <<>> /\ IsAside(points, r[1]) => x.f = "handling"
  BY <1>3, <1>5, <1>6, PairedPushed
<1>9. ~Covered(Leaving, Leaving, Leaving)
  BY DEF Covered, Leaving
<1>10. ~IsRaised(x) /\ Under(Leaving, Leaving, x, r)
  BY <1>3, <1>5, <1>6, <1>9, UnderPushed DEF Shielded
<1> QED
  BY <1>1, <1>3, <1>4, <1>5, <1>7, <1>8, <1>10 DEF x, r

(* The parts of a stack in Running, one of them empty or both.             *)
LEMMA RunningParts ==
  ASSUME NEW t, NEW w, NEW b, IsRunning(t, w, b)
  PROVE  /\ IsStack(t) /\ IsStack(w) /\ stack = t \o w /\ Nested(points, t, extent, b)
         /\ w # <<>> => /\ Calling(points, w, b) /\ w[1].f \in {"entered", "leave"}
                        /\ at # "halted"
         /\ w = <<>> => b = <<>> /\ extent = PathIn(points, currentPoint) /\ stack = t
         /\ \A i \in 1 .. Len(t) :
              t[i].f \in {"inside", "entering", "leaving", "handling", "raised"}
         /\ t = <<>> => stack = w
         /\ t # <<>> => stack[1] = t[1] /\ Tail(stack) = Tail(t) \o w /\ IsStack(Tail(t))
<1>1. IsStack(t) /\ stack = t \o w /\ Nested(points, t, extent, b)
  BY DEF IsRunning
<1>2. CASE Calling(points, w, b)
  <2>1. w # <<>> /\ IsStack(w) /\ w[1].f \in {"entered", "leave"}
    BY <1>2 DEF Calling, Calls
  <2>2. at # "halted" /\ \A i \in 1 .. Len(t) : t[i].f \in {"inside", "entering", "leaving"}
    BY <2>1 DEF IsRunning
  <2>3. t = <<>> => stack = w
    BY <1>1, <2>1, EmptyStack, StackParts
  <2>4. t # <<>> => stack[1] = t[1] /\ Tail(stack) = Tail(t) \o w /\ IsStack(Tail(t))
    BY <1>1, <2>1, StackParts, Stacks
  <2> QED
    BY <1>1, <1>2, <2>1, <2>2, <2>3, <2>4
<1>3. CASE ~Calling(points, w, b)
  <2>1. /\ w = <<>> /\ b = <<>> /\ extent = PathIn(points, currentPoint)
        /\ \A i \in 1 .. Len(t) :
             t[i].f \in {"inside", "entering", "leaving", "handling", "raised"}
    BY <1>3 DEF IsRunning
  <2>2. IsStack(w) /\ stack = t
    BY <1>1, <2>1, EmptyStack, StackParts
  <2>3. t # <<>> => Tail(stack) = Tail(t) \o w /\ IsStack(Tail(t))
    BY <1>1, <2>1, <2>2, StackParts, Stacks
  <2> QED
    BY <1>1, <2>1, <2>2, <2>3
<1> QED
  BY <1>2, <1>3

LEMMA InProgram ==
  ASSUME IInv, NEW f \in {"entering", "inside", "leaving", "handling", "raised"}, Returns(f)
  PROVE  \E t, w, b, d :
           /\ IsRunning(t, w, b) /\ t # <<>> /\ IsStack(w)
           /\ t[1] = stack[1] /\ Tail(stack) = Tail(t) \o w /\ IsStack(Tail(t))
           /\ d \in Seq(Nat) /\ extent = Above(stack[1], d)
           /\ Kept(points, stack[1], d) /\ Nested(points, Tail(t), d, b)
<1>1. at = "return" /\ stack # <<>> /\ stack[1].f = f /\ IsFrame(points, stack[1], TRUE)
  BY AtReturn
<1>2. ~Travelling
  BY <1>1 DEF Travelling
<1>3. ~Arrived
  <2>1. ASSUME NEW q, Chain(points, stack, q)
        PROVE  FALSE
    <3>1. 1 \in 1 .. Len(stack) /\ \A i \in 1 .. Len(stack) : stack[i].f \in {"enter", "jump"}
      BY <2>1, ChainTop
    <3> QED
      BY <1>1, <3>1
  <2> QED
    BY <2>1 DEF Arrived
<1>4. PICK t, w, b : IsRunning(t, w, b)
  BY <1>2, <1>3 DEF IInv, Running
<1>5. t # <<>>
  <2>1. ASSUME t = <<>>
        PROVE  FALSE
    <3>1. stack = w /\ w # <<>>
      BY <1>1, <1>4, <2>1, RunningParts
    <3>2. w[1].f \in {"entered", "leave"}
      BY <1>4, <3>1, RunningParts
    <3> QED
      BY <1>1, <3>1, <3>2
  <2> QED
    BY <2>1
<1>6. /\ IsStack(t) /\ IsStack(w) /\ t[1] = stack[1] /\ Tail(stack) = Tail(t) \o w
      /\ IsStack(Tail(t)) /\ Nested(points, t, extent, b)
  BY <1>4, <1>5, RunningParts
<1>7. t = <<t[1]>> \o Tail(t)
  BY <1>5, <1>6, Popped DEF IsStack
<1>8. extent \in Seq(Nat) /\ (stack[1].f = "inside" => stack[1].point \in Nat)
  <2>1. extent \in Seq(Nat) /\ Len(points) \in Nat
    BY ExtentType, TreePoint DEF IInv
  <2> QED
    BY <1>1, <2>1 DEF IsFrame
<1>9. \E d \in Seq(Nat) :
        /\ extent = Above(stack[1], d) /\ Kept(points, stack[1], d)
        /\ Nested(points, Tail(t), d, b)
  <2> DEFINE x == t[1]
             r == Tail(t)
  <2>1. x = stack[1] /\ t = <<x>> \o r /\ IsStack(r)
    BY <1>6, <1>7
  <2> HIDE DEF x, r
  <2>3. x.f = "inside" => x.point \in Nat
    BY <1>8, <2>1
  <2>4. extent \in Seq(Nat)
    BY <1>8
  <2>5. Nested(points, t, extent, b)
          <=> \E d \in Seq(Nat) :
                extent = Above(x, d) /\ Kept(points, x, d) /\ Nested(points, r, d, b)
    BY ONLY <2>1, <2>3, <2>4, NestedPushed
  <2>2. \E d \in Seq(Nat) :
          extent = Above(x, d) /\ Kept(points, x, d) /\ Nested(points, r, d, b)
    BY <1>6, <2>5
  <2> QED
    BY <2>1, <2>2 DEF r
<1> QED
  BY <1>4, <1>5, <1>6, <1>9

LEMMA InTravel ==
  ASSUME IInv, NEW f \in {"enter", "jump"}, Returns(f)
  PROVE  \E q : Chain(points, stack, q) /\ extent = PathIn(points, q)
<1>1. at = "return" /\ stack # <<>> /\ stack[1].f = f
  BY AtReturn
<1>2. ASSUME NEW t, NEW w, NEW b, IsRunning(t, w, b)
      PROVE  FALSE
  <2>1. CASE t = <<>>
    <3>1. stack = w /\ w # <<>>
      BY <1>1, <1>2, <2>1, RunningParts
    <3>2. w[1].f \in {"entered", "leave"}
      BY <1>2, <3>1, RunningParts
    <3> QED
      BY <1>1, <3>1, <3>2
  <2>2. CASE t # <<>>
    <3>1. stack[1] = t[1] /\ 1 \in 1 .. Len(t)
      <4>1. stack[1] = t[1] /\ IsStack(t)
        BY <1>2, <2>2, RunningParts
      <4> QED
        BY <2>2, <4>1 DEF IsStack
    <3>2. t[1].f \in {"inside", "entering", "leaving", "handling", "raised"}
      BY <1>2, <3>1, RunningParts
    <3> QED
      BY <1>1, <3>1, <3>2
  <2> QED
    BY <2>1, <2>2
<1> QED
  BY <1>1, <1>2 DEF IInv, Running, Travelling, Arrived

LEMMA InCall ==
  ASSUME IInv, NEW f \in {"entered", "leave"}, Returns(f)
  PROVE  Calling(points, stack, extent)
<1>1. at = "return" /\ stack # <<>> /\ stack[1].f = f
  BY AtReturn
<1>2. ~Arrived
  <2>1. ASSUME NEW q, Chain(points, stack, q)
        PROVE  FALSE
    <3>1. 1 \in 1 .. Len(stack) /\ \A i \in 1 .. Len(stack) : stack[i].f \in {"enter", "jump"}
      BY <2>1, ChainTop
    <3> QED
      BY <1>1, <3>1
  <2> QED
    BY <2>1 DEF Arrived
<1>3. PICK t, w, b : IsRunning(t, w, b)
  BY <1>1, <1>2 DEF IInv, Running, Travelling
<1>4. t = <<>>
  <2>1. ASSUME t # <<>>
        PROVE  FALSE
    <3>1. stack[1] = t[1] /\ 1 \in 1 .. Len(t)
      <4>1. stack[1] = t[1] /\ IsStack(t)
        BY <1>3, <2>1, RunningParts
      <4> QED
        BY <2>1, <4>1 DEF IsStack
    <3>2. t[1].f \in {"inside", "entering", "leaving", "handling", "raised"}
      BY <1>3, <3>1, RunningParts
    <3> QED
      BY <1>1, <3>1, <3>2
  <2> QED
    BY <2>1
<1>5. stack = w /\ w # <<>> /\ Nested(points, <<>>, extent, b)
  BY <1>1, <1>3, <1>4, RunningParts
<1>6. extent = b
  <2>1. extent \in Seq(Nat)
    BY ExtentType DEF IInv
  <2> QED
    BY <1>5, <2>1, NestedEmpty
<1> QED
  BY <1>3, <1>5, <1>6, RunningParts

LEMMA CallingGrown ==
  ASSUME NEW ps, NEW qs, Grown(ps, qs), NEW s, NEW b, Calling(ps, s, b)
  PROVE  /\ Calling(qs, s, b)
         /\ s[1].f = "entered" => qs[s[1].point] = ps[s[1].point]
<1>1. /\ IsTree(ps) /\ Len(ps) \in Nat /\ Len(qs) = Len(ps) + 1
      /\ \A p \in 1 .. Len(ps) : qs[p] = ps[p]
  BY TreePoint DEF Grown
<1>2. PICK p \in 2 .. Len(ps) : Calls(ps, s[1], p) /\ b = PathIn(ps, ps[p].parent)
  BY DEF Calling
<1>3. p \in 2 .. Len(qs) /\ p \in 1 .. Len(ps) /\ p # Root
  BY <1>1 DEF Root
<1>4. ps[p].parent \in 1 .. Len(ps) /\ qs[p] = ps[p]
  BY <1>1, <1>3, TreePoint
<1>5. b = PathIn(qs, qs[p].parent)
  BY <1>2, <1>4, PathGrown
<1>6. Calls(qs, s[1], p)
  BY <1>2, <1>3 DEF Calls
<1>7. Chain(qs, Tail(s), IF s[1].f = "entered" THEN s[1].point ELSE s[1].to)
  BY ChainGrown DEF Calling
<1>8. Calling(qs, s, b)
  BY <1>3, <1>5, <1>6, <1>7 DEF Calling
<1>9. s[1].f = "entered" => s[1].point = p
  BY <1>2 DEF Calls
<1> QED
  BY <1>4, <1>8, <1>9

(* The frames that there are above a stack.                                *)
Fits(x, w) ==
  \/ x.f \in {"inside", "leaving"}
  \/ x.f = "entering" /\ (w = <<>> \/ x.thunk = <<>>)
  \/ x.f \in {"handling", "raised"} /\ w = <<>>

AllFit(s, w) == \A i \in 1 .. Len(s) : Fits(s[i], w)

LEMMA FitPushed ==
  ASSUME NEW x, NEW s, IsStack(s), NEW w
  PROVE  /\ AllFit(<<x>> \o s, w) <=> Fits(x, w) /\ AllFit(s, w)
         /\ AllFit(<<>>, w)
<1> DEFINE u == <<x>> \o s
<1>1. Len(s) \in Nat /\ s \in Seq(Range(s))
  BY Stacks DEF IsStack
<1>2. /\ Len(u) = Len(s) + 1 /\ u[1] = x /\ \A i \in 1 .. Len(s) : u[i + 1] = s[i]
      /\ \A j \in 2 .. Len(u) : j - 1 \in 1 .. Len(s) /\ u[j] = s[j - 1]
  BY <1>1, Pushed
<1> HIDE DEF u
<1>3. /\ 1 \in 1 .. Len(u) /\ \A i \in 1 .. Len(s) : i + 1 \in 1 .. Len(u)
      /\ \A j \in 1 .. Len(u) : j = 1 \/ j \in 2 .. Len(u)
  BY <1>1, <1>2
<1>4. ASSUME AllFit(u, w)
      PROVE  Fits(x, w) /\ AllFit(s, w)
  BY <1>2, <1>3, <1>4 DEF AllFit
<1>5. ASSUME Fits(x, w), AllFit(s, w)
      PROVE  AllFit(u, w)
  BY <1>2, <1>3, <1>5 DEF AllFit
<1>6. AllFit(<<>>, w)
  BY EmptyStack DEF AllFit
<1> QED
  BY <1>4, <1>5, <1>6 DEF u

LEMMA RunningFits ==
  ASSUME NEW t, NEW w, NEW b, IsRunning(t, w, b)
  PROVE  AllFit(t, w)
<1>1. CASE Calling(points, w, b)
  <2>1. w # <<>>
    BY <1>1 DEF Calling
  <2> QED
    BY <2>1 DEF IsRunning, AllFit, Fits
<1>2. CASE ~Calling(points, w, b)
  BY <1>2 DEF IsRunning, AllFit, Fits
<1> QED
  BY <1>1, <1>2

LEMMA RunningKept ==
  ASSUME NEW t, NEW w, NEW b, IsRunning(t, w, b),
         points' = points \/ Grown(points, points'),
         NEW u, IsStack(u), stack' = u \o w, at' \in {"run", "return"},
         Nested(points', u, extent', b), AllFit(u, w),
         w = <<>> => extent' = PathIn(points', currentPoint'),
         w # <<>> => t # <<>> \/ at = "run"
  PROVE  Running'
<1>1. CASE w = <<>>
  <2>1. b = <<>>
    BY <1>1, RunningParts
  <2>2. \A i \in 1 .. Len(u) : u[i].f \in {"inside", "entering", "leaving", "handling", "raised"}
    BY DEF AllFit, Fits
  <2>3. IsRunning(u, w, b)'
    BY <1>1, <2>1, <2>2 DEF IsRunning
  <2> QED
    BY <2>3 DEF Running
<1>2. CASE w # <<>>
  <2>1. Calling(points, w, b)
    BY <1>2, RunningParts
  <2>2. /\ Calling(points', w, b)
        /\ w[1].f = "entered" => points'[w[1].point] = points[w[1].point]
    BY <2>1, CallingGrown
  <2>3. w[1].f = "entered" => RunsProgram(points[w[1].point].bind)
    BY <1>2 DEF IsRunning
  <2>4. \A i \in 1 .. Len(u) :
          u[i].f \in {"inside", "leaving"} \/ (u[i].f = "entering" /\ u[i].thunk = <<>>)
    BY <1>2 DEF AllFit, Fits
  <2>5. IsRunning(u, w, b)'
    BY <2>2, <2>3, <2>4 DEF IsRunning
  <2> QED
    BY <2>5 DEF Running
<1> QED
  BY <1>1, <1>2

LEMMA StackKept ==
  ASSUME IsStack(stack'), stack' # <<>> \/ at' # "return", NEW r \in BOOLEAN, r => at' = "return",
         Frames(points', stack', r), Paired(points', stack', r), Shielded(stack')
  PROVE  StackInv'
<1>1. CASE r
  <2>1. r = TRUE /\ (at' = "return") = TRUE
    BY <1>1
  <2> QED
    BY <2>1 DEF StackInv
<1>2. CASE ~r
  <2>1. r = FALSE /\ (at' = "return") \in BOOLEAN
    BY <1>2
  <2>2. Frames(points', stack', at' = "return")
    BY <2>1, FramesMoved
  <2>3. Paired(points', stack', at' = "return")
    BY <2>1, PairedReturns
  <2> QED
    BY <2>2, <2>3 DEF StackInv
<1> QED
  BY <1>1, <1>2

LEMMA RestKept ==
  ASSUME IInv, UNCHANGED <<points, continuations>>, currentPoint' \in 1 .. Len(points),
         Scoped(points, extent'), StackInv', ValueInv', Running' \/ Travelling' \/ Arrived'
  PROVE  IInv'
BY DEF IInv

(* No procedure that runs outside of before and after procedures is above a *)
(* travel.                                                                 *)
LEMMA OutOfThunk ==
  ASSUME IInv, at = "run", ~InThunk
  PROVE  /\ AllFit(stack, <<>>) /\ Nested(points, stack, extent, <<>>)
         /\ extent = PathIn(points, currentPoint)
         /\ \A i \in 1 .. Len(stack) : Resumed(stack[i])
         /\ IsRunning(stack, <<>>, <<>>)
<1>1. PICK t, w, b : IsRunning(t, w, b)
  BY AtRun DEF Running
<1>2. IsStack(stack) /\ DOMAIN stack = 1 .. Len(stack) /\ Len(stack) \in Nat
  BY AtRun DEF IsStack
<1>3. \A i \in 1 .. Len(stack) :
        /\ stack[i].f \notin {"leaving", "entered", "leave"}
        /\ stack[i].f = "entering" => stack[i].bind # <<>>
  BY <1>2 DEF InThunk
<1>4. w = <<>>
  <2>1. ASSUME w # <<>>
        PROVE  FALSE
    <3>1. w[1].f \in {"entered", "leave"} /\ IsStack(t) /\ IsStack(w) /\ stack = t \o w
      BY <1>1, <2>1, RunningParts
    <3>2. 1 \in 1 .. Len(w)
      BY <2>1, <3>1 DEF IsStack
    <3>3. /\ stack[1 + Len(t)] = w[1] /\ Len(stack) = Len(t) + Len(w)
          /\ Len(t) \in Nat /\ Len(w) \in Nat
      BY <3>1, <3>2, StackParts
    <3>4. 1 + Len(t) \in 1 .. Len(stack)
      BY <3>2, <3>3
    <3> QED
      BY <1>3, <3>1, <3>3, <3>4
  <2> QED
    BY <2>1
<1>5. b = <<>> /\ extent = PathIn(points, currentPoint) /\ stack = t /\ Nested(points, t, extent, b)
  BY <1>1, <1>4, RunningParts
<1>6. AllFit(stack, <<>>)
  BY <1>1, <1>4, <1>5, RunningFits
<1>7. \A i \in 1 .. Len(stack) : Resumed(stack[i])
  BY <1>3, <1>6 DEF AllFit, Fits, Resumed
<1> QED
  BY <1>1, <1>4, <1>5, <1>6, <1>7

-----------------------------------------------------------------------------
(* The steps of a program.                                                 *)

LEMMA ReturnKeeps ==
  ASSUME IInv, Return
  PROVE  IInv'
<1>1. /\ at = "run" /\ stack # <<>> /\ at' = "return"
      /\ UNCHANGED <<points, currentPoint, value, stack, continuations, extent>>
  BY DEF Return, pointVars, travelVars
<1>2. PICK t, w, b : IsRunning(t, w, b)
  BY <1>1, AtRun DEF Running
<1>3. Running'
  <2>1. /\ IsStack(t) /\ stack = t \o w /\ Nested(points, t, extent, b)
        /\ w = <<>> => extent = PathIn(points, currentPoint)
    BY <1>2, RunningParts
  <2>2. AllFit(t, w)
    BY <1>2, RunningFits
  <2> QED
    BY <1>1, <1>2, <2>1, <2>2, RunningKept
<1>4. StackInv'
  <2>1. (at = "return") = FALSE
    BY <1>1
  <2>2. /\ IsStack(stack) /\ Shielded(stack)
        /\ Frames(points, stack, FALSE) /\ Paired(points, stack, FALSE)
    BY <2>1 DEF IInv, StackInv
  <2> QED
    BY <1>1, <2>2, StackKept
<1>5. ValueInv'
  BY <1>1, AtRun DEF ValueInv
<1> QED
  BY <1>1, <1>3, <1>4, <1>5, RestKept DEF IInv

(* A call of dynamic-wind in what runs, with or without a parameter. *)
LEMMA WindKeeps ==
  ASSUME IInv, at = "run", NEW bind \in Binds, ~PutsAside(bind), OneByOne(bind),
         Restores(points, bind, extent), DynamicWind(bind, <<>>, stack)
  PROVE  IInv'
<1> DEFINE x == Entering(bind, <<>>)
<1>1. /\ stack' = <<x>> \o stack
      /\ UNCHANGED <<points, currentPoint, continuations, extent>>
      /\ UNCHANGED value
      /\ RunsProgram(bind) => at' = "run"
      /\ ~RunsProgram(bind) => at' = "return"
  BY DEF DynamicWind, CallBefore, pointVars, travelVars
<1>2. x.f = "entering" /\ x.bind = bind /\ x.thunk = <<>>
  BY DEF Entering
<1> HIDE DEF x
<1>3. PICK t, w, b : IsRunning(t, w, b)
  BY AtRun DEF Running
<1>4. /\ IsStack(t) /\ IsStack(w) /\ stack = t \o w /\ Nested(points, t, extent, b) /\ AllFit(t, w)
      /\ w = <<>> => extent = PathIn(points, currentPoint)
  BY <1>3, RunningParts, RunningFits
<1>5. extent \in Seq(Nat) /\ Scoped(points, extent) /\ currentPoint \in 1 .. Len(points)
  BY ExtentType DEF IInv
<1>6. Running'
  <2> DEFINE u == <<x>> \o t
  <2>1. IsStack(u) /\ stack' = u \o w
    BY <1>1, <1>4, PushedOver
  <2>2. Nested(points, u, extent, b)
    <3>1. Above(x, extent) = extent /\ Kept(points, x, extent)
      BY <1>2 DEF Above, Kept
    <3>2. Nested(points, u, extent, b)
            <=> \E d \in Seq(Nat) :
                  extent = Above(x, d) /\ Kept(points, x, d) /\ Nested(points, t, d, b)
      BY <1>2, <1>4, <1>5, NestedPushed
    <3> QED
      BY <1>4, <1>5, <3>1, <3>2
  <2>3. AllFit(u, w)
    <3>1. Fits(x, w)
      BY <1>2 DEF Fits
    <3> QED
      BY <1>4, <3>1, FitPushed
  <2>4. at' \in {"run", "return"}
    BY <1>1
  <2> HIDE DEF u
  <2> QED
    BY <1>1, <1>3, <1>4, <2>1, <2>2, <2>3, <2>4, RunningKept
<1>7. StackInv'
  <2> DEFINE r == ~RunsProgram(bind)
  <2>1. /\ IsStack(stack) /\ Frames(points, stack, FALSE) /\ Paired(points, stack, TRUE)
        /\ stack # <<>> => ~IsAside(points, stack[1])
        /\ Shielded(stack)
    BY AtRun
  <2>2. r \in BOOLEAN /\ (r => at' = "return") /\ (~r => at' # "return")
    BY <1>1
  <2>3. IsFrame(points, x, r)
    BY <1>2 DEF IsFrame, IsEntering
  <2>4. x.f # "handling" /\ ~IsAside(points, x) /\ ~IsRaised(x)
    BY <1>2 DEF IsAside, IsRaised
  <2> HIDE DEF r
  <2>5. IsStack(stack') /\ stack' # <<>>
    <3>1. stack' # <<>>
      BY <1>1, <2>1, Pushed DEF IsStack
    <3> QED
      BY <1>1, <2>1, <3>1, Stacks
  <2>6. Frames(points, stack', r)
    BY <1>1, <2>1, <2>2, <2>3, FramesPushed
  <2>7. Paired(points, stack', r)
    <3>1. Paired(points, stack', FALSE)
      BY <1>1, <2>1, <2>4, PairedPushed
    <3> QED
      BY <2>2, <2>5, <3>1, PairedReturns
  <2>8. Under(Leaving, Leaving, x, stack)
    <3>1. /\ ~Covered(Leaving, Leaving, Leaving)
          /\ \A y : ~Covered(Leaving, Leaving, y) \/ Covered(Leaving, x, y)
          /\ \A y, z : Covered(Leaving, y, z) => Covered(x, y, z)
      BY DEF Covered, Leaving, IsRaised
    <3>2. \A y : Covered(Leaving, Leaving, y) => Covered(Leaving, x, y)
      BY <3>1
    <3>3. ~Covered(Leaving, Leaving, Leaving)
      BY <3>1
    <3>4. Under(Leaving, Leaving, Leaving, stack)
      BY <2>1 DEF Shielded
    <3> QED
      BY <2>1, <3>1, <3>2, <3>3, <3>4, UnderChanged
  <2>9. Shielded(stack')
    BY <1>1, <2>1, <2>4, <2>8, UnderPushed DEF Shielded
  <2> QED
    BY <1>1, <2>2, <2>5, <2>6, <2>7, <2>9, StackKept
<1>8. ValueInv'
  BY <1>1, AtRun DEF ValueInv
<1> QED
  BY <1>1, <1>5, <1>6, <1>7, <1>8, RestKept

(* What a parameterize restores is the value around it. *)
LEMMA Restored ==
  ASSUME ValuesAre(value, points, extent), NEW p \in Parameter, NEW v
  PROVE  Restores(points, <<p, v, value[p]>>, extent) /\ value[p] \in Nat
<1>1. value[p] = BoundIn(points, extent, p) /\ value[p] \in Nat
  BY DEF ValuesAre
<1>2. <<p, v, value[p]>>[1] = p /\ <<p, v, value[p]>>[3] = value[p]
  OBVIOUS
<1> QED
  BY <1>1, <1>2 DEF Restores

LEMMA ParameterizeKeeps ==
  ASSUME IInv, NEW p \in Parameter, NEW v \in Source, Parameterize(p, v),
         p = Handler => v = value[Handler] + 1
  PROVE  IInv'
<1> DEFINE bind == <<p, v, value[p]>>
<1>1. at = "run" /\ DynamicWind(bind, <<>>, stack)
  BY DEF Parameterize
<1>2. ValuesAre(value, points, extent)
  BY <1>1, AtRun
<1>3. Restores(points, bind, extent) /\ value[p] \in Nat
  BY <1>2, Restored
<1>4. bind \in Binds /\ bind[1] = p /\ bind[2] = v /\ bind[3] = value[p]
  BY <1>3, BindMade
<1>6. ~PutsAside(bind) /\ OneByOne(bind)
  <2> HIDE DEF bind
  <2>1. p = Handler => bind[2] = bind[3] + 1 /\ bind[3] \in Nat
    BY <1>3, <1>4
  <2>2. p = Handler => ~(bind[2] < bind[3])
    BY <2>1
  <2>3. p = Handler => bind[2] \in Nat
    BY <2>1
  <2> QED
    BY <1>4, <2>1, <2>2, <2>3 DEF PutsAside, OneByOne
<1> HIDE DEF bind
<1> QED
  BY <1>1, <1>3, <1>4, <1>6, WindKeeps

LEMMA WindsKeep ==
  ASSUME IInv,
         \/ Wind
         \/ \E p \in Parameter \ {Handler} : Parameterize(p, Computed)
         \/ WithExceptionHandler
  PROVE  IInv'
<1>1. CASE Wind
  <2>1. at = "run" /\ DynamicWind(<<>>, <<>>, stack)
    BY <1>1 DEF Wind
  <2>2. /\ <<>> \in Binds /\ ~PutsAside(<<>>) /\ OneByOne(<<>>)
        /\ Restores(points, <<>>, extent)
    BY DEF Binds, PutsAside, OneByOne, Restores
  <2> QED
    BY <2>1, <2>2, WindKeeps
<1>2. CASE \E p \in Parameter \ {Handler} : Parameterize(p, Computed)
  <2>1. PICK p \in Parameter \ {Handler} : Parameterize(p, Computed)
    BY <1>2
  <2>2. p \in Parameter /\ p # Handler /\ Computed \in Source
    BY DEF Source
  <2> QED
    BY <2>1, <2>2, ParameterizeKeeps
<1>3. CASE WithExceptionHandler
  <2>1. Handler \in Parameter
    BY ExceptionsAssumption
  <2>2. Parameterize(Handler, value[Handler] + 1)
    BY <1>3 DEF WithExceptionHandler
  <2>3. value[Handler] + 1 \in Source
    <3>1. value[Handler] \in Nat
      BY <2>1 DEF IInv, ValueInv, ValuesAre
    <3> QED
      BY <3>1 DEF Source
  <2> HIDE DEF Handler
  <2> QED
    BY <2>1, <2>2, <2>3, ParameterizeKeeps
<1> QED
  BY <1>1, <1>2, <1>3

LEMMA FitTail ==
  ASSUME NEW t, NEW w, NEW b, IsRunning(t, w, b), t # <<>>
  PROVE  Fits(t[1], w) /\ AllFit(Tail(t), w)
<1>1. IsStack(t) /\ AllFit(t, w)
  BY RunningParts, RunningFits
<1>2. t = <<t[1]>> \o Tail(t) /\ IsStack(Tail(t))
  BY <1>1, Popped, Stacks DEF IsStack
<1> DEFINE x == t[1]
           r == Tail(t)
<1> HIDE DEF x, r
<1>3. AllFit(<<x>> \o r, w) /\ IsStack(r)
  BY <1>1, <1>2 DEF x, r
<1>4. Fits(x, w) /\ AllFit(r, w)
  BY <1>3, FitPushed
<1> QED
  BY <1>4 DEF x, r

(* The top of a stack is changed for one that covers nothing either. *)
LEMMA UnderTop ==
  ASSUME NEW x, NEW y, NEW s, IsStack(s), Under(Leaving, Leaving, x, s),
         x.f # "entering" \/ x.thunk # <<Handling(FALSE)>>,
         x.f # "handling" \/ x.continuable, ~IsRaised(x)
  PROVE  Under(Leaving, Leaving, y, s)
<1>1. ~Covered(Leaving, Leaving, x)
  BY DEF Covered, Leaving
<1>2. ASSUME NEW z, Covered(Leaving, x, z)
      PROVE  Covered(Leaving, y, z)
  <2>1. z.f = "entering" /\ z.thunk = <<Handling(FALSE)>>
    BY <1>2 DEF Covered, Leaving, IsRaised
  <2> QED
    BY <2>1 DEF Covered
<1>3. ASSUME NEW z, NEW v, Covered(x, z, v)
      PROVE  Covered(y, z, v)
  BY <1>3 DEF Covered
<1> QED
  BY <1>1, <1>2, <1>3, UnderChanged

LEMMA ReturnLeavingKeeps ==
  ASSUME IInv, ReturnLeaving
  PROVE  IInv'
<1> DEFINE x == stack[1]
           r == Tail(stack)
<1>0. Returns("leaving")
  BY DEF ReturnLeaving
<1>2. /\ x.f = "leaving" /\ IsStack(r) /\ Frames(points, r, FALSE)
      /\ Paired(points, r, TRUE) /\ (r # <<>> => ~IsAside(points, r[1]))
      /\ ~IsRaised(x) /\ Under(Leaving, Leaving, x, r)
  BY <1>0, AtReturn DEF IsFrame
<1>1. /\ Returns("leaving") /\ at' = "run" /\ stack' = r
      /\ UNCHANGED <<points, currentPoint, value, continuations, extent>>
  BY DEF ReturnLeaving, pointVars, travelVars
<1>3. PICK t, w, b, d :
           /\ IsRunning(t, w, b) /\ t # <<>> /\ IsStack(w)
           /\ t[1] = stack[1] /\ Tail(stack) = Tail(t) \o w /\ IsStack(Tail(t))
           /\ d \in Seq(Nat) /\ extent = Above(stack[1], d)
           /\ Kept(points, stack[1], d) /\ Nested(points, Tail(t), d, b)
  BY <1>1, InProgram
<1>4. extent = d
  BY <1>2, <1>3 DEF Above
<1>5. Running'
  <2>1. AllFit(Tail(t), w)
    BY <1>3, FitTail
  <2>2. w = <<>> => extent = PathIn(points, currentPoint)
    BY <1>3, RunningParts
  <2> HIDE DEF r
  <2>3. stack' = Tail(t) \o w
    BY <1>1, <1>3 DEF r
  <2> QED
    BY <1>1, <1>3, <1>4, <2>1, <2>2, <2>3, RunningKept
<1>6. StackInv'
  <2>1. Under(Leaving, Leaving, Leaving, r)
    BY <1>2, UnderTop
  <2>2. Paired(points, r, FALSE)
    BY <1>2, PairedReturns
  <2> HIDE DEF r
  <2> QED
    BY <1>1, <1>2, <2>1, <2>2, StackKept DEF Shielded
<1>7. ValueInv'
  BY <1>1 DEF IInv, ValueInv
<1> QED
  BY <1>1, <1>5, <1>6, <1>7, RestKept DEF IInv

LEMMA ReturnInsideKeeps ==
  ASSUME IInv, ReturnInside
  PROVE  IInv'
<1> DEFINE x == stack[1]
           r == Tail(stack)
           p == x.point
           bind == points[p].bind
<1>1. Returns("inside")
  BY DEF ReturnInside
<1>2. /\ x.f = "inside" /\ Head(stack) = x /\ IsStack(r) /\ Frames(points, r, FALSE)
      /\ Paired(points, r, TRUE) /\ (r # <<>> => ~IsAside(points, r[1]))
      /\ ~IsRaised(x) /\ Under(Leaving, Leaving, x, r)
      /\ p \in 2 .. Len(points) /\ x.saved = points[p].parent
  BY <1>1, AtReturn DEF IsFrame
<1>3. /\ currentPoint' = points[p].parent /\ stack' = <<Leaving>> \o r
      /\ extent' = Without(extent, p)
      /\ UNCHANGED <<points, continuations>>
      /\ bind = <<>> => at' = "run" /\ UNCHANGED value
      /\ bind # <<>> => /\ at' = "return"
                        /\ value' = [value EXCEPT ![bind[1]] = bind[3]]
  BY <1>2 DEF ReturnInside, CallAfter, SetParameter, travelVars
<1>4. PICK t, w, b, d :
           /\ IsRunning(t, w, b) /\ t # <<>> /\ IsStack(w)
           /\ t[1] = stack[1] /\ Tail(stack) = Tail(t) \o w /\ IsStack(Tail(t))
           /\ d \in Seq(Nat) /\ extent = Above(stack[1], d)
           /\ Kept(points, stack[1], d) /\ Nested(points, Tail(t), d, b)
  BY <1>1, InProgram
<1>5. extent = Append(d, p) /\ p \in Nat
  <2>1. Len(points) \in Nat
    BY TreePoint DEF IInv
  <2> QED
    BY <1>2, <1>4, <2>1 DEF Above
<1> HIDE DEF x, r, p
<1>6. extent' = d
  BY <1>3, <1>4, <1>5, WithoutLast
<1>7. Scoped(points, d) /\ Restores(points, bind, d)
  <2>1. Scoped(points, Append(d, p))
    BY <1>5 DEF IInv
  <2> QED
    BY <1>4, <1>5, <2>1, ScopedAppend
<1>8. points[p].parent \in 1 .. Len(points)
  BY <1>2, TreePoint DEF IInv, Root
<1>9. Running'
  <2> DEFINE u == <<Leaving>> \o Tail(t)
  <2>1. IsStack(u) /\ stack' = u \o w
    <3>1. stack' = <<Leaving>> \o (Tail(t) \o w)
      BY <1>3, <1>4 DEF r
    <3> QED
      BY <1>4, <3>1, PushedOver
  <2>2. Nested(points, u, d, b)
    <3>1. Above(Leaving, d) = d /\ Leaving.f # "inside"
      BY DEF Above, Leaving
    <3>2. Nested(points, u, d, b)
            <=> \E e \in Seq(Nat) :
                  /\ d = Above(Leaving, e) /\ Kept(points, Leaving, e)
                  /\ Nested(points, Tail(t), e, b)
      BY <1>4, <3>1, NestedPushed
    <3>3. Kept(points, Leaving, d)
      BY DEF Kept, Leaving
    <3> QED
      BY <1>4, <3>1, <3>2, <3>3
  <2>3. AllFit(u, w)
    <3>1. AllFit(Tail(t), w)
      BY <1>4, FitTail
    <3>2. Fits(Leaving, w)
      BY DEF Fits, Leaving
    <3> QED
      BY <1>4, <3>1, <3>2, FitPushed
  <2>4. w = <<>> => d = PathIn(points, points[p].parent)
    <3>1. w = <<>> => PathIn(points, currentPoint) = Append(d, p)
      BY <1>4, <1>5, RunningParts
    <3>2. IsTree(points) /\ currentPoint \in 1 .. Len(points)
      BY DEF IInv
    <3> QED
      BY <1>4, <1>5, <3>1, <3>2, PathEnds
  <2>5. at' \in {"run", "return"}
    BY <1>3
  <2> HIDE DEF u
  <2>6. points' = points /\ (w = <<>> => extent' = PathIn(points', currentPoint'))
    BY <1>3, <1>6, <2>4
  <2>7. Nested(points', u, extent', b)
    BY <1>6, <2>2, <2>6
  <2> QED
    BY <1>4, <2>1, <2>3, <2>5, <2>6, <2>7, RunningKept
<1>10. StackInv'
  <2>1. Under(Leaving, Leaving, Leaving, r)
    BY <1>2, UnderTop
  <2>2. Leaving.f = "leaving"
    BY DEF Leaving
  <2>3. ~IsRaised(Leaving) /\ IsFrame(points, Leaving, FALSE) /\ ~IsAside(points, Leaving)
    BY <2>2 DEF IsRaised, IsFrame, IsAside
  <2>4. IsStack(stack') /\ stack' # <<>>
    BY <1>2, <1>3, Stacks, Pushed DEF IsStack
  <2>5. Frames(points, stack', FALSE)
    <3>1. Frames(points, r, FALSE)
      BY <1>2, FramesMoved
    <3> QED
      BY <1>2, <1>3, <2>3, <3>1, FramesPushed
  <2>6. Paired(points, stack', FALSE)
    BY <1>2, <1>3, <2>2, <2>3, PairedPushed
  <2>7. Shielded(stack')
    BY <1>2, <1>3, <2>1, <2>3, UnderPushed DEF Shielded
  <2> QED
    BY <1>3, <2>4, <2>5, <2>6, <2>7, StackKept
<1>11. ValueInv'
  <2>1. ValuesAre(value, points, Append(d, p))
    BY <1>5 DEF IInv, ValueInv
  <2>2. ValuesAre(value', points, d)
    <3>1. /\ bind = <<>> => ValuesAre(value, points, d)
          /\ bind # <<>> =>
               ValuesAre([value EXCEPT ![bind[1]] = bind[3]], points, d)
      BY <1>2, <1>4, <1>7, <2>1, ValueLeaving DEF IInv
    <3> QED
      BY <1>3, <3>1
  <2> QED
    BY <1>3, <1>6, <2>2 DEF ValueInv
<1> QED
  BY <1>3, <1>6, <1>7, <1>8, <1>9, <1>10, <1>11, RestKept

(* The stack of an extent that is entered: above what waits for the call,  *)
(* the frame of the extent and, for a handler, that of the handler.        *)
LEMMA EnteredStack ==
  ASSUME NEW qs, NEW r, IsStack(r), Frames(qs, r, FALSE), Paired(qs, r, FALSE),
         NEW x, x.f = "entering", Under(Leaving, Leaving, x, r),
         NEW p \in 2 .. Len(qs), qs[p].bind = x.bind,
         NEW thunk, thunk = x.thunk,
         \/ thunk = <<>> /\ ~PutsAside(x.bind)
         \/ Handles(thunk) /\ PutsAside(x.bind),
         NEW s, s = (thunk \o <<Inside(p, qs[p].parent)>>) \o r
  PROVE  IsStack(s) /\ Frames(qs, s, FALSE) /\ Paired(qs, s, FALSE) /\ Shielded(s)
<1> DEFINE i == Inside(p, qs[p].parent)
           u == <<i>> \o r
<1>1. i.f = "inside" /\ i.point = p /\ i.saved = qs[p].parent
  BY DEF Inside
<1> HIDE DEF i
<1>2. /\ IsFrame(qs, i, FALSE) /\ ~IsRaised(i)
      /\ IsAside(qs, i) <=> PutsAside(x.bind)
  BY <1>1 DEF IsFrame, IsRaised, IsAside
<1>3. /\ r # <<>> => ~IsAside(qs, r[1])
      /\ Paired(qs, r, TRUE)
  BY PairedReturns
<1>4. IsStack(u) /\ u # <<>> /\ u[1] = i
  BY Stacks, Pushed DEF IsStack
<1>5. Frames(qs, u, FALSE)
  BY <1>2, FramesPushed
<1>6. ASSUME NEW y, Covered(Leaving, x, y)
      PROVE  y.f = "entering" /\ y.thunk = <<Handling(FALSE)>>
  BY <1>6 DEF Covered, Leaving
<1>7. CASE thunk = <<>> /\ ~PutsAside(x.bind)
  <2>1. s = u
    <3>1. <<>> \o <<i>> = <<i>>
      BY EmptyStack, StackParts
    <3> QED
      BY <1>7, <3>1 DEF i
  <2>2. Paired(qs, u, FALSE)
    BY <1>1, <1>2, <1>3, <1>7, PairedPushed
  <2>3. Under(Leaving, Leaving, i, r)
    <3>1. <<>> # <<Handling(FALSE)>>
      BY EmptyStack
    <3>2. x.thunk # <<Handling(FALSE)>> /\ x.f # "handling" /\ ~IsRaised(x)
      BY <1>7, <3>1 DEF IsRaised
    <3> QED
      BY <3>2, UnderTop
  <2>4. Under(Leaving, Leaving, Leaving, u)
    BY <1>2, <2>3, UnderPushed
  <2> QED
    BY <1>4, <1>5, <2>1, <2>2, <2>4 DEF Shielded
<1>8. CASE Handles(thunk) /\ PutsAside(x.bind)
  <2>1. PICK c \in BOOLEAN : thunk = <<Handling(c)>>
    BY <1>8 DEF Handles
  <2> DEFINE h == Handling(c)
  <2>2. h.f = "handling" /\ h.continuable = c
    BY DEF Handling
  <2>3. s = <<h>> \o u
    <3>1. IsStack(<<i>>)
      BY EmptyStack
    <3>2. (<<h>> \o <<i>>) \o r = <<h>> \o (<<i>> \o r)
      BY <3>1, PushedOver
    <3> QED
      BY <2>1, <3>2 DEF i
  <2>4. Covered(Leaving, Leaving, x) => ~h.continuable
    <3>1. ASSUME Covered(Leaving, Leaving, x)
          PROVE  c = FALSE
      <4>1. <<Handling(c)>> = <<Handling(FALSE)>>
        BY <2>1, <3>1 DEF Covered, Leaving
      <4>2. Handling(c) = Handling(FALSE)
        BY <4>1
      <4>3. Handling(c).continuable = Handling(FALSE).continuable
        BY <4>2
      <4> QED
        BY <4>3 DEF Handling
    <3> QED
      BY <2>2, <3>1
  <2> HIDE DEF h
  <2>5. IsFrame(qs, h, FALSE) /\ ~IsRaised(h) /\ ~IsAside(qs, h)
    BY <2>2 DEF IsFrame, IsRaised, IsAside
  <2>7. Paired(qs, u, TRUE)
    BY <1>1, <1>2, <1>3, <1>8, PairedPushed
  <2>13. u = <<i>> \o r
    OBVIOUS
  <2> HIDE DEF u
  <2>6. Frames(qs, s, FALSE)
    BY <1>4, <1>5, <2>3, <2>5, FramesPushed
  <2>8. Paired(qs, s, FALSE)
    <3>1. u # <<>> /\ IsAside(qs, u[1])
      BY <1>2, <1>4, <1>8
    <3>2. \A z : z = <<h>> \o u =>
            (Paired(qs, z, FALSE) <=>
               /\ Paired(qs, u, TRUE)
               /\ h.f = "handling" => u # <<>> /\ IsAside(qs, u[1])
               /\ IsAside(qs, h) => FALSE
               /\ u # <<>> /\ IsAside(qs, u[1]) => h.f = "handling")
      BY ONLY <1>4, PairedPushed
    <3> QED
      BY ONLY <2>2, <2>3, <2>5, <2>7, <3>1, <3>2
  <2>9. Under(Leaving, h, i, r)
    <3>1. Covered(Leaving, Leaving, x) => Covered(Leaving, h, i)
      BY <1>1, <2>2, <2>4 DEF Covered
    <3>2. \A y : Covered(Leaving, x, y) => Covered(h, i, y)
      BY <1>6 DEF Covered
    <3>3. \A y, z : Covered(x, y, z) => Covered(i, y, z)
      BY DEF Covered, IsRaised
    <3> QED
      BY <3>1, <3>2, <3>3, UnderChanged
  <2>10. Under(Leaving, Leaving, h, u)
    <3>1. \A z : z = <<i>> \o r =>
            (Under(Leaving, Leaving, h, z) <=>
               (IsRaised(i) => Covered(Leaving, Leaving, h)) /\ Under(Leaving, h, i, r))
      BY UnderPushed
    <3> QED
      BY ONLY <1>2, <2>9, <2>13, <3>1
  <2>11. Shielded(s)
    <3>1. \A z : z = <<h>> \o u =>
            (Under(Leaving, Leaving, Leaving, z) <=>
               (IsRaised(h) => Covered(Leaving, Leaving, Leaving)) /\ Under(Leaving, Leaving, h, u))
      BY ONLY <1>4, UnderPushed
    <3> QED
      BY ONLY <2>3, <2>5, <2>10, <3>1 DEF Shielded
  <2>12. IsStack(s)
    BY <1>4, <2>3, Stacks
  <2> QED
    BY <2>6, <2>8, <2>11, <2>12
<1> QED
  BY <1>7, <1>8

(* Frames are put on a part of a stack. *)
PutOn(qs, front, r, w, a, b) ==
  \E u : IsStack(u) /\ AllFit(u, w) /\ Nested(qs, u, a, b) /\ front \o (r \o w) = u \o w

LEMMA EnteredNested ==
  ASSUME NEW qs, NEW r, IsStack(r), NEW w, IsStack(w), AllFit(r, w),
         NEW e \in Seq(Nat), NEW b, Nested(qs, r, e, b),
         NEW i, i.f = "inside", i.point \in Nat, NEW thunk,
         thunk = <<>> \/ (Handles(thunk) /\ w = <<>>),
         NEW front, front = thunk \o <<i>>
  PROVE  PutOn(qs, front, r, w, Append(e, i.point), b)
<1> DEFINE p == i.point
           u == <<i>> \o r
           a == Append(e, p)
<1>1. i.f = "inside" /\ i.point = p
  OBVIOUS
<1>2. a \in Seq(Nat)
  BY AppendProperties
<1> HIDE DEF p
<1>3. IsStack(u) /\ u \o w = <<i>> \o (r \o w) /\ IsStack(r \o w)
  <2>1. IsStack(r \o w)
    BY StackParts
  <2>2. IsStack(<<i>> \o r) /\ (<<i>> \o r) \o w = <<i>> \o (r \o w)
    BY ONLY IsStack(r), IsStack(w), PushedOver
  <2> QED
    BY <2>1, <2>2
<1>4. AllFit(u, w)
  <2>1. Fits(i, w)
    BY <1>1 DEF Fits
  <2> QED
    BY <2>1, FitPushed
<1>5. Nested(qs, u, a, b)
  <2>1. Above(i, e) = a /\ Kept(qs, i, e)
    BY <1>1 DEF Above, Kept
  <2>2. i.f = "inside" => i.point \in Nat
    BY <1>1
  <2> HIDE DEF a
  <2>3. Nested(qs, <<i>> \o r, a, b)
          <=> \E d \in Seq(Nat) : a = Above(i, d) /\ Kept(qs, i, d) /\ Nested(qs, r, d, b)
    BY <1>2, <2>2, NestedPushed
  <2> QED
    BY <2>1, <2>3
<1>6. CASE thunk = <<>>
  <2>1. <<>> \o <<i>> = <<i>>
    BY EmptyStack, StackParts
  <2>2. (thunk \o <<i>>) \o (r \o w) = u \o w
    BY <1>3, <1>6, <2>1
  <2> QED
    BY <1>3, <1>4, <1>5, <2>2 DEF p, PutOn
<1>7. CASE Handles(thunk) /\ w = <<>>
  <2>1. PICK c \in BOOLEAN : thunk = <<Handling(c)>>
    BY <1>7 DEF Handles
  <2> DEFINE h == Handling(c)
             v == <<h>> \o u
  <2>2. h.f = "handling"
    BY DEF Handling
  <2> HIDE DEF h
  <2>3. (<<h>> \o <<i>>) \o (r \o w) = <<h>> \o (<<i>> \o (r \o w))
    <3> DEFINE y == r \o w
               z == <<i>>
    <3>1. IsStack(y) /\ IsStack(z)
      BY <1>3, EmptyStack
    <3> HIDE DEF y, z
    <3>2. (<<h>> \o z) \o y = <<h>> \o (z \o y)
      BY ONLY <3>1, PushedOver
    <3> QED
      BY <3>2 DEF y, z
  <2> HIDE DEF u
  <2>4. IsStack(v) /\ v \o w = <<h>> \o (u \o w)
    BY <1>3, PushedOver
  <2>5. AllFit(v, w)
    <3>1. Fits(h, w)
      BY <1>7, <2>2 DEF Fits
    <3> QED
      BY <1>3, <1>4, <3>1, FitPushed
  <2>6. Nested(qs, v, a, b)
    <3>1. Above(h, a) = a /\ Kept(qs, h, a)
      BY <2>2 DEF Above, Kept
    <3>2. h.f = "inside" => h.point \in Nat
      BY <2>2
    <3> HIDE DEF a
    <3>3. Nested(qs, <<h>> \o u, a, b)
            <=> \E d \in Seq(Nat) : a = Above(h, d) /\ Kept(qs, h, d) /\ Nested(qs, u, d, b)
      BY <1>2, <1>3, <3>2, NestedPushed
    <3> QED
      BY <1>2, <1>5, <3>1, <3>3
  <2>7. (thunk \o <<i>>) \o (r \o w) = v \o w
    BY <1>3, <2>1, <2>3, <2>4 DEF h
  <2> HIDE DEF v
  <2> QED
    BY <2>4, <2>5, <2>6, <2>7 DEF p, PutOn
<1> QED
  BY <1>6, <1>7

LEMMA ReturnEnteringKeeps ==
  ASSUME IInv, ReturnEntering
  PROVE  IInv'
<1> DEFINE x == stack[1]
           r == Tail(stack)
           p == Len(points) + 1
           qs == Append(points, Point(points[currentPoint].depth + 1, x.bind, currentPoint))
<1>1. Returns("entering")
  BY DEF ReturnEntering
<1>2. /\ x.f = "entering" /\ Head(stack) = x /\ IsStack(r) /\ Frames(points, r, FALSE)
      /\ Paired(points, r, TRUE) /\ (r # <<>> => ~IsAside(points, r[1]))
      /\ Under(Leaving, Leaving, x, r)
      /\ IsEntering(x)
  BY <1>1, AtReturn DEF IsFrame
<1>3. /\ points' = qs /\ currentPoint' = p
      /\ stack' = (x.thunk \o <<Inside(p, currentPoint)>>) \o r
      /\ extent' = Append(extent, p) /\ at' = "run"
      /\ UNCHANGED continuations
      /\ ReturnBefore(x.bind, p)
  BY <1>2 DEF ReturnEntering, travelVars
<1>4. PICK t, w, b, d :
           /\ IsRunning(t, w, b) /\ t # <<>> /\ IsStack(w)
           /\ t[1] = stack[1] /\ Tail(stack) = Tail(t) \o w /\ IsStack(Tail(t))
           /\ d \in Seq(Nat) /\ extent = Above(stack[1], d)
           /\ Kept(points, stack[1], d) /\ Nested(points, Tail(t), d, b)
  BY <1>1, InProgram
<1>5. /\ IsTree(points) /\ currentPoint \in 1 .. Len(points) /\ x.bind \in Binds
      /\ OneByOne(x.bind) /\ Scoped(points, extent)
      /\ Restores(points, x.bind, extent)
      /\ extent \in Seq(Nat) /\ extent \in Seq(2 .. Len(points))
  <2>1. extent = d /\ Restores(points, x.bind, d)
    BY <1>2, <1>4 DEF Above, Kept
  <2> QED
    BY <1>2, <2>1, ExtentType DEF IInv, IsEntering
<1>6. /\ Grown(points, qs) /\ qs[p].bind = x.bind /\ qs[p].parent = currentPoint
      /\ p \in 2 .. Len(qs) /\ PathIn(qs, p) = Append(PathIn(qs, currentPoint), p)
  BY <1>5, Grows
<1>7. /\ \/ x.thunk = <<>> /\ ~PutsAside(x.bind)
         \/ Handles(x.thunk) /\ PutsAside(x.bind)
      /\ x.thunk # <<>> => w = <<>>
  <2>1. Fits(x, w)
    BY <1>4, FitTail
  <2> QED
    BY <1>2, <2>1 DEF IsEntering, Fits
<1>8. PathIn(qs, currentPoint) = PathIn(points, currentPoint) /\ extent = d
  BY <1>2, <1>4, <1>5, <1>6, PathGrown DEF Above
<1>9. p \in Nat /\ p \in 1 .. Len(qs) /\ Len(qs) = Len(points) + 1 /\ IsTree(qs)
  BY <1>5, <1>6, TreePoint DEF Grown
<1> HIDE DEF x, r, p, qs
<1>10. Running'
  <2>1. PICK u : /\ IsStack(u) /\ AllFit(u, w) /\ Nested(qs, u, Append(extent, p), b)
                 /\ stack' = u \o w
    <3>1. AllFit(Tail(t), w)
      BY <1>4, FitTail
    <3> DEFINE y == Tail(t)
               thunk == x.thunk
    <3>2. IsStack(y) /\ AllFit(y, w) /\ Nested(qs, y, extent, b) /\ IsStack(w)
      <4>1. IsStack(y) /\ Nested(points, y, extent, b)
        BY <1>4, <1>8
      <4>2. Len(y) \in Nat
        BY <4>1, Stacks DEF IsStack
      <4> HIDE DEF y
      <4>3. Nested(qs, y, extent, b)
        BY <1>5, <1>6, <4>1, <4>2, NestedGrown
      <4> QED
        BY <1>4, <3>1, <4>1, <4>3 DEF y
    <3>3. thunk = <<>> \/ (Handles(thunk) /\ w = <<>>)
      <4>1. thunk # <<>> => w = <<>>
        BY <1>7
      <4> QED
        BY <1>7, <4>1
    <3> DEFINE i == Inside(p, currentPoint)
               front == thunk \o <<i>>
    <3>4. stack' = front \o (y \o w)
      BY <1>3, <1>4 DEF r
    <3>5. i.f = "inside" /\ i.point = p /\ i.point \in Nat
      BY <1>9 DEF Inside
    <3>6. front = thunk \o <<i>>
      OBVIOUS
    <3> HIDE DEF y, thunk, i, front
    <3>7. PutOn(qs, front, y, w, Append(extent, i.point), b)
      BY ONLY <1>5, <3>2, <3>3, <3>5, <3>6, EnteredNested
    <3> QED
      BY <3>4, <3>5, <3>7 DEF PutOn
  <2>3. w = <<>> => extent' = PathIn(points', currentPoint')
    <3>1. w = <<>> => extent = PathIn(points, currentPoint)
      BY <1>4, RunningParts
    <3> QED
      BY <1>3, <1>6, <1>8, <3>1
  <2>4. Nested(points', u, extent', b) /\ Grown(points, points') /\ at' = "run"
    BY <1>3, <1>6, <2>1
  <2> QED
    BY <1>4, <2>1, <2>3, <2>4, RunningKept
<1>11. StackInv'
  <2>1. Frames(qs, r, FALSE)
    <3>1. Frames(qs, r, FALSE)
      BY <1>2, <1>6, FramesGrown
    <3> QED
      BY <3>1, FramesMoved
  <2>2. Paired(qs, r, FALSE)
    <3>1. Paired(points, r, FALSE)
      BY <1>2, PairedReturns
    <3> QED
      BY <1>2, <1>6, <3>1, PairedGrown
  <2>3. stack' = (x.thunk \o <<Inside(p, qs[p].parent)>>) \o r
    BY <1>3, <1>6
  <2> DEFINE thunk == x.thunk
  <2>5. \/ thunk = <<>> /\ ~PutsAside(x.bind)
        \/ Handles(thunk) /\ PutsAside(x.bind)
    BY <1>7
  <2>6. thunk = x.thunk /\ stack' = (thunk \o <<Inside(p, qs[p].parent)>>) \o r
    BY <2>3
  <2> HIDE DEF thunk
  <2>4. IsStack(stack') /\ Frames(qs, stack', FALSE) /\ Paired(qs, stack', FALSE)
        /\ Shielded(stack')
    BY ONLY <1>2, <1>6, <2>1, <2>2, <2>5, <2>6, EnteredStack
  <2> QED
    BY <1>3, <2>4, StackKept
<1>12. ValueInv'
  <2>1. ValuesAre(value, points, extent)
    BY DEF IInv, ValueInv
  <2>2. ValuesAre(value, qs, extent)
    BY <1>5, <1>6, <2>1, ValueGrown
  <2> DEFINE bind == qs[p].bind
  <2>3. /\ bind = <<>> => ValuesAre(value, qs, Append(extent, p))
        /\ bind # <<>> =>
             ValuesAre([value EXCEPT ![bind[1]] = Given(bind, p)], qs, Append(extent, p))
    BY <1>5, <1>6, <1>9, <2>2, ValueEntered
  <2>4. bind = x.bind
    BY <1>6
  <2> HIDE DEF bind
  <2>5. ValuesAre(value', qs, Append(extent, p))
    BY <1>3, <2>3, <2>4 DEF ReturnBefore, SetParameter
  <2> QED
    BY <1>3, <2>5 DEF ValueInv
<1>13. Scoped(qs, extent')
  <2>1. Scoped(qs, extent)
    BY <1>5, <1>6, ScopedGrown
  <2>2. Restores(qs, qs[p].bind, extent)
    BY <1>5, <1>6, RestoresGrown
  <2> QED
    BY <1>3, <1>5, <1>6, <1>9, <2>1, <2>2, ScopedAppend
<1>14. \A i \in 1 .. Len(continuations) : IsContinuation(qs, continuations[i])
  BY <1>6, ContinuationGrown DEF IInv
<1> QED
  BY <1>3, <1>9, <1>10, <1>11, <1>12, <1>13, <1>14 DEF IInv

LEMMA StackTop ==
  ASSUME NEW x, NEW s, IsStack(s), NEW u, u = <<x>> \o s
  PROVE  IsStack(u) /\ u # <<>> /\ u[1] = x
BY Stacks, Pushed DEF IsStack

(* What a call of a handler puts on a stack. *)
Raises(ps, s, x, y) ==
  /\ IsStack(s) /\ Frames(ps, s, FALSE) /\ Paired(ps, s, FALSE)
  /\ y.f = "raised" /\ y.continuable \in BOOLEAN
  /\ x.f = "entering" /\ x.bind # <<>> /\ x.thunk = <<Handling(y.continuable)>>
  /\ IsEntering(x)
  /\ Under(Leaving, x, y, s)

OnTop(u, x, s) == u = <<x>> \o s

LEMMA HandlerFrames ==
  ASSUME NEW ps, NEW s, NEW x, NEW y, Raises(ps, s, x, y),
         NEW u, OnTop(u, y, s), NEW v, OnTop(v, x, u)
  PROVE  IsStack(u) /\ IsStack(v) /\ v # <<>> /\ v[1] = x /\ Frames(ps, v, TRUE)
         /\ Paired(ps, v, TRUE) /\ Shielded(v)
<1> DEFINE c == y.continuable
<1>0. /\ IsStack(s) /\ Frames(ps, s, FALSE) /\ Paired(ps, s, FALSE)
      /\ y.f = "raised" /\ y.continuable = c /\ c \in BOOLEAN
      /\ x.f = "entering" /\ x.bind # <<>> /\ x.thunk = <<Handling(c)>>
      /\ IsEntering(x) /\ Under(Leaving, x, y, s)
  BY DEF Raises
<1> HIDE DEF c
<1>10. u = <<y>> \o s /\ v = <<x>> \o u
  BY DEF OnTop
<1>1. IsStack(u) /\ IsStack(v) /\ v # <<>> /\ v[1] = x /\ u # <<>> /\ u[1] = y
  <2>1. IsStack(u) /\ u # <<>> /\ u[1] = y
    BY <1>0, <1>10, StackTop
  <2> QED
    BY <1>10, <2>1, StackTop
<1>2. IsFrame(ps, y, FALSE) /\ ~IsAside(ps, y)
  BY <1>0 DEF IsFrame, IsAside
<1>3. IsFrame(ps, x, TRUE) /\ ~IsAside(ps, x) /\ ~IsRaised(x)
  BY <1>0 DEF IsFrame, IsAside, IsRaised
<1>4. Frames(ps, u, FALSE)
  BY <1>0, <1>2, <1>10, FramesPushed
<1>5. Frames(ps, v, TRUE)
  BY <1>1, <1>3, <1>4, <1>10, FramesPushed
<1>6. Paired(ps, u, TRUE)
  <2>1. Paired(ps, s, TRUE) /\ (s # <<>> => ~IsAside(ps, s[1]))
    BY <1>0, PairedReturns
  <2> QED
    BY <1>0, <1>2, <1>10, <2>1, PairedPushed
<1>7. Paired(ps, v, TRUE)
  <2>1. v = <<x>> \o u /\ x.f # "handling" /\ TRUE \in BOOLEAN
    BY <1>0, <1>10
  <2>2. \A z : z = <<x>> \o u =>
          (Paired(ps, z, TRUE) <=>
             /\ Paired(ps, u, TRUE)
             /\ x.f = "handling" => u # <<>> /\ IsAside(ps, u[1])
             /\ IsAside(ps, x) => TRUE
             /\ u # <<>> /\ IsAside(ps, u[1]) => x.f = "handling")
    BY ONLY <1>1, PairedPushed
  <2> QED
    BY ONLY <1>1, <1>2, <1>6, <2>1, <2>2
<1>8. Under(Leaving, Leaving, x, u)
  <2>1. IsRaised(y) => Covered(Leaving, Leaving, x)
    BY <1>0 DEF IsRaised, Covered
  <2> QED
    BY <1>0, <1>10, <2>1, UnderPushed
<1>9. Shielded(v)
  <2>1. v = <<x>> \o u
    BY <1>10
  <2>2. \A z : z = <<x>> \o u =>
          (Under(Leaving, Leaving, Leaving, z) <=>
             (IsRaised(x) => Covered(Leaving, Leaving, Leaving)) /\ Under(Leaving, Leaving, x, u))
    BY ONLY <1>1, UnderPushed
  <2> QED
    BY ONLY <1>3, <1>8, <2>1, <2>2 DEF Shielded
<1> QED
  BY <1>1, <1>5, <1>7, <1>9

(* A call of the handler in a part of what runs. *)
LEMMA HandlerKeeps ==
  ASSUME IInv, ValuesAre(value, points, extent), value[Handler] # 0,
         NEW t, IsRunning(t, <<>>, <<>>),
         NEW s, IsStack(s), AllFit(s, <<>>), Nested(points, s, extent, <<>>),
         Frames(points, s, FALSE), Paired(points, s, FALSE),
         NEW c \in BOOLEAN,
         \A x : x.f = "entering" => Under(Leaving, x, Raised(c), s),
         DynamicWind(<<Handler, value[Handler] - 1, value[Handler]>>, <<Handling(c)>>,
                     <<Raised(c)>> \o s)
  PROVE  IInv'
<1> DEFINE n == value[Handler]
           bind == <<Handler, n - 1, n>>
           x == Entering(bind, <<Handling(c)>>)
           y == Raised(c)
           u == <<y>> \o s
<1>1. n \in Nat /\ n - 1 \in Nat /\ n - 1 \in Source /\ n - 1 # Computed /\ Handler \in Parameter
  <2>1. Handler \in Parameter
    BY ExceptionsAssumption
  <2> HIDE DEF Handler
  <2>2. n \in Nat
    BY <2>1, Restored
  <2> HIDE DEF n
  <2>3. n # 0
    BY DEF n
  <2> QED
    BY <2>1, <2>2, <2>3 DEF Source, Computed
<1>2. bind \in Binds /\ bind # <<>> /\ bind[1] = Handler /\ bind[2] = n - 1 /\ bind[3] = n
  BY <1>1, BindMade
<1>3. Restores(points, bind, extent)
  BY <1>1, Restored
<1>4. /\ stack' = <<x>> \o u
      /\ UNCHANGED <<points, currentPoint, continuations, extent>>
      /\ at' = "return" /\ UNCHANGED value
  <2>1. ~RunsProgram(bind)
    BY <1>1, <1>2 DEF RunsProgram
  <2> QED
    BY <2>1 DEF DynamicWind, CallBefore, pointVars, travelVars
<1>5. PutsAside(bind) /\ OneByOne(bind)
  <2> HIDE DEF bind
  <2>1. bind[2] < bind[3] /\ bind[3] = bind[2] + 1 /\ bind[2] \in Nat
    BY <1>1, <1>2
  <2> QED
    BY <1>2, <2>1 DEF PutsAside, OneByOne
<1>6. x.f = "entering" /\ x.bind = bind /\ x.thunk = <<Handling(c)>>
  BY DEF Entering
<1>7. y.f = "raised" /\ y.continuable = c
  BY DEF Raised
<1>8. Under(Leaving, x, y, s)
  BY <1>6
<1>9. u = <<y>> \o s
  OBVIOUS
<1> HIDE DEF n, bind, x, y, u
<1>10. IsEntering(x)
  BY <1>2, <1>5, <1>6 DEF IsEntering, Handles
<1>11. IsStack(u) /\ IsStack(stack') /\ stack' # <<>> /\ stack'[1] = x
       /\ Frames(points, stack', TRUE) /\ Paired(points, stack', TRUE) /\ Shielded(stack')
  <2>1. Raises(points, s, x, y)
    BY <1>2, <1>6, <1>7, <1>8, <1>10 DEF Raises
  <2>2. OnTop(u, y, s) /\ OnTop(stack', x, u)
    BY <1>4, <1>9 DEF OnTop
  <2> QED
    BY ONLY <2>1, <2>2, HandlerFrames
<1>12. extent \in Seq(Nat) /\ Scoped(points, extent) /\ currentPoint \in 1 .. Len(points)
  BY ExtentType DEF IInv
<1>13. Running'
  <2>1. AllFit(u, <<>>) /\ AllFit(stack', <<>>)
    <3>1. Fits(x, <<>>) /\ Fits(y, <<>>)
      BY <1>6, <1>7 DEF Fits
    <3>2. AllFit(u, <<>>)
      BY <1>9, <3>1, FitPushed
    <3> QED
      BY <1>4, <1>11, <3>1, <3>2, FitPushed
  <2>2. Nested(points, u, extent, <<>>)
    <3>1. Above(y, extent) = extent /\ y.f # "inside" /\ Kept(points, y, extent)
      BY <1>7 DEF Above, Kept
    <3>2. Nested(points, <<y>> \o s, extent, <<>>)
            <=> \E d \in Seq(Nat) :
                  extent = Above(y, d) /\ Kept(points, y, d) /\ Nested(points, s, d, <<>>)
      BY <1>12, <3>1, NestedPushed
    <3> QED
      BY <1>9, <1>12, <3>1, <3>2
  <2>3. Nested(points, stack', extent, <<>>)
    <3>1. Above(x, extent) = extent /\ x.f # "inside" /\ Kept(points, x, extent)
      BY <1>3, <1>6 DEF Above, Kept
    <3>2. Nested(points, <<x>> \o u, extent, <<>>)
            <=> \E d \in Seq(Nat) :
                  extent = Above(x, d) /\ Kept(points, x, d) /\ Nested(points, u, d, <<>>)
      BY <1>11, <1>12, <3>1, NestedPushed
    <3> QED
      BY <1>4, <1>12, <2>2, <3>1, <3>2
  <2>4. stack' = stack' \o <<>>
    BY <1>11, StackParts, EmptyStack
  <2>5. extent' = PathIn(points', currentPoint')
    BY <1>4, RunningParts
  <2> DEFINE z == stack'
  <2>6. IsStack(z) /\ stack' = z \o <<>> /\ Nested(points', z, extent', <<>>) /\ AllFit(z, <<>>)
    BY <1>4, <1>11, <2>1, <2>3, <2>4
  <2> HIDE DEF z
  <2> QED
    BY <1>4, <2>5, <2>6, RunningKept
<1>14. StackInv'
  BY <1>4, <1>11, StackKept
<1>15. ValueInv'
  BY <1>4 DEF ValueInv
<1> QED
  BY <1>4, <1>12, <1>13, <1>14, <1>15, RestKept

-----------------------------------------------------------------------------
(* The steps to a jump and of a travel.                                    *)

(* A stack of a travel, and what is called in it. *)
LEMMA TravelStack ==
  ASSUME IsStack(stack'), Plain(stack'), stack' # <<>>
  PROVE  StackInv'
<1> DEFINE r == at' = "return"
<1>1. r \in BOOLEAN /\ (r => at' = "return") /\ (~r => at' # "return")
  OBVIOUS
<1> HIDE DEF r
<1>2. Frames(points', stack', r) /\ Paired(points', stack', r)
  BY <1>1, PlainStack
<1>3. Shielded(stack')
  BY PlainStack DEF Shielded
<1> QED
  BY <1>1, <1>2, <1>3, StackKept

LEMMA ChainStack ==
  ASSUME NEW ps, NEW s, NEW q, Chain(ps, s, q)
  PROVE  IsStack(s) /\ Plain(s) /\ s # <<>> /\ s[1].f \in {"enter", "jump"}
<1>1. /\ s # <<>> /\ IsStack(s) /\ Len(s) \in Nat \ {0}
      /\ \A i \in 1 .. Len(s) : s[i].f \in {"enter", "jump"}
  BY ChainTop
<1>2. 1 \in 1 .. Len(s)
  BY <1>1
<1> QED
  BY <1>1, <1>2 DEF Plain

(* The call of a continuation where the extent is that of current-point. *)
LEMMA JumpKeeps ==
  ASSUME IInv, NEW k, IsContinuation(points, k), CallContinuation(k),
         extent = PathIn(points, currentPoint), ValuesAre(value, points, extent)
  PROVE  IInv'
<1>1. /\ stack' = <<Jump(k)>> /\ at' = "travel" /\ from' = currentPoint /\ to' = k.point
      /\ UNCHANGED <<points, currentPoint, value, continuations, extent>>
  BY DEF CallContinuation, pointVars
<1>2. Chain(points, stack', k.point)
  BY <1>1, ChainJump
<1>3. Travelling'
  BY <1>1, <1>2 DEF Travelling, IInv
<1>4. StackInv'
  BY <1>2, ChainStack, TravelStack
<1>6. ValueInv'
  BY <1>1 DEF ValueInv
<1> QED
  BY <1>1, <1>3, <1>4, <1>6, RestKept DEF IInv

LEMMA UnwindContinues ==
  ASSUME NEW ps, IsTree(ps)
  PROVE  IsContinuation(ps, unwind)
<1> DEFINE k == unwind
<1>1. k.stack = <<>> /\ k.point = Root /\ k.at = "halted"
  BY DEF unwind
<1>2. Root \in 1 .. Len(ps) /\ PathIn(ps, Root) = <<>>
  BY TreePoint, PathStep
<1>3. IsStack(<<>>) /\ Len(<<>>) = 0
  BY EmptyStack
<1>4. Plain(<<>>)
  BY <1>3 DEF Plain
<1>5. Frames(ps, <<>>, FALSE) /\ Paired(ps, <<>>, FALSE) /\ Shielded(<<>>)
  BY <1>4, PlainStack DEF Shielded
<1>6. Nested(ps, <<>>, <<>>, <<>>)
  <2> DEFINE e == <<>>
  <2>1. e \in Seq(Nat)
    OBVIOUS
  <2> HIDE DEF e
  <2>2. Nested(ps, <<>>, e, e) <=> e = e
    BY <2>1, NestedEmpty
  <2> QED
    BY <2>2 DEF e
<1>7. Scoped(ps, <<>>)
  BY ScopedEmpty
<1> HIDE DEF k
<1>8. \A i \in 1 .. Len(<<>>) : FALSE
  BY <1>3
<1>9. IsContinuation(ps, k)
  BY <1>1, <1>2, <1>3, <1>5, <1>6, <1>7, <1>8 DEF IsContinuation
<1> QED
  BY <1>9 DEF k

LEMMA RaiseKeeps ==
  ASSUME IInv, ~Escapes, NEW c \in BOOLEAN, Raise(c)
  PROVE  IInv'
<1>1. at = "run" /\ ~InThunk /\ CallHandler(c, stack)
  BY DEF Raise
<1>2. /\ AllFit(stack, <<>>) /\ Nested(points, stack, extent, <<>>)
      /\ extent = PathIn(points, currentPoint) /\ IsRunning(stack, <<>>, <<>>)
  BY <1>1, OutOfThunk
<1>3. /\ IsStack(stack) /\ Frames(points, stack, FALSE) /\ Paired(points, stack, TRUE)
      /\ stack # <<>> => ~IsAside(points, stack[1])
      /\ Shielded(stack)
      /\ ValuesAre(value, points, extent)
  BY <1>1, AtRun
<1>4. CASE value[Handler] = 0
  <2>1. CallContinuation(unwind)
    BY <1>1, <1>4 DEF CallHandler
  <2>2. IsContinuation(points, unwind)
    BY UnwindContinues DEF IInv
  <2> QED
    BY <1>2, <1>3, <2>1, <2>2, JumpKeeps
<1>5. CASE value[Handler] # 0
  <2>1. DynamicWind(<<Handler, value[Handler] - 1, value[Handler]>>, <<Handling(c)>>,
                    <<Raised(c)>> \o stack)
    BY <1>1, <1>5 DEF CallHandler
  <2>2. Paired(points, stack, FALSE)
    BY <1>3, PairedReturns
  <2>3. ASSUME NEW x, x.f = "entering"
        PROVE  Under(Leaving, x, Raised(c), stack)
    <3>1. ~Covered(Leaving, Leaving, Leaving)
      BY DEF Covered, Leaving
    <3>2. \A z : Covered(Leaving, Leaving, z) => Covered(x, Raised(c), z)
      BY DEF Covered, Leaving
    <3>3. \A z, v : Covered(Leaving, z, v) => Covered(Raised(c), z, v)
      BY DEF Covered, Leaving, IsRaised
    <3> DEFINE y == Raised(c)
    <3> HIDE DEF y
    <3>4. /\ \A z : Covered(Leaving, Leaving, z) => Covered(x, y, z)
          /\ \A z, v : Covered(Leaving, z, v) => Covered(y, z, v)
      BY <3>2, <3>3 DEF y
    <3>5. Under(Leaving, Leaving, Leaving, stack)
      BY <1>3 DEF Shielded
    <3>6. Under(Leaving, x, y, stack)
      BY <1>3, <3>1, <3>4, <3>5, UnderChanged
    <3> QED
      BY <3>6 DEF y
  <2>4. \A x : x.f = "entering" => Under(Leaving, x, Raised(c), stack)
    BY <2>3
  <2> QED
    BY <1>2, <1>3, <1>5, <2>1, <2>2, <2>4, HandlerKeeps
<1> QED
  BY <1>4, <1>5

LEMMA CallCCKeeps ==
  ASSUME IInv, ~Escapes, CallCC
  PROVE  IInv'
<1> DEFINE k == Continuation
<1>1. /\ at = "run" /\ ~InThunk /\ continuations' = Append(continuations, k)
      /\ UNCHANGED <<points, currentPoint, value, stack, at, from, to, extent>>
  BY DEF CallCC, pointVars, travelVars
<1>2. /\ Nested(points, stack, extent, <<>>) /\ extent = PathIn(points, currentPoint)
      /\ \A i \in 1 .. Len(stack) : Resumed(stack[i])
  BY <1>1, OutOfThunk
<1>3. /\ IsStack(stack) /\ Frames(points, stack, FALSE) /\ Paired(points, stack, TRUE)
      /\ stack # <<>> => ~IsAside(points, stack[1])
      /\ Shielded(stack)
  BY <1>1, AtRun
<1>4. Frames(points, stack, FALSE) /\ Paired(points, stack, FALSE)
  BY <1>3, FramesMoved, PairedReturns
<1>5. k.stack = stack /\ k.point = currentPoint /\ k.at = "run"
  BY DEF Continuation
<1> HIDE DEF k
<1>6. IsContinuation(points, k)
  BY <1>2, <1>3, <1>4, <1>5 DEF IsContinuation, IInv
<1>7. /\ continuations' \in Seq(Range(continuations'))
      /\ \A i \in 1 .. Len(continuations') : IsContinuation(points, continuations'[i])
  <2> DEFINE S == Range(continuations) \cup {k}
             c == continuations
             d == continuations'
  <2>1. c \in Seq(S) /\ k \in S /\ d = Append(c, k)
    BY <1>1, SeqMonotonic DEF IInv
  <2>2. \A i \in 1 .. Len(c) : IsContinuation(points, c[i])
    BY DEF IInv
  <2> HIDE DEF S, c, d
  <2>3. /\ d \in Seq(S) /\ Len(d) = Len(c) + 1 /\ d[Len(c) + 1] = k /\ Len(c) \in Nat
        /\ \A i \in 1 .. Len(c) : d[i] = c[i]
    BY <2>1, AppendProperties
  <2>4. d \in Seq(Range(d))
    BY <2>3, SeqOfRange
  <2>5. \A i \in 1 .. Len(d) : i \in 1 .. Len(c) \/ i = Len(c) + 1
    BY <2>3
  <2>6. \A i \in 1 .. Len(d) : IsContinuation(points, d[i])
    BY <1>6, <2>2, <2>3, <2>5
  <2> QED
    BY <2>4, <2>6 DEF d
<1>8. StackInv' /\ ValueInv'
  BY <1>1 DEF IInv, StackInv, ValueInv
<1>9. Running'
  <2>1. Running
    BY <1>1, AtRun
  <2> QED
    BY <1>1, <2>1 DEF Running, IsRunning
<1> QED
  BY <1>1, <1>7, <1>8, <1>9 DEF IInv

LEMMA EscapeKeeps ==
  ASSUME IInv, ~Escapes, NEW i \in DOMAIN continuations, EscapeTo(continuations[i])
  PROVE  IInv'
<1> DEFINE k == continuations[i]
<1>1. at = "run" /\ ~InThunk /\ CallContinuation(k)
  BY DEF EscapeTo
<1>2. i \in 1 .. Len(continuations)
  BY DEF IInv
<1>3. IsContinuation(points, k)
  BY <1>2 DEF IInv
<1> HIDE DEF k
<1>4. extent = PathIn(points, currentPoint)
  BY <1>1, OutOfThunk
<1>5. ValuesAre(value, points, extent)
  BY <1>1, AtRun
<1> QED
  BY <1>1, <1>3, <1>4, <1>5, JumpKeeps

LEMMA TravelArrivedKeeps ==
  ASSUME IInv, TravelArrived
  PROVE  IInv'
<1>1. /\ at = "travel" /\ from = to /\ at' = "return"
      /\ UNCHANGED <<points, currentPoint, value, stack, continuations, extent>>
  BY DEF TravelArrived, pointVars
<1>2. Chain(points, stack, to) /\ extent = PathIn(points, to)
  BY <1>1 DEF IInv, Running, IsRunning, Arrived, Travelling
<1>3. Arrived'
  BY <1>1, <1>2 DEF Arrived
<1>4. StackInv'
  BY <1>1, <1>2, ChainStack, TravelStack
<1>5. ValueInv'
  BY <1>1 DEF IInv, ValueInv
<1> QED
  BY <1>1, <1>3, <1>4, <1>5, RestKept DEF IInv

(* Where a travel goes on. *)
LEMMA AtTravel ==
  ASSUME IInv, at = "travel"
  PROVE  /\ Chain(points, stack, to) /\ to \in 1 .. Len(points)
         /\ from \in 1 .. Len(points) /\ extent = PathIn(points, from)
         /\ ValuesAre(value, points, extent)
<1>1. Chain(points, stack, to) /\ from \in 1 .. Len(points) /\ extent = PathIn(points, from)
  BY DEF IInv, Running, IsRunning, Arrived, Travelling
<1>2. to \in 1 .. Len(points)
  BY <1>1, ChainTop
<1> QED
  BY <1>1, <1>2 DEF IInv, ValueInv

LEMMA TravelInKeeps ==
  ASSUME IInv, TravelIn
  PROVE  IInv'
<1>1. /\ at = "travel" /\ from # to /\ points[from].depth < points[to].depth
      /\ stack' = <<Enter(to)>> \o stack /\ to' = points[to].parent
      /\ UNCHANGED <<points, currentPoint, value, at, from, continuations, extent>>
  BY DEF TravelIn, IsDeeper, pointVars
<1>2. /\ Chain(points, stack, to) /\ to \in 1 .. Len(points)
      /\ from \in 1 .. Len(points) /\ extent = PathIn(points, from)
      /\ ValuesAre(value, points, extent)
  BY <1>1, AtTravel
<1>3. IsTree(points)
  BY DEF IInv
<1>4. to \in 2 .. Len(points)
  <2>1. points[from].depth \in Nat /\ points[to].depth \in Nat /\ points[Root].depth = 0
    BY <1>2, <1>3, TreePoint
  <2>2. to # Root
    BY <1>1, <2>1
  <2> QED
    BY <1>2, <1>3, <2>2, TreePoint
<1>5. Chain(points, stack', to')
  BY <1>1, <1>2, <1>3, <1>4, ChainPushed
<1>6. Travelling'
  BY <1>1, <1>2, <1>5 DEF Travelling
<1>7. StackInv'
  BY <1>5, ChainStack, TravelStack
<1>8. ValueInv'
  BY <1>1, <1>2 DEF ValueInv
<1> QED
  BY <1>1, <1>6, <1>7, <1>8, RestKept DEF IInv

LEMMA PlainPushed ==
  ASSUME NEW x, x.f \in {"enter", "jump", "entered", "leave"}, NEW s, IsStack(s), Plain(s)
  PROVE  Plain(<<x>> \o s)
<1> DEFINE u == <<x>> \o s
<1>1. /\ Len(s) \in Nat /\ Len(u) = Len(s) + 1 /\ u[1] = x
      /\ \A j \in 2 .. Len(u) : j - 1 \in 1 .. Len(s) /\ u[j] = s[j - 1]
  BY Pushed, Stacks DEF IsStack
<1> HIDE DEF u
<1>2. ASSUME NEW j \in 1 .. Len(u)
      PROVE  u[j].f \in {"enter", "jump", "entered", "leave"}
  <2>1. CASE j = 1
    BY <1>1, <2>1
  <2>2. CASE j # 1
    <3>1. j \in 2 .. Len(u)
      BY <1>1, <2>2
    <3>2. j - 1 \in 1 .. Len(s) /\ u[j] = s[j - 1]
      BY <1>1, <3>1
    <3> QED
      BY <3>2 DEF Plain
  <2> QED
    BY <2>1, <2>2
<1>3. Plain(u)
  BY <1>2 DEF Plain
<1> QED
  BY <1>3 DEF u

(* A travel calls a before or after procedure. *)
LEMMA CallsMade ==
  ASSUME NEW ps, NEW x, NEW p, Calls(ps, x, p), NEW s,
         Chain(ps, s, IF x.f = "entered" THEN x.point ELSE x.to)
  PROVE  LET u == <<x>> \o s
         IN /\ Calling(ps, u, PathIn(ps, ps[p].parent))
            /\ IsStack(u) /\ Plain(u) /\ u # <<>> /\ u[1] = x
<1> DEFINE u == <<x>> \o s
<1>1. IsStack(s) /\ Plain(s)
  BY ChainStack
<1>2. IsStack(u) /\ u # <<>> /\ u[1] = x /\ Tail(u) = s
  BY <1>1, Stacks, Pushed DEF IsStack
<1>3. Plain(u)
  BY <1>1, PlainPushed DEF Calls
<1>4. p \in 2 .. Len(ps)
  BY DEF Calls
<1> HIDE DEF u
<1>5. Calling(ps, u, PathIn(ps, ps[p].parent))
  BY <1>2, <1>4 DEF Calling
<1> QED
  BY <1>2, <1>3, <1>5 DEF u

LEMMA CallingRuns ==
  ASSUME Calling(points', stack', extent'), extent' \in Seq(Nat), at' \in {"run", "return"},
         stack'[1].f = "entered" /\ ~RunsProgram(points'[stack'[1].point].bind) => at' = "return"
  PROVE  Running'
<1>7. PICK w : w = stack'
  OBVIOUS
<1>8. PICK e : e = extent'
  OBVIOUS
<1>1. IsStack(<<>>) /\ Len(<<>>) = 0
  BY EmptyStack
<1>2. IsStack(w)
  BY <1>7 DEF Calling
<1>3. <<>> \o w = w
  BY <1>1, <1>2, StackParts
<1>4. Nested(points', <<>>, e, e)
  <2>1. e \in Seq(Nat)
    BY <1>8
  <2> QED
    BY <2>1, NestedEmpty
<1>5. \A i \in 1 .. Len(<<>>) : FALSE
  BY <1>1
<1>6. IsRunning(<<>>, w, e)'
  BY <1>1, <1>3, <1>4, <1>5, <1>7, <1>8 DEF IsRunning
<1> QED
  BY <1>6 DEF Running

LEMMA TravelOutKeeps ==
  ASSUME IInv, TravelOut
  PROVE  IInv'
<1> DEFINE p == from
           bind == points[p].bind
           d == PathIn(points, points[p].parent)
           x == Leave(p, to)
<1>1. /\ at = "travel" /\ p # to /\ ~(points[p].depth < points[to].depth)
      /\ stack' = <<x>> \o stack /\ extent' = Without(extent, p)
      /\ UNCHANGED <<points, currentPoint, continuations>>
      /\ bind = <<>> => at' = "run" /\ UNCHANGED value
      /\ bind # <<>> => /\ at' = "return"
                        /\ value' = [value EXCEPT ![bind[1]] = bind[3]]
  BY DEF TravelOut, IsDeeper, pointVars, CallAfter, SetParameter
<1>2. /\ Chain(points, stack, to) /\ to \in 1 .. Len(points)
      /\ p \in 1 .. Len(points) /\ extent = PathIn(points, p)
      /\ ValuesAre(value, points, extent)
  BY <1>1, AtTravel
<1>3. IsTree(points) /\ Scoped(points, extent) /\ currentPoint \in 1 .. Len(points)
  BY DEF IInv
<1>4. p \in 2 .. Len(points) /\ points[p].parent \in 1 .. Len(points) /\ p \in Nat
  <2>1. CASE p = Root
    <3>1. points[p].depth = 0 /\ points[to].depth \in Nat /\ (to # Root => points[to].depth # 0)
      BY <1>2, <1>3, <2>1, TreePoint
    <3>2. points[to].depth > 0
      BY <1>1, <2>1, <3>1
    <3> QED
      BY <1>1, <3>1, <3>2
  <2>2. CASE p # Root
    BY <1>2, <1>3, <2>2, TreePoint
  <2> QED
    BY <2>1, <2>2
<1>5. extent = Append(d, p) /\ d \in Seq(Nat)
  <2>1. extent = Append(d, p)
    BY <1>2, <1>3, <1>4, PathStep
  <2> QED
    BY <1>3, <1>4, <2>1, PathExtent
<1>6. x.f = "leave" /\ x.from = p /\ x.to = to
  BY DEF Leave
<1> HIDE DEF x, p
<1>7. extent' = d
  <2> HIDE DEF d
  <2> QED
    BY <1>1, <1>4, <1>5, WithoutLast
<1>8. Scoped(points, d) /\ Restores(points, bind, d)
  <2>1. Scoped(points, Append(d, p))
    BY <1>3, <1>5
  <2> HIDE DEF d
  <2> QED
    BY <1>4, <1>5, <2>1, ScopedAppend
<1>9. /\ Calling(points, stack', d) /\ IsStack(stack') /\ Plain(stack')
      /\ stack' # <<>> /\ stack'[1] = x
  <2>1. Calls(points, x, p)
    BY <1>4, <1>6 DEF Calls
  <2>2. Chain(points, stack, IF x.f = "entered" THEN x.point ELSE x.to)
    BY <1>2, <1>6
  <2> QED
    BY <1>1, <2>1, <2>2, CallsMade
<1> HIDE DEF d
<1>10. at' \in {"run", "return"} /\ points' = points
  BY <1>1
<1>11. Running'
  BY <1>5, <1>6, <1>7, <1>9, <1>10, CallingRuns
<1>12. StackInv'
  BY <1>9, TravelStack
<1>13. ValueInv'
  <2>1. ValuesAre(value, points, Append(d, p))
    BY <1>2, <1>5
  <2>2. ValuesAre(value', points, d)
    <3>1. /\ bind = <<>> => ValuesAre(value, points, d)
          /\ bind # <<>> => ValuesAre([value EXCEPT ![bind[1]] = bind[3]], points, d)
      BY <1>3, <1>4, <1>5, <1>8, <2>1, ValueLeaving
    <3> QED
      BY <1>1, <3>1
  <2> QED
    BY <1>7, <1>10, <2>2 DEF ValueInv
<1> QED
  BY <1>1, <1>3, <1>7, <1>8, <1>11, <1>12, <1>13, RestKept

LEMMA ReturnEnterKeeps ==
  ASSUME IInv, ReturnEnter
  PROVE  IInv'
<1> DEFINE x == stack[1]
           r == Tail(stack)
           p == x.to
           bind == points[p].bind
           y == Entered(p)
<1>1. Returns("enter")
  BY DEF ReturnEnter
<1>2. x.f = "enter" /\ Head(stack) = x
  BY <1>1, AtReturn
<1>3. /\ stack' = <<y>> \o r
      /\ UNCHANGED <<points, currentPoint, value, continuations, extent>>
      /\ at' \in {"run", "return"} /\ (~RunsProgram(bind) => at' = "return")
  BY <1>2 DEF ReturnEnter, pointVars, CallBefore
<1>4. PICK q : Chain(points, stack, q) /\ extent = PathIn(points, q)
  BY <1>1, InTravel
<1>5. p \in 2 .. Len(points) /\ q = points[p].parent /\ Chain(points, r, p)
  BY <1>2, <1>4, ChainTop
<1>6. y.f = "entered" /\ y.point = p
  BY DEF Entered
<1>7. IsTree(points) /\ Scoped(points, extent) /\ currentPoint \in 1 .. Len(points)
  BY DEF IInv
<1>8. ValuesAre(value, points, extent)
  BY DEF IInv, ValueInv
<1> HIDE DEF x, r, p, y
<1>9. /\ Calling(points, stack', PathIn(points, points[p].parent))
      /\ IsStack(stack') /\ Plain(stack') /\ stack' # <<>> /\ stack'[1] = y
  <2>1. Calls(points, y, p)
    BY <1>5, <1>6 DEF Calls
  <2>2. Chain(points, r, IF y.f = "entered" THEN y.point ELSE y.to)
    BY <1>5, <1>6
  <2> QED
    BY <1>3, <2>1, <2>2, CallsMade
<1>10. Calling(points, stack', extent)
  BY <1>4, <1>5, <1>9
<1>11. extent \in Seq(Nat)
  BY <1>7, ExtentType
<1>12. at' \in {"run", "return"}
  BY <1>3
<1>13. Running'
  BY <1>3, <1>6, <1>9, <1>10, <1>11, <1>12, CallingRuns
<1>14. StackInv'
  BY <1>9, TravelStack
<1>15. ValueInv'
  BY <1>3, <1>8 DEF ValueInv
<1> QED
  BY <1>3, <1>7, <1>13, <1>14, <1>15, RestKept

LEMMA ReturnEnteredKeeps ==
  ASSUME IInv, ReturnEntered
  PROVE  IInv'
<1> DEFINE x == stack[1]
           r == Tail(stack)
           p == x.point
           bind == points[p].bind
<1>1. Returns("entered")
  BY DEF ReturnEntered
<1>2. x.f = "entered" /\ Head(stack) = x /\ at = "return"
  BY <1>1, AtReturn
<1>3. /\ stack' = r /\ extent' = Append(extent, p) /\ at' = "return"
      /\ UNCHANGED <<points, currentPoint, continuations>>
      /\ bind = <<>> => UNCHANGED value
      /\ bind # <<>> => value' = [value EXCEPT ![bind[1]] = Given(bind, p)]
  BY <1>2 DEF ReturnEntered, pointVars, ReturnBefore, SetParameter
<1>4. Calling(points, stack, extent)
  BY <1>1, InCall
<1>5. p \in 2 .. Len(points) /\ extent = PathIn(points, points[p].parent) /\ Chain(points, r, p)
  BY <1>2, <1>4 DEF Calling, Calls
<1>6. IsTree(points) /\ Scoped(points, extent) /\ currentPoint \in 1 .. Len(points)
  BY DEF IInv
<1>7. extent \in Seq(Nat) /\ p \in Nat
  BY <1>5, <1>6, ExtentType, TreePoint
<1>8. ValuesAre(value, points, extent)
  BY DEF IInv, ValueInv
<1> HIDE DEF x, r, p
<1>9. extent' = PathIn(points, p)
  BY <1>3, <1>5, <1>6, PathStep
<1>10. Scoped(points, extent')
  BY <1>5, <1>9, ChainTop
<1>11. Arrived'
  BY <1>3, <1>5, <1>9 DEF Arrived
<1>12. StackInv'
  BY <1>3, <1>5, ChainStack, TravelStack
<1>13. ValueInv'
  <2>1. /\ bind = <<>> => ValuesAre(value, points, Append(extent, p))
        /\ bind # <<>> =>
             ValuesAre([value EXCEPT ![bind[1]] = Given(bind, p)], points, Append(extent, p))
    BY <1>5, <1>6, <1>7, <1>8, ValueEntered
  <2>2. ValuesAre(value', points, Append(extent, p))
    BY <1>3, <2>1
  <2> QED
    BY <1>3, <2>2 DEF ValueInv
<1> QED
  BY <1>3, <1>6, <1>10, <1>11, <1>12, <1>13, RestKept

LEMMA ReturnLeaveKeeps ==
  ASSUME IInv, ReturnLeave
  PROVE  IInv'
<1> DEFINE x == stack[1]
           r == Tail(stack)
           p == x.from
<1>1. Returns("leave")
  BY DEF ReturnLeave
<1>2. x.f = "leave" /\ Head(stack) = x
  BY <1>1, AtReturn
<1>3. /\ stack' = r /\ at' = "travel" /\ from' = points[p].parent /\ to' = x.to
      /\ UNCHANGED <<points, currentPoint, value, continuations, extent>>
  BY <1>2 DEF ReturnLeave, pointVars
<1>4. Calling(points, stack, extent)
  BY <1>1, InCall
<1>5. p \in 2 .. Len(points) /\ extent = PathIn(points, points[p].parent) /\ Chain(points, r, x.to)
  BY <1>2, <1>4 DEF Calling, Calls
<1>6. IsTree(points) /\ Scoped(points, extent) /\ currentPoint \in 1 .. Len(points)
  BY DEF IInv
<1>7. ValuesAre(value, points, extent)
  BY DEF IInv, ValueInv
<1>8. points[p].parent \in 1 .. Len(points)
  BY <1>5, <1>6, TreePoint DEF Root
<1> HIDE DEF x, r, p
<1>9. Travelling'
  BY <1>3, <1>5, <1>8 DEF Travelling
<1>10. StackInv'
  BY <1>3, <1>5, ChainStack, TravelStack
<1>11. ValueInv'
  BY <1>3, <1>7 DEF ValueInv
<1> QED
  BY <1>3, <1>6, <1>9, <1>10, <1>11, RestKept

LEMMA ReturnJumpKeeps ==
  ASSUME IInv, ReturnJump
  PROVE  IInv'
<1> DEFINE x == stack[1]
           k == x.continuation
<1>1. Returns("jump")
  BY DEF ReturnJump
<1>2. x.f = "jump" /\ Head(stack) = x
  BY <1>1, AtReturn
<1>3. /\ stack' = k.stack /\ at' = k.at /\ currentPoint' = k.point
      /\ UNCHANGED <<points, value, continuations, extent>>
  BY <1>2 DEF ReturnJump
<1>4. PICK q : Chain(points, stack, q) /\ extent = PathIn(points, q)
  BY <1>1, InTravel
<1>5. q = k.point /\ IsContinuation(points, k)
  BY <1>2, <1>4, ChainTop
<1>6. ValuesAre(value, points, extent)
  BY DEF IInv, ValueInv
<1> HIDE DEF x, k
<1>7. /\ k.point \in 1 .. Len(points)
      /\ k.at \in {"run", "halted"}
      /\ k.at = "halted" => k.stack = <<>> /\ k.point = Root
      /\ IsStack(k.stack)
      /\ \A i \in 1 .. Len(k.stack) : Resumed(k.stack[i])
      /\ Frames(points, k.stack, FALSE) /\ Paired(points, k.stack, FALSE)
      /\ Shielded(k.stack) /\ Nested(points, k.stack, extent, <<>>)
  BY <1>4, <1>5 DEF IsContinuation
<1>8. Running'
  <2>1. PICK t : t = stack'
    OBVIOUS
  <2>2. IsStack(t) /\ t \o <<>> = t
    BY <1>3, <1>7, <2>1, StackParts, EmptyStack
  <2>3. /\ Nested(points', t, extent', <<>>)
        /\ \A i \in 1 .. Len(t) : Resumed(t[i])
        /\ extent' = PathIn(points', currentPoint')
        /\ at' \in {"run", "halted"}
        /\ at' = "halted" => t = <<>> /\ currentPoint' = Root
    BY <1>3, <1>4, <1>5, <1>7, <2>1
  <2>4. \A i \in 1 .. Len(t) :
          t[i].f \in {"inside", "entering", "leaving", "handling", "raised"}
    BY <2>3 DEF Resumed
  <2>5. IsRunning(t, <<>>, <<>>)'
    BY <2>1, <2>2, <2>3, <2>4 DEF IsRunning
  <2> QED
    BY <2>5 DEF Running
<1>9. StackInv'
  <2>1. at' # "return" /\ FALSE \in BOOLEAN
    BY <1>3, <1>7
  <2>2. /\ IsStack(stack') /\ Frames(points', stack', FALSE)
        /\ Paired(points', stack', FALSE) /\ Shielded(stack')
    BY <1>3, <1>7, FramesMoved
  <2> QED
    BY <2>1, <2>2, StackKept
<1>10. ValueInv'
  BY <1>3, <1>6 DEF ValueInv
<1> QED
  BY <1>3, <1>7, <1>8, <1>9, <1>10, RestKept DEF IInv

-----------------------------------------------------------------------------
(* The returns of handlers.                                                *)

(* A frame of a handler is above nothing that a travel calls. *)
LEMMA InHandler ==
  ASSUME IInv, NEW f \in {"handling", "raised"}, Returns(f)
  PROVE  LET r == Tail(stack)
         IN /\ \E t : IsRunning(t, <<>>, <<>>) /\ t # <<>>
            /\ IsStack(r) /\ AllFit(r, <<>>) /\ Nested(points, r, extent, <<>>)
            /\ extent = PathIn(points, currentPoint)
            /\ extent \in Seq(Nat) /\ Scoped(points, extent)
            /\ ValuesAre(value, points, extent)
<1> DEFINE r == Tail(stack)
<1>1. stack[1].f = f
  BY AtReturn
<1>2. PICK t, w, b, d :
           /\ IsRunning(t, w, b) /\ t # <<>> /\ IsStack(w)
           /\ t[1] = stack[1] /\ Tail(stack) = Tail(t) \o w /\ IsStack(Tail(t))
           /\ d \in Seq(Nat) /\ extent = Above(stack[1], d)
           /\ Kept(points, stack[1], d) /\ Nested(points, Tail(t), d, b)
  BY InProgram
<1>3. extent = d
  BY <1>1, <1>2 DEF Above
<1>4. Fits(t[1], w) /\ AllFit(Tail(t), w)
  BY <1>2, FitTail
<1>5. w = <<>>
  BY <1>1, <1>2, <1>4 DEF Fits
<1>6. b = <<>> /\ extent = PathIn(points, currentPoint)
  BY <1>2, <1>5, RunningParts
<1>7. r = Tail(t)
  BY <1>2, <1>5, StackParts
<1>8. ValuesAre(value, points, extent)
  BY DEF IInv, ValueInv
<1>9. IsRunning(t, <<>>, <<>>) /\ t # <<>>
  BY <1>2, <1>5, <1>6
<1>10. IsStack(r) /\ AllFit(r, <<>>) /\ Nested(points, r, extent, <<>>)
  BY <1>2, <1>3, <1>4, <1>5, <1>6, <1>7
<1>11. extent \in Seq(Nat) /\ Scoped(points, extent)
  BY ExtentType DEF IInv
<1> QED
  BY <1>6, <1>8, <1>9, <1>10, <1>11

(* The frame is popped. *)
LEMMA PopKeeps ==
  ASSUME IInv, NEW f \in {"handling", "raised"}, Returns(f),
         stack' = Tail(stack), at' \in {"run", "return"}, at' = "return" => stack' # <<>>,
         UNCHANGED <<points, currentPoint, value, continuations, extent>>,
         Paired(points, stack', at' = "return"), Under(Leaving, Leaving, Leaving, stack'),
         at' = "return" => stack'[1].f = "inside"
  PROVE  IInv'
<1> DEFINE r == Tail(stack)
<1>1. /\ \E t : IsRunning(t, <<>>, <<>>) /\ t # <<>>
      /\ IsStack(r) /\ AllFit(r, <<>>) /\ Nested(points, r, extent, <<>>)
      /\ extent = PathIn(points, currentPoint)
      /\ extent \in Seq(Nat) /\ Scoped(points, extent)
      /\ ValuesAre(value, points, extent)
  BY InHandler
<1>2. PICK t : IsRunning(t, <<>>, <<>>) /\ t # <<>>
  BY <1>1
<1>3. Frames(points, r, FALSE)
  BY AtReturn
<1>4. stack' = r
  OBVIOUS
<1> HIDE DEF r
<1>5. Running'
  <2>1. stack' = r \o <<>>
    BY <1>1, <1>4, StackParts, EmptyStack
  <2>2. /\ Nested(points', r, extent', <<>>) /\ extent' = PathIn(points', currentPoint')
        /\ points' = points
    BY <1>1
  <2> QED
    BY <1>1, <1>2, <2>1, <2>2, RunningKept
<1>6. StackInv'
  <2> DEFINE a == at' = "return"
  <2>1. a \in BOOLEAN /\ (a => at' = "return") /\ Paired(points', stack', a)
    OBVIOUS
  <2> HIDE DEF a
  <2>2. Frames(points', stack', a)
    BY <1>3, <1>4, <2>1, FramesMoved
  <2>3. Shielded(stack')
    BY DEF Shielded
  <2>4. IsStack(stack')
    BY <1>1, <1>4
  <2> QED
    BY <2>1, <2>2, <2>3, <2>4, StackKept
<1>7. ValueInv'
  BY <1>1 DEF ValueInv
<1> QED
  BY <1>1, <1>5, <1>6, <1>7, RestKept DEF IInv

LEMMA ReturnHandledKeeps ==
  ASSUME IInv, ReturnHandled
  PROVE  IInv'
<1> DEFINE x == stack[1]
           r == Tail(stack)
<1>1. Returns("handling")
  BY DEF ReturnHandled
<1>2. /\ x.f = "handling" /\ Head(stack) = x /\ at = "return" /\ IsStack(r)
      /\ Paired(points, r, TRUE) /\ r # <<>> /\ IsAside(points, r[1])
      /\ ~IsRaised(x) /\ Under(Leaving, Leaving, x, r)
  BY <1>1, AtReturn
<1>3. /\ x.continuable /\ stack' = r /\ at' = "return"
      /\ UNCHANGED <<points, currentPoint, value, continuations, extent>>
  BY <1>2 DEF ReturnHandled, pointVars
<1> HIDE DEF x
<1>4. Under(Leaving, Leaving, Leaving, r)
  BY <1>2, <1>3, UnderTop
<1>5. r[1].f = "inside"
  BY <1>2 DEF IsAside
<1>6. (at' = "return") = TRUE
  BY <1>3
<1>7. Paired(points, stack', at' = "return")
  BY <1>2, <1>3, <1>6
<1> QED
  BY <1>1, <1>2, <1>3, <1>4, <1>5, <1>7, PopKeeps

LEMMA ReturnRaisedKeeps ==
  ASSUME IInv, ReturnRaised
  PROVE  IInv'
<1> DEFINE x == stack[1]
           r == Tail(stack)
<1>1. Returns("raised")
  BY DEF ReturnRaised
<1>2. /\ x.f = "raised" /\ IsStack(r)
      /\ Paired(points, r, TRUE) /\ (r # <<>> => ~IsAside(points, r[1]))
      /\ ~IsRaised(x) /\ Under(Leaving, Leaving, x, r)
  BY <1>1, AtReturn DEF IsFrame
<1>3. /\ stack' = r /\ at' = "run"
      /\ UNCHANGED <<points, currentPoint, value, continuations, extent>>
  BY DEF ReturnRaised, pointVars
<1> HIDE DEF x
<1>4. Under(Leaving, Leaving, Leaving, r)
  BY <1>2, UnderTop
<1>5. (at' = "return") = FALSE
  BY <1>3
<1>6. Paired(points, r, FALSE)
  BY <1>2, PairedReturns
<1>7. Paired(points, stack', at' = "return")
  BY <1>3, <1>5, <1>6
<1> QED
  BY <1>1, <1>3, <1>4, <1>7, PopKeeps

LEMMA ReturnUnhandledKeeps ==
  ASSUME IInv, ReturnUnhandled
  PROVE  IInv'
<1> DEFINE x == stack[1]
           r == Tail(stack)
           h == Handling(TRUE)
           s == <<h>> \o r
           y == Raised(FALSE)
<1>1. Returns("handling")
  BY DEF ReturnUnhandled
<1>2. /\ x.f = "handling" /\ Head(stack) = x /\ IsStack(r)
      /\ Frames(points, r, FALSE)
      /\ Paired(points, r, TRUE) /\ r # <<>> /\ IsAside(points, r[1])
      /\ ~IsRaised(x) /\ Under(Leaving, Leaving, x, r)
  BY <1>1, AtReturn
<1>3. ~x.continuable /\ CallHandler(FALSE, s)
  BY <1>2 DEF ReturnUnhandled
<1>4. /\ \E t : IsRunning(t, <<>>, <<>>) /\ t # <<>>
      /\ IsStack(r) /\ AllFit(r, <<>>) /\ Nested(points, r, extent, <<>>)
      /\ extent = PathIn(points, currentPoint)
      /\ extent \in Seq(Nat) /\ Scoped(points, extent)
      /\ ValuesAre(value, points, extent)
  BY <1>1, InHandler
<1>5. CASE value[Handler] = 0
  <2>1. CallContinuation(unwind)
    BY <1>3, <1>5 DEF CallHandler
  <2>2. IsContinuation(points, unwind)
    BY UnwindContinues DEF IInv
  <2> QED
    BY <1>4, <2>1, <2>2, JumpKeeps
<1>6. CASE value[Handler] # 0
  <2>1. DynamicWind(<<Handler, value[Handler] - 1, value[Handler]>>, <<Handling(FALSE)>>,
                    <<Raised(FALSE)>> \o s)
    BY <1>3, <1>6 DEF CallHandler
  <2>2. PICK t : IsRunning(t, <<>>, <<>>)
    BY <1>4
  <2>3. h.f = "handling" /\ h.continuable = TRUE /\ y.f = "raised" /\ y.continuable = FALSE
    BY DEF Handling, Raised
  <2>4. IsStack(s)
    BY <1>4, Stacks
  <2> HIDE DEF x, r, h, y
  <2>5. AllFit(s, <<>>)
    <3>1. Fits(h, <<>>)
      BY <2>3 DEF Fits
    <3> QED
      BY <1>4, <3>1, FitPushed
  <2>6. Nested(points, s, extent, <<>>)
    <3>1. Above(h, extent) = extent /\ h.f # "inside" /\ Kept(points, h, extent)
      BY <2>3 DEF Above, Kept
    <3>2. Nested(points, <<h>> \o r, extent, <<>>)
            <=> \E d \in Seq(Nat) :
                  extent = Above(h, d) /\ Kept(points, h, d) /\ Nested(points, r, d, <<>>)
      BY <1>4, <3>1, NestedPushed
    <3> QED
      BY <1>4, <3>1, <3>2
  <2>7. Frames(points, s, FALSE)
    <3>1. IsFrame(points, h, FALSE)
      BY <2>3 DEF IsFrame
    <3> QED
      BY <1>2, <3>1, FramesPushed
  <2>8. Paired(points, s, FALSE)
    <3>1. ~IsAside(points, h)
      BY <2>3 DEF IsAside
    <3>2. IsStack(r) /\ Paired(points, r, TRUE) /\ r # <<>> /\ IsAside(points, r[1])
      BY <1>2
    <3>3. h.f = "handling"
      BY <2>3
    <3> QED
      BY ONLY <3>1, <3>2, <3>3, PairedPushed
  <2>9. ASSUME NEW z, z.f = "entering"
        PROVE  Under(Leaving, z, y, s)
    <3>1. ~Covered(Leaving, Leaving, x)
      BY <1>2 DEF Covered
    <3>2. \A v : Covered(Leaving, x, v) => Covered(y, h, v)
      BY <2>3 DEF Covered, IsRaised
    <3>3. \A v, q : Covered(x, v, q) => Covered(h, v, q)
      BY <1>2 DEF Covered
    <3>4. Under(z, y, h, r)
      BY <1>2, <3>1, <3>2, <3>3, UnderChanged
    <3>5. ~IsRaised(h)
      BY <2>3 DEF IsRaised
    <3>6. \A v : v = <<h>> \o r =>
            (Under(Leaving, z, y, v) <=>
               (IsRaised(h) => Covered(Leaving, z, y)) /\ Under(z, y, h, r))
      BY <1>2, UnderPushed
    <3>7. Under(Leaving, z, y, <<h>> \o r)
      BY ONLY <3>4, <3>5, <3>6
    <3> QED
      BY <3>7
  <2>10. \A z : z.f = "entering" => Under(Leaving, z, Raised(FALSE), s)
    BY <2>9 DEF y
  <2> HIDE DEF s
  <2>11. FALSE \in BOOLEAN
    OBVIOUS
  <2> QED
    BY <1>4, <1>6, <2>1, <2>2, <2>4, <2>5, <2>6, <2>7, <2>8, <2>10, <2>11, HandlerKeeps
<1> QED
  BY <1>5, <1>6

-----------------------------------------------------------------------------
(* The invariant holds always.                                             *)

LEMMA InitHolds ==
  ASSUME Init
  PROVE  IInv
<1>1. /\ points = <<Point(0, <<>>, 0)>> /\ currentPoint = Root
      /\ value = [p \in Parameter |-> 0]
      /\ stack = <<>> /\ at = "run" /\ continuations = <<>> /\ extent = <<>>
  BY DEF Init
<1>2. IsTree(points)
  <2>1. Point(0, <<>>, 0) \in [depth : Nat, bind : Binds, parent : Nat]
    BY DEF Point, Binds
  <2> DEFINE x == Point(0, <<>>, 0)
             S == [depth : Nat, bind : Binds, parent : Nat]
  <2>2. x \in S
    BY <2>1
  <2> HIDE DEF x, S
  <2>3. <<x>> \in Seq(S) /\ Len(<<x>>) = 1 /\ <<x>>[1] = x
    BY <2>2
  <2>4. points \in Seq(S) /\ Len(points) = 1 /\ points[Root] = x
    BY <1>1, <2>3 DEF x, Root
  <2>5. 2 .. Len(points) = {}
    BY <2>4
  <2> QED
    BY <2>4, <2>5 DEF IsTree, S, x
<1>3. currentPoint \in 1 .. Len(points)
  BY <1>1, <1>2, TreePoint
<1>4. IsStack(<<>>) /\ Len(<<>>) = 0
  BY EmptyStack
<1>5. /\ continuations \in Seq(Range(continuations))
      /\ \A i \in 1 .. Len(continuations) : IsContinuation(points, continuations[i])
  BY <1>1, <1>4 DEF IsStack
<1>6. Scoped(points, extent)
  BY <1>1, ScopedEmpty
<1>7. Plain(<<>>)
  BY <1>4 DEF Plain
<1>8. StackInv
  <2>1. (at = "return") = FALSE /\ at # "return"
    BY <1>1
  <2>2. Frames(points, <<>>, FALSE) /\ Paired(points, <<>>, FALSE) /\ Shielded(<<>>)
    BY <1>7, PlainStack DEF Shielded
  <2> QED
    BY <1>1, <1>4, <2>1, <2>2 DEF StackInv
<1>9. ValueInv
  <2>2. value \in [Parameter -> Nat]
    BY <1>1
  <2>3. \A p \in Parameter : value[p] = BoundIn(points, extent, p)
    BY <1>1, BoundEmpty
  <2> QED
    BY <2>2, <2>3 DEF ValueInv, ValuesAre
<1>10. Running
  <2>1. PathIn(points, Root) = <<>>
    BY <1>2, PathStep
  <2>2. Nested(points, <<>>, extent, <<>>)
    <3>1. extent \in Seq(Nat)
      BY <1>1
    <3> QED
      BY <1>1, <3>1, NestedEmpty
  <2>3. <<>> \o <<>> = <<>>
    BY <1>4, StackParts
  <2>4. \A i \in 1 .. Len(<<>>) : FALSE
    BY <1>4
  <2>5. IsRunning(<<>>, <<>>, <<>>)
    BY <1>1, <1>4, <2>1, <2>2, <2>3, <2>4 DEF IsRunning
  <2> QED
    BY <2>5 DEF Running
<1> QED
  BY <1>2, <1>3, <1>5, <1>6, <1>8, <1>9, <1>10 DEF IInv

LEMMA NextKeeps ==
  ASSUME IInv, ~Escapes, [Next]_vars
  PROVE  IInv'
<1>1. CASE Return
  BY <1>1, ReturnKeeps
<1>2. CASE \/ Wind
           \/ \E p \in Parameter \ {Handler} : Parameterize(p, Computed)
           \/ WithExceptionHandler
  BY <1>2, WindsKeep
<1>3. CASE \E c \in BOOLEAN : Raise(c)
  BY <1>3, RaiseKeeps
<1>4. CASE WindReturns
  BY <1>4, ReturnEnteringKeeps, ReturnInsideKeeps, ReturnLeavingKeeps DEF WindReturns
<1>5. CASE CallCC
  BY <1>5, CallCCKeeps
<1>6. CASE \E i \in DOMAIN continuations : EscapeTo(continuations[i])
  BY <1>6, EscapeKeeps
<1>7. CASE Travel
  BY <1>7, TravelArrivedKeeps, TravelInKeeps, TravelOutKeeps, ReturnEnterKeeps, ReturnEnteredKeeps,
     ReturnLeaveKeeps, ReturnJumpKeeps DEF Travel
<1>8. CASE Handle
  BY <1>8, ReturnHandledKeeps, ReturnUnhandledKeeps, ReturnRaisedKeeps DEF Handle
<1>9. CASE UNCHANGED vars
  <2>1. UNCHANGED <<points, currentPoint, value, stack, at, from, to, continuations, extent>>
    BY <1>9 DEF vars, pointVars, travelVars
  <2>2. StackInv' /\ ValueInv'
    BY <2>1 DEF IInv, StackInv, ValueInv
  <2>3. Running => Running'
    <3>1. \A t, w, b : IsRunning(t, w, b) => IsRunning(t, w, b)'
      BY <2>1 DEF IsRunning
    <3> QED
      BY <3>1 DEF Running
  <2>4. (Travelling => Travelling') /\ (Arrived => Arrived')
    BY <2>1 DEF Travelling, Arrived
  <2> QED
    BY <2>1, <2>2, <2>3, <2>4 DEF IInv
<1> QED
  BY <1>1, <1>2, <1>3, <1>4, <1>5, <1>6, <1>7, <1>8, <1>9 DEF Next

(* Where before and after procedures neither capture nor call continuations  *)
(* nor raise, the invariant holds in every state, for every number of        *)
(* points, frames and continuations: what waits on the stack nests as the    *)
(* extents do, a handler that runs is put aside by its own frame, and every  *)
(* continuation that the program has can be gone back to.                    *)
THEOREM AlwaysNested ==
  ASSUME ~Escapes
  PROVE  Spec => []IInv
<1>1. Init => IInv
  BY InitHolds
<1>2. IInv /\ [Next]_vars => IInv'
  BY NextKeeps
<1> QED
  BY <1>1, <1>2, PTL DEF Spec

(* However a program leaves the extent of a dynamic-wind and comes back,   *)
(* where it runs current-point is the extent that it is in.                *)
THEOREM PointAlwaysExtent ==
  ASSUME ~Escapes
  PROVE  Spec => []PointIsExtent
<1>1. IInv => PointIsExtent
  BY OutOfThunk DEF PointIsExtent, Path
<1> QED
  BY <1>1, AlwaysNested, PTL

(* A point that is left is not the root. *)
LEMMA LeavesPoint ==
  ASSUME IInv, at = "travel", from # to, ~IsDeeper
  PROVE  /\ from \in 2 .. Len(points) /\ points[from].parent \in 1 .. Len(points)
         /\ PathIn(points, points[from].parent) \in Seq(Nat)
         /\ extent = Append(PathIn(points, points[from].parent), from)
<1>1. /\ to \in 1 .. Len(points) /\ from \in 1 .. Len(points) /\ extent = PathIn(points, from)
  BY AtTravel
<1>2. IsTree(points)
  BY DEF IInv
<1>3. from # Root
  <2>1. ASSUME from = Root
        PROVE  FALSE
    <3>1. /\ points[from].depth = 0 /\ points[to].depth \in Nat
          /\ to # Root => points[to].depth # 0
      BY <1>1, <1>2, <2>1, TreePoint
    <3>2. ~(points[from].depth < points[to].depth)
      BY DEF IsDeeper
    <3> QED
      BY <2>1, <3>1, <3>2
  <2> QED
    BY <2>1
<1>4. from \in 2 .. Len(points) /\ points[from].parent \in 1 .. Len(points)
  BY <1>1, <1>2, <1>3, TreePoint
<1>5. PathIn(points, points[from].parent) \in Seq(Nat)
  BY <1>2, <1>4, PathExtent
<1> QED
  BY <1>1, <1>2, <1>4, <1>5, PathStep

(* A before procedure is called just inside its parent, an after procedure *)
(* in the innermost extent: each entry of an extent has one exit, in the   *)
(* order of nesting.                                                       *)
THEOREM AlwaysAlternate ==
  ASSUME ~Escapes
  PROVE  Spec => []Alternate
<1>1. ASSUME IInv, NEW p \in DOMAIN points, CallsBefore(p)
      PROVE  extent = Path(points[p].parent)
  <2>1. Returns("enter") /\ Head(stack).to = p
    BY <1>1 DEF CallsBefore
  <2>2. Head(stack) = stack[1] /\ stack[1].f = "enter"
    BY <1>1, <2>1, AtReturn
  <2>3. PICK q : Chain(points, stack, q) /\ extent = PathIn(points, q)
    BY <1>1, <2>1, InTravel
  <2>4. q = points[p].parent
    BY <2>1, <2>2, <2>3, ChainTop
  <2> QED
    BY <2>3, <2>4 DEF Path
<1>2. ASSUME IInv, NEW p \in DOMAIN points, CallsAfter(p)
      PROVE  extent # <<>> /\ Last(extent) = p
  <2>1. CASE Returns("inside") /\ Head(stack).point = p
    <3>1. Head(stack) = stack[1] /\ stack[1].f = "inside"
      BY <1>2, <2>1, AtReturn
    <3>2. PICK d \in Seq(Nat) : extent = Above(stack[1], d)
      BY <1>2, <2>1, InProgram
    <3>3. extent = Append(d, p)
      BY <2>1, <3>1, <3>2 DEF Above
    <3>4. p \in Nat
      BY <1>2, TreePoint DEF IInv
    <3> QED
      BY <3>3, <3>4, WithoutLast
  <2>2. CASE at = "travel" /\ from # to /\ ~IsDeeper /\ from = p
    <3> DEFINE d == PathIn(points, points[p].parent)
    <3>1. d \in Seq(Nat) /\ extent = Append(d, p) /\ p \in 2 .. Len(points)
      BY <1>2, <2>2, LeavesPoint
    <3>2. p \in Nat
      BY <3>1
    <3> HIDE DEF d
    <3> QED
      BY <3>1, <3>2, WithoutLast
  <2> QED
    BY <1>2, <2>1, <2>2 DEF CallsAfter
<1>3. IInv => Alternate
  BY <1>1, <1>2 DEF Alternate
<1> QED
  BY <1>3, AlwaysNested, PTL

(* A parameter has a value that the innermost parameterize whose extent    *)
(* the program is in has computed, in before and after procedures and in   *)
(* value expressions as well, whatever continuations those of a            *)
(* parameterize that is called make and call.                              *)
THEOREM ParameterAlwaysScoped ==
  ASSUME ~Escapes
  PROVE  Spec => []ParameterScoped
<1>1. ASSUME IInv, at = "run", NEW p \in Parameter
      PROVE  value[p] = Bound(p)
  <2>1. value[p] = BoundIn(points, extent, p)
    BY <1>1, AtRun DEF ValuesAre
  <2> QED
    BY <2>1 DEF Bound
<1>2. IInv => ParameterScoped
  BY <1>1 DEF ParameterScoped
<1> QED
  BY <1>2, AlwaysNested, PTL

(* Nothing returns from raise, however many handlers return, and also where *)
(* a handler raises or a continuation of a handler is called.              *)
THEOREM RaiseNeverReturns ==
  ASSUME ~Escapes
  PROVE  Spec => []NeverReturns
<1>1. ASSUME IInv, Returns("raised")
      PROVE  Head(stack).continuable
  <2>1. Head(stack) = stack[1] /\ stack[1].f = "raised" /\ ~IsRaised(stack[1])
    BY <1>1, AtReturn
  <2> QED
    BY <2>1 DEF IsRaised
<1>2. IInv => NeverReturns
  BY <1>1 DEF NeverReturns
<1> QED
  BY <1>2, AlwaysNested, PTL

(* A program that ends with an error has left every extent it was in, and  *)
(* no handler of it is installed.                                          *)
THEOREM AlwaysHaltsUnwound ==
  ASSUME ~Escapes
  PROVE  Spec => []HaltsUnwound
<1>1. ASSUME IInv, at = "halted"
      PROVE  extent = <<>> /\ value[Handler] = 0
  <2>1. PICK t, w, b : IsRunning(t, w, b)
    BY <1>1 DEF IInv, Running, Travelling, Arrived
  <2>2. currentPoint = Root /\ extent = PathIn(points, currentPoint)
    BY <1>1, <2>1 DEF IsRunning
  <2>3. extent = <<>>
    BY <1>1, <2>2, PathStep DEF IInv
  <2>4. Handler \in Parameter
    BY ExceptionsAssumption
  <2> HIDE DEF Handler
  <2>5. value[Handler] = BoundIn(points, <<>>, Handler)
    BY <1>1, <2>3, <2>4 DEF IInv, ValueInv, ValuesAre
  <2> QED
    BY <2>3, <2>5, BoundEmpty
<1>2. IInv => HaltsUnwound
  BY <1>1 DEF HaltsUnwound
<1> QED
  BY <1>2, AlwaysNested, PTL

-----------------------------------------------------------------------------
(* The handlers around what runs, counted from the bottom of the stack.    *)

(* How many of a set of numbers are from m on. *)
Count(S, m, n) == Cardinality(S \cap (m .. n))

LEMMA CountFrom ==
  ASSUME NEW n \in Nat, NEW S, S \subseteq 1 .. n, NEW m \in 1 .. n
  PROVE  /\ Count(S, m, n) \in Nat /\ Count(S, m + 1, n) \in Nat
         /\ Count(S, m, n) = Count(S, m + 1, n) + (IF m \in S THEN 1 ELSE 0)
<1> DEFINE T == S \cap (m + 1 .. n)
           U == S \cap (m .. n)
<1>1. IsFiniteSet(T)
  <2>1. IsFiniteSet(m + 1 .. n)
    BY FS_Interval
  <2> QED
    BY <2>1, FS_Subset
<1>2. Cardinality(T) \in Nat
  BY <1>1, FS_CardinalityType
<1>3. m \notin T
  OBVIOUS
<1>4. CASE m \in S
  <2>1. U = T \cup {m}
    BY <1>4
  <2>2. Cardinality(U) = Cardinality(T) + 1
    <3> HIDE DEF T, U
    <3> QED
      BY <1>1, <1>3, <2>1, FS_AddElement
  <2>3. Cardinality(U) \in Nat
    BY <1>2, <2>2
  <2> QED
    BY <1>2, <1>4, <2>2, <2>3 DEF Count
<1>5. CASE m \notin S
  <2>1. U = T
    BY <1>5
  <2> QED
    BY <1>2, <1>5, <2>1 DEF Count
<1> QED
  BY <1>4, <1>5

(* How a point changes the number of the handler. *)
LEMMA HandlerStep ==
  ASSUME NEW ps, IsTree(ps), NEW e \in Seq(Nat), NEW q \in Nat, Scoped(ps, Append(e, q))
  PROVE  /\ Scoped(ps, e)
         /\ BoundIn(ps, e, Handler) \in Nat /\ BoundIn(ps, Append(e, q), Handler) \in Nat
         /\ ~(Installs(ps[q].bind) /\ PutsAside(ps[q].bind))
         /\ BoundIn(ps, Append(e, q), Handler) + (IF PutsAside(ps[q].bind) THEN 1 ELSE 0) =
              BoundIn(ps, e, Handler) + (IF Installs(ps[q].bind) THEN 1 ELSE 0)
<1> DEFINE bind == ps[q].bind
           h == Handler
<1>1. h \in Parameter
  BY ExceptionsAssumption
<1>2. Scoped(ps, e) /\ q \in 2 .. Len(ps) /\ Restores(ps, bind, e)
  BY ScopedAppend
<1> HIDE DEF h
<1>3. BoundIn(ps, e, h) \in Nat /\ BoundIn(ps, Append(e, q), h) \in Nat
  <2>1. e \in Seq(2 .. Len(ps)) /\ Append(e, q) \in Seq(2 .. Len(ps))
    BY <1>2, ExtentType
  <2> QED
    BY <1>1, <2>1, BoundType
<1>4. bind \in Binds /\ OneByOne(bind)
  BY <1>2, TreePoint DEF Root
<1>5. BoundIn(ps, Append(e, q), h) =
        IF Of(bind, h) THEN Given(bind, q) ELSE BoundIn(ps, e, h)
  BY BoundAppend
<1> HIDE DEF bind
<1>6. CASE ~Of(bind, h)
  <2>1. ~Installs(bind) /\ ~PutsAside(bind)
    BY <1>6 DEF Installs, PutsAside, Of, h
  <2> QED
    BY <1>2, <1>3, <1>5, <1>6, <2>1 DEF h, bind
<1>7. CASE Of(bind, h)
  <2>1. bind # <<>> /\ bind[1] = h
    BY <1>7 DEF Of
  <2>2. bind[2] \in Nat /\ bind[3] \in Nat
    BY <1>2, <1>4, <2>1, BindType DEF OneByOne, h
  <2>3. BoundIn(ps, e, h) = bind[3]
    BY <1>2, <2>1 DEF Restores
  <2>4. BoundIn(ps, Append(e, q), h) = bind[2]
    <3>1. bind[2] # Computed
      BY <2>2 DEF Computed
    <3> QED
      BY <1>5, <1>7, <3>1 DEF Given
  <2>5. bind[2] = bind[3] + 1 \/ bind[3] = bind[2] + 1
    BY <1>4, <2>1 DEF OneByOne, h
  <2>6. /\ Installs(bind) <=> bind[2] > bind[3]
        /\ PutsAside(bind) <=> bind[2] < bind[3]
    BY <2>1 DEF Installs, PutsAside, h
  <2>7. /\ ~(Installs(bind) /\ PutsAside(bind))
        /\ bind[2] + (IF PutsAside(bind) THEN 1 ELSE 0) =
             bind[3] + (IF Installs(bind) THEN 1 ELSE 0)
    BY <2>2, <2>5, <2>6
  <2> QED
    BY <1>2, <1>3, <2>3, <2>4, <2>7 DEF h, bind
<1> QED
  BY <1>6, <1>7

LEMMA Balance ==
  ASSUME NEW b \in Nat, NEW c \in Nat, NEW u \in Nat, NEW v \in Nat, b + u = c + v,
         NEW h \in Nat, NEW i \in Nat, c + h + 0 = i
  PROVE  b + h + u = i + v
OBVIOUS

(* The number of the handler is that of the handlers installed without the *)
(* ones that run.                                                          *)
IsInstalled(ps, x) == x.f = "inside" /\ Installs(ps[x.point].bind)

LEMMA HandlersCounted ==
  ASSUME NEW ps, IsTree(ps), NEW s, IsStack(s), NEW r, Frames(ps, s, FALSE),
         Paired(ps, s, FALSE),
         NEW e, Scoped(ps, e), Nested(ps, s, e, <<>>)
  PROVE  BoundIn(ps, e, Handler) =
           Cardinality({i \in 1 .. Len(s) : IsInstalled(ps, s[i])})
             - Cardinality({i \in 1 .. Len(s) : s[i].f = "handling"})
<1> DEFINE n == Len(s)
           I == {i \in 1 .. n : IsInstalled(ps, s[i])}
           H == {i \in 1 .. n : s[i].f = "handling"}
           Top(k) == IF k \in 1 .. n /\ IsAside(ps, s[k]) THEN 1 ELSE 0
<1>1. PICK x \in [1 .. n + 1 -> Seq(Nat)] :
        /\ x[1] = e /\ x[n + 1] = <<>>
        /\ \A i \in 1 .. n : x[i] = Above(s[i], x[i + 1])
  BY DEF Nested
<1> DEFINE In(k) == Count(I, k, n)
           Hn(k) == Count(H, k, n)
           b(k) == BoundIn(ps, x[k], Handler)
           Ok(k) == Scoped(ps, x[k]) => b(k) \in Nat /\ b(k) + Hn(k) + Top(k) = In(k)
<1>2. n \in Nat /\ I \subseteq 1 .. n /\ H \subseteq 1 .. n
  BY Stacks
<1>3. Ok(n + 1)
  <2>1. n + 1 .. n = {}
    BY <1>2
  <2>2. In(n + 1) = 0 /\ Hn(n + 1) = 0
    BY <2>1, FS_EmptySet DEF Count
  <2>3. Top(n + 1) = 0
    BY <1>2
  <2>4. b(n + 1) = 0
    BY <1>1, BoundEmpty
  <2> HIDE DEF b, In, Hn, Top
  <2> QED
    BY <2>2, <2>3, <2>4
<1>4. ASSUME NEW m \in 1 .. n, Ok(m + 1)
      PROVE  Ok(m)
  <2> DEFINE d == x[m + 1]
             y == s[m]
  <2>1. /\ In(m) \in Nat /\ In(m + 1) \in Nat
        /\ In(m) = In(m + 1) + (IF m \in I THEN 1 ELSE 0)
    <3>1. m \in 1 .. n
      OBVIOUS
    <3> HIDE DEF I, n
    <3> QED
      BY ONLY <1>2, <3>1, CountFrom
  <2>2. /\ Hn(m) \in Nat /\ Hn(m + 1) \in Nat
        /\ Hn(m) = Hn(m + 1) + (IF m \in H THEN 1 ELSE 0)
    <3>1. m \in 1 .. n
      OBVIOUS
    <3> HIDE DEF H, n
    <3> QED
      BY ONLY <1>2, <3>1, CountFrom
  <2>3. m + 1 \in 1 .. n + 1 /\ d \in Seq(Nat) /\ x[m] = Above(y, d)
    BY <1>1, <1>2
  <2>4. Top(m) = IF IsAside(ps, y) THEN 1 ELSE 0
    OBVIOUS
  <2>5. Top(m + 1) = IF y.f = "handling" THEN 1 ELSE 0
    <3>1. y.f = "handling" => m + 1 \in 1 .. n /\ IsAside(ps, s[m + 1])
      BY <1>2 DEF Paired
    <3>2. ASSUME m + 1 \in 1 .. n, IsAside(ps, s[m + 1])
          PROVE  y.f = "handling"
      <4>1. m + 1 # 1 /\ (m + 1) - 1 = m
        BY <1>2
      <4>2. IF m + 1 = 1 THEN FALSE ELSE s[(m + 1) - 1].f = "handling"
        BY <3>2 DEF Paired
      <4> QED
        BY <4>1, <4>2
    <3> QED
      BY <3>1, <3>2
  <2>6. (m \in I <=> IsInstalled(ps, y)) /\ (m \in H <=> y.f = "handling")
    OBVIOUS
  <2>7. Ok(m + 1)
    BY <1>4
  <2>8. y.f = "inside" => y.point \in 2 .. Len(ps) /\ y.point \in Nat
    <3>1. IsFrame(ps, y, FALSE)
      <4>1. (IF m = 1 THEN FALSE ELSE FALSE) = FALSE
        OBVIOUS
      <4> QED
        BY <4>1 DEF Frames
    <3>2. Len(ps) \in Nat
      BY TreePoint
    <3> QED
      BY <3>1, <3>2 DEF IsFrame
  <2>9. SUFFICES ASSUME Scoped(ps, x[m])
                 PROVE  b(m) \in Nat /\ b(m) + Hn(m) + Top(m) = In(m)
    OBVIOUS
  <2>10. CASE y.f = "inside"
    <3> DEFINE q == y.point
    <3>1. x[m] = Append(d, q) /\ q \in Nat
      BY <2>3, <2>8, <2>10 DEF Above
    <3>2. /\ Scoped(ps, d) /\ b(m) \in Nat /\ b(m + 1) \in Nat
          /\ b(m) + (IF PutsAside(ps[q].bind) THEN 1 ELSE 0) =
               b(m + 1) + (IF Installs(ps[q].bind) THEN 1 ELSE 0)
      <4> HIDE DEF q
      <4>1. /\ Scoped(ps, d)
            /\ BoundIn(ps, d, Handler) \in Nat /\ BoundIn(ps, Append(d, q), Handler) \in Nat
            /\ BoundIn(ps, Append(d, q), Handler) + (IF PutsAside(ps[q].bind) THEN 1 ELSE 0) =
                 BoundIn(ps, d, Handler) + (IF Installs(ps[q].bind) THEN 1 ELSE 0)
        BY <2>3, <2>9, <3>1, HandlerStep
      <4> QED
        BY <3>1, <4>1
    <3>3. /\ IsAside(ps, y) <=> PutsAside(ps[q].bind)
          /\ IsInstalled(ps, y) <=> Installs(ps[q].bind)
      BY <2>10 DEF IsAside, IsInstalled
    <3>4. b(m + 1) + Hn(m + 1) + Top(m + 1) = In(m + 1)
      BY <2>7, <3>2
    <3> HIDE DEF b, Hn, In, Top, I, H, y, q
    <3>5. In(m) = In(m + 1) + (IF Installs(ps[q].bind) THEN 1 ELSE 0)
      BY <2>1, <2>6, <3>3
    <3>6. Hn(m) = Hn(m + 1) /\ Top(m + 1) = 0
      BY <2>2, <2>5, <2>6, <2>10
    <3>7. Top(m) = IF PutsAside(ps[q].bind) THEN 1 ELSE 0
      BY <2>4, <3>3
    <3> DEFINE u == IF PutsAside(ps[q].bind) THEN 1 ELSE 0
               v == IF Installs(ps[q].bind) THEN 1 ELSE 0
    <3>8. u \in Nat /\ v \in Nat
      OBVIOUS
    <3>9. b(m) + u = b(m + 1) + v /\ Top(m) = u /\ In(m) = In(m + 1) + v
      BY <3>2, <3>5, <3>7
    <3> HIDE DEF u, v
    <3>10. b(m + 1) + Hn(m + 1) + 0 = In(m + 1)
      BY <3>4, <3>6
    <3>11. b(m) + Hn(m + 1) + u = In(m + 1) + v
      <4>1. PICK b0 \in Nat, b1 \in Nat : b0 = b(m) /\ b1 = b(m + 1)
        BY <3>2
      <4>2. PICK h1 \in Nat, i1 \in Nat : h1 = Hn(m + 1) /\ i1 = In(m + 1)
        BY <2>1, <2>2
      <4>3. b0 + u = b1 + v /\ b1 + h1 + 0 = i1
        BY <3>9, <3>10, <4>1, <4>2
      <4>4. b0 + h1 + u = i1 + v
        BY ONLY <3>8, <4>3, Balance
      <4> QED
        BY <4>1, <4>2, <4>4
    <3> QED
      BY <3>2, <3>6, <3>9, <3>11
  <2>11. CASE y.f # "inside"
    <3>1. x[m] = d /\ b(m) = b(m + 1) /\ Scoped(ps, d)
      BY <2>3, <2>9, <2>11 DEF Above
    <3>2. ~IsAside(ps, y) /\ ~IsInstalled(ps, y)
      BY <2>11 DEF IsAside, IsInstalled
    <3>3. b(m + 1) \in Nat /\ b(m + 1) + Hn(m + 1) + Top(m + 1) = In(m + 1)
      BY <2>7, <3>1
    <3> HIDE DEF b, Hn, In, Top, I, H, y
    <3> QED
      BY <2>1, <2>2, <2>4, <2>5, <2>6, <3>1, <3>2, <3>3
  <2> QED
    BY <2>10, <2>11
<1>5. Ok(1)
  <2> DEFINE Bad == {k \in 1 .. n + 1 : ~Ok(k)}
  <2>1. ASSUME ~Ok(1)
        PROVE  FALSE
    <3>1. 1 \in Bad /\ Bad \subseteq 1 .. n + 1 /\ n + 1 \in Nat
      BY <1>2, <2>1
    <3> DEFINE k == Max(Bad)
    <3>2. k \in Bad /\ \A j \in Bad : j <= k
      <4> HIDE DEF Bad, n
      <4> QED
        BY <3>1, GreatestOf
    <3> HIDE DEF k
    <3>3. k \in 1 .. n + 1 /\ ~Ok(k)
      BY <3>2
    <3>4. k # n + 1
      BY <1>3, <3>3
    <3>5. k \in 1 .. n /\ k + 1 \in 1 .. n + 1 /\ ~(k + 1 <= k)
      BY <1>2, <3>3, <3>4
    <3>6. Ok(k + 1)
      BY <3>2, <3>5
    <3> HIDE DEF Ok
    <3> QED
      BY <1>4, <3>3, <3>5, <3>6
  <2> QED
    BY <2>1
<1>6. Top(1) = 0
  BY DEF Paired
<1>7. I \cap (1 .. n) = I /\ H \cap (1 .. n) = H
  OBVIOUS
<1>8. b(1) \in Nat /\ b(1) + Hn(1) + Top(1) = In(1) /\ b(1) = BoundIn(ps, e, Handler)
  BY <1>1, <1>5
<1>9. Hn(1) = Cardinality(H) /\ In(1) = Cardinality(I)
  BY <1>7 DEF Count
<1>10. Cardinality(H) \in Nat /\ Cardinality(I) \in Nat
  <2>1. IsFiniteSet(1 .. n)
    BY <1>2, FS_Interval
  <2>2. IsFiniteSet(H) /\ IsFiniteSet(I)
    BY <1>2, <2>1, FS_Subset
  <2> QED
    BY <2>2, FS_CardinalityType
<1> HIDE DEF b, Hn, In, Top
<1>11. BoundIn(ps, e, Handler) = Cardinality(I) - Cardinality(H)
  <2> HIDE DEF I, H
  <2> QED
    BY <1>6, <1>8, <1>9, <1>10
<1> QED
  BY <1>11

(* Wherever a procedure of the program runs, the handler is the innermost  *)
(* one around it of those that are not running, however deep exceptions    *)
(* are raised in handlers and also after a continuation has been called.   *)
THEOREM AlwaysHandlerOfCaller ==
  ASSUME ~Escapes
  PROVE  Spec => []HandlerOfCaller
<1>1. ASSUME IInv, at = "run", ~InThunk
      PROVE  value[Handler] = Cardinality({i \in DOMAIN stack :
                                             /\ stack[i].f = "inside"
                                             /\ Installs(points[stack[i].point].bind)})
                              - Cardinality({i \in DOMAIN stack : stack[i].f = "handling"})
  <2>1. /\ IsStack(stack) /\ Frames(points, stack, FALSE) /\ Paired(points, stack, TRUE)
        /\ stack # <<>> => ~IsAside(points, stack[1])
        /\ ValuesAre(value, points, extent)
    BY <1>1, AtRun
  <2>2. Paired(points, stack, FALSE)
    BY <2>1, PairedReturns
  <2>3. Nested(points, stack, extent, <<>>)
    BY <1>1, OutOfThunk
  <2>4. DOMAIN stack = 1 .. Len(stack)
    BY <2>1 DEF IsStack
  <2>5. value[Handler] = BoundIn(points, extent, Handler)
    <3>1. Handler \in Parameter
      BY ExceptionsAssumption
    <3> HIDE DEF Handler
    <3> QED
      BY <2>1, <3>1 DEF ValuesAre
  <2>6. IsTree(points) /\ Scoped(points, extent)
    BY <1>1 DEF IInv
  <2>7. BoundIn(points, extent, Handler) =
          Cardinality({i \in 1 .. Len(stack) : IsInstalled(points, stack[i])})
            - Cardinality({i \in 1 .. Len(stack) : stack[i].f = "handling"})
    BY <2>1, <2>2, <2>3, <2>6, HandlersCounted
  <2> QED
    BY <2>4, <2>5, <2>7 DEF IsInstalled
<1>2. IInv => HandlerOfCaller
  <2> HIDE DEF Handler
  <2> QED
    BY <1>1 DEF HandlerOfCaller, Installs
<1> QED
  BY <1>2, AlwaysNested, PTL

=============================================================================
