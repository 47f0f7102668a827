------------------------------- MODULE ModelLemmas -------------------------------
(***************************************************************************)
(* Facts the proofs about several models rest on.                            *)
(*                                                                         *)
(* Loops.  A loop of the code is a function of the round in the models,      *)
(* f[i \in 0 .. n] == IF i = 0 THEN s ELSE ... f[i - 1] ..., and so a CHOOSE  *)
(* of a function that satisfies this equation.  Iterates says that there is  *)
(* one, Stays that an invariant of the rounds holds of it.  Both rest on     *)
(* induction, here a property of sets of numbers.                            *)
(*                                                                         *)
(* Sequences.  A stream in two parts, the head of the second moved to the    *)
(* end of the first, or cut and moved in part.                               *)
(* A stream in three parts, Joined: units moved from one part to the one     *)
(* before, or dropped in front.                                              *)
(* A sequence cut in two: what each part is, and what is behind both.        *)
(***************************************************************************)
EXTENDS Integers, Sequences, SequenceTheorems, FiniteSetTheorems, WellFoundedInduction, TLAPS

(* g is the recursion that starts with s and applies F[i] in its i-th step. *)
IsRecursion(g, n, s, F) ==
  g = [i \in 0 .. n |-> IF i = 0 THEN s ELSE F[i][g[i - 1]]]

(* g is the loop that starts with s and runs F in each of n rounds.         *)
IsRun(g, n, s, F) ==
  g = [i \in 0 .. n |-> IF i = 0 THEN s ELSE F[g[i - 1]]]

(* What holds after i of n rounds of F from s, W[i], stays within V.        *)
Invariants(n, V, s, F, W) ==
  /\ s \in W[0]
  /\ \A i \in 0 .. n : W[i] \subseteq V
  /\ \A i \in 1 .. n : \A x \in W[i - 1] : F[x] \in W[i]

(* A set with 0 and the successor of each of its numbers has all of them.   *)
LEMMA SetInduction ==
  ASSUME NEW S, 0 \in S, \A n \in Nat : n \in S => n + 1 \in S
  PROVE  Nat \subseteq S
<1> DEFINE T == Nat \ S
           R == OpToRel(<, Nat)
<1>1. SUFFICES ASSUME T # {} PROVE FALSE
  OBVIOUS
<1>2. PICK x \in T : \A y \in T : ~ (<<y, x>> \in R)
  <2>1. IsWellFoundedOn(R, Nat)
    BY NatLessThanWellFounded
  <2>2. T \subseteq Nat
    OBVIOUS
  <2> HIDE DEF T, R
  <2> QED
    BY <1>1, <2>1, <2>2, WFMin
<1>3. \A y \in T : ~ (y < x)
  BY <1>2 DEF OpToRel
<1>4. x \in Nat /\ x # 0
  BY <1>2
<1>5. x - 1 \in Nat /\ x - 1 < x
  BY <1>4
<1> QED
  BY <1>3, <1>4, <1>5

(* The recursion that starts with s and applies F[i] in its i-th step can   *)
(* be carried on for n steps.                                               *)
LEMMA Recursion ==
  ASSUME NEW n \in Nat, NEW F, NEW s
  PROVE  \E g : IsRecursion(g, n, s, F)
<1> USE DEF IsRecursion
<1> DEFINE S == {m \in Nat : \E g :
                   g = [i \in 0 .. m |-> IF i = 0 THEN s ELSE F[i][g[i - 1]]]}
<1>1. 0 \in S
  <2>1. [i \in 0 .. 0 |-> s]
          = [i \in 0 .. 0 |-> IF i = 0 THEN s ELSE F[i][[j \in 0 .. 0 |-> s][i - 1]]]
    OBVIOUS
  <2> QED
    BY <2>1
<1>2. ASSUME NEW m \in Nat, m \in S PROVE m + 1 \in S
  <2>1. PICK g : g = [i \in 0 .. m |-> IF i = 0 THEN s ELSE F[i][g[i - 1]]]
    BY <1>2
  <2> DEFINE h == [i \in 0 .. m + 1 |-> IF i <= m THEN g[i] ELSE F[m + 1][g[m]]]
  <2>2. ASSUME NEW i \in 0 .. m + 1
        PROVE  h[i] = IF i = 0 THEN s ELSE F[i][h[i - 1]]
    <3>1. CASE i = 0
      BY <2>1, <3>1, SMTT(20)
    <3>2. CASE i \in 1 .. m
      BY <2>1, <3>2, SMTT(30)
    <3>3. CASE i = m + 1
      BY <3>3
    <3> QED
      BY <3>1, <3>2, <3>3
  <2>3. h = [i \in 0 .. m + 1 |-> IF i = 0 THEN s ELSE F[i][h[i - 1]]]
    BY <2>2
  <2> HIDE DEF h
  <2> QED
    BY <2>3
<1> HIDE DEF S
<1>3. Nat \subseteq S
  BY <1>1, <1>2, SetInduction
<1> QED
  BY <1>3 DEF S

(* F can be iterated n times from s.                                        *)
LEMMA Iterates ==
  ASSUME NEW n \in Nat, NEW F, NEW s
  PROVE  \E g : IsRun(g, n, s, F)
<1> DEFINE G == [i \in 1 .. n |-> F]
<1>1. PICK g : IsRecursion(g, n, s, G)
  BY Recursion
<1>2. g = [i \in 0 .. n |-> IF i = 0 THEN s ELSE G[i][g[i - 1]]]
  BY <1>1 DEF IsRecursion
<1>3. \A i \in 0 .. n : i # 0 => G[i] = F
  OBVIOUS
<1> HIDE DEF G
<1>4. g = [i \in 0 .. n |-> IF i = 0 THEN s ELSE F[g[i - 1]]]
  BY <1>2, <1>3
<1> QED
  BY <1>4 DEF IsRun

(* What each round leads from W[i - 1] to W[i] is in W[i] after i rounds.   *)
LEMMA Stays ==
  ASSUME NEW n \in Nat, NEW g, NEW W, g[0] \in W[0],
         \A i \in 1 .. n : g[i - 1] \in W[i - 1] => g[i] \in W[i]
  PROVE  \A i \in 0 .. n : g[i] \in W[i]
<1> DEFINE S == {m \in Nat : m <= n => g[m] \in W[m]}
<1>1. 0 \in S /\ \A m \in Nat : m \in S => m + 1 \in S
  OBVIOUS
<1> HIDE DEF S
<1>2. Nat \subseteq S
  BY <1>1, SetInduction
<1> QED
  BY <1>2 DEF S

(* A loop whose rounds stay within a set computes the iterates of its round *)
(* F: the equation that defines it holds, and the invariants W are kept.    *)
LEMMA Loop ==
  ASSUME NEW n \in Nat, NEW V, NEW s, NEW F, NEW W,
         Invariants(n, V, s, F, W)
  PROVE  \E g : /\ IsRun(g, n, s, F)
                /\ \A i \in 0 .. n : g[i] \in W[i] /\ g[i] \in V
<1>1. PICK g : IsRun(g, n, s, F)
  BY Iterates
<1>2. \A i \in 1 .. n : g[i - 1] \in W[i - 1] => g[i] \in W[i]
  <2>1. ASSUME NEW i \in 1 .. n PROVE g[i] = F[g[i - 1]]
    BY <1>1 DEF IsRun
  <2> QED
    BY <2>1 DEF Invariants
<1>3. g[0] \in W[0]
  BY <1>1 DEF IsRun, Invariants
<1>4. \A i \in 0 .. n : g[i] \in W[i]
  BY <1>2, <1>3, Stays
<1>5. \A i \in 0 .. n : g[i] \in V
  BY <1>4 DEF Invariants
<1> QED
  BY <1>1, <1>4, <1>5

(* The head of q moved to the end of w.                                     *)
LEMMA MoveHead ==
  ASSUME NEW S, NEW w \in Seq(S), NEW q \in Seq(S), q # <<>>
  PROVE  Append(w, Head(q)) \o Tail(q) = w \o q
<1> DEFINE e == Head(q)
<1>1. e \in S /\ Tail(q) \in Seq(S) /\ <<e>> \in Seq(S) /\ Len(<<e>>) = 1 /\ <<e>>[1] = e
      /\ Len(Tail(q)) = Len(q) - 1 /\ Len(q) \in Nat /\ e = q[1]
      /\ \A i \in 1 .. Len(q) - 1 : Tail(q)[i] = q[i + 1]
  BY HeadTailProperties, LenProperties
<1>2. <<e>> \o Tail(q) = q
  <2>1. /\ <<e>> \o Tail(q) \in Seq(S)
        /\ Len(<<e>> \o Tail(q)) = Len(<<e>>) + Len(Tail(q))
        /\ \A i \in 1 .. Len(<<e>>) + Len(Tail(q)) : (<<e>> \o Tail(q))[i] =
             IF i <= Len(<<e>>) THEN <<e>>[i] ELSE Tail(q)[i - Len(<<e>>)]
    <3> HIDE DEF e
    <3> QED
      BY <1>1, ConcatProperties
  <2> HIDE DEF e
  <2>2. Len(<<e>> \o Tail(q)) = Len(q)
    BY <1>1, <2>1
  <2>3. ASSUME NEW i \in 1 .. Len(q) PROVE (<<e>> \o Tail(q))[i] = q[i]
    BY <1>1, <2>1
  <2> QED
    BY <2>1, <2>2, <2>3, SeqEqual
<1> HIDE DEF e
<1>3. Append(w, e) = w \o <<e>>
  BY <1>1, AppendIsConcat
<1>4. (w \o <<e>>) \o Tail(q) = w \o (<<e>> \o Tail(q))
  BY <1>1, ConcatAssociative, SMTT(20)
<1> QED
  BY <1>2, <1>3, <1>4 DEF e

(* cut is st with two elements a and b in the place of the k-th.             *)
Parted(st, cut, k, a, b) ==
  /\ k \in 1 .. Len(st) /\ Len(cut) = Len(st) + 1
  /\ \A i \in 1 .. k - 1 : cut[i] = st[i]
  /\ cut[k] = a /\ cut[k + 1] = b
  /\ \A i \in k + 2 .. Len(cut) : cut[i] = st[i - 1]

(* st is the queue q behind w, cut the same with the head of q in two parts, *)
(* k the place where they differ.                                           *)
CutsHead(st, cut, k, w, q, a, b) ==
  /\ st = w \o q /\ k = Len(w) + 1
  /\ cut = Append(w, a) \o (<<b>> \o Tail(q))

(* The head of q moved to the end of w in two parts.                        *)
LEMMA MoveParts ==
  ASSUME NEW S, NEW w \in Seq(S), NEW q \in Seq(S), q # <<>>,
         NEW a \in S, NEW b \in S,
         NEW st, NEW cut, NEW k, CutsHead(st, cut, k, w, q, a, b)
  PROVE  /\ st \in Seq(S) /\ cut \in Seq(S)
         /\ st[k] = Head(q) /\ Parted(st, cut, k, a, b)
<1> DEFINE u == Append(w, a)
           v == <<b>> \o Tail(q)
<1>0. st = w \o q /\ k = Len(w) + 1
  BY DEF CutsHead
<1>1. /\ Tail(q) \in Seq(S) /\ Len(Tail(q)) = Len(q) - 1 /\ Len(q) \in Nat \ {0}
      /\ \A i \in 1 .. Len(q) - 1 : Tail(q)[i] = q[i + 1]
      /\ Head(q) = q[1] /\ Len(w) \in Nat
  BY HeadTailProperties, LenProperties, EmptySeq
<1>2. /\ st \in Seq(S) /\ Len(st) = Len(w) + Len(q)
      /\ \A i \in 1 .. Len(w) + Len(q) :
           st[i] = IF i <= Len(w) THEN w[i] ELSE q[i - Len(w)]
  BY <1>0, ConcatProperties
<1>3. /\ u \in Seq(S) /\ Len(u) = k
      /\ \A i \in 1 .. Len(w) : u[i] = w[i]
      /\ u[k] = a
  BY <1>0, AppendProperties
<1>4. /\ v \in Seq(S) /\ Len(v) = Len(q) /\ v[1] = b
      /\ \A i \in 2 .. Len(q) : v[i] = q[i]
  <2>1. <<b>> \in Seq(S) /\ Len(<<b>>) = 1 /\ <<b>>[1] = b
    OBVIOUS
  <2>2. /\ v \in Seq(S) /\ Len(v) = Len(<<b>>) + Len(Tail(q))
        /\ \A i \in 1 .. Len(<<b>>) + Len(Tail(q)) :
             v[i] = IF i <= Len(<<b>>) THEN <<b>>[i] ELSE Tail(q)[i - Len(<<b>>)]
    BY <1>1, <2>1, ConcatProperties
  <2> HIDE DEF v
  <2> QED
    BY <1>1, <2>1, <2>2
<1>5. cut = u \o v
  BY DEF CutsHead
<1> HIDE DEF u, v
<1>6. /\ cut \in Seq(S) /\ Len(cut) = Len(u) + Len(v)
      /\ \A i \in 1 .. Len(u) + Len(v) :
           cut[i] = IF i <= Len(u) THEN u[i] ELSE v[i - Len(u)]
  <2>1. /\ u \o v \in Seq(S) /\ Len(u \o v) = Len(u) + Len(v)
        /\ \A i \in 1 .. Len(u) + Len(v) :
             (u \o v)[i] = IF i <= Len(u) THEN u[i] ELSE v[i - Len(u)]
    <3>1. u \in Seq(S) /\ v \in Seq(S)
      BY <1>3, <1>4
    <3> QED
      BY ONLY <3>1, ConcatProperties
  <2> QED
    BY <1>5, <2>1, Zenon
<1>7. k \in 1 .. Len(st) /\ st[k] = Head(q) /\ Len(cut) = Len(st) + 1
  BY <1>0, <1>1, <1>2, <1>3, <1>4, <1>6
<1>8. ASSUME NEW i \in 1 .. k - 1 PROVE cut[i] = st[i]
  BY <1>0, <1>1, <1>2, <1>3, <1>4, <1>6
<1>9. cut[k] = a /\ cut[k + 1] = b
  BY <1>0, <1>1, <1>3, <1>4, <1>6
<1>10. ASSUME NEW i \in k + 2 .. Len(cut) PROVE cut[i] = st[i - 1]
  <2>1. cut[i] = v[i - k] /\ i - k \in 2 .. Len(q)
    BY <1>0, <1>1, <1>3, <1>4, <1>6
  <2>2. i - 1 \in 1 .. Len(w) + Len(q) /\ ~ (i - 1 <= Len(w)) /\ i - k = (i - 1) - Len(w)
    BY <1>0, <1>1, <2>1
  <2>3. st[i - 1] = q[(i - 1) - Len(w)]
    BY <1>2, <2>2
  <2> QED
    BY <1>4, <2>1, <2>2, <2>3
<1>11. Parted(st, cut, k, a, b)
  BY <1>7, <1>8, <1>9, <1>10 DEF Parted
<1> QED
  BY <1>2, <1>6, <1>7, <1>11

(* Four sequences over S.                                                   *)
AreSequences(S, a, b, g, h) ==
  a \in Seq(S) /\ b \in Seq(S) /\ g \in Seq(S) /\ h \in Seq(S)

(* Their concatenation, regrouped.                                          *)
Regroups(a, b, g, h) == (a \o (b \o g)) \o h = (a \o b) \o (g \o h)

(* Concatenation is associative.                                            *)
LEMMA Regroup ==
  ASSUME NEW S, NEW a, NEW b, NEW g, NEW h, AreSequences(S, a, b, g, h)
  PROVE  Regroups(a, b, g, h)
<1>1. a \in Seq(S) /\ b \in Seq(S) /\ g \in Seq(S) /\ h \in Seq(S)
  BY DEF AreSequences
<1>2. (a \o b) \o g = a \o (b \o g)
  BY <1>1, ConcatAssociative, SMTT(20)
<1>3. ASSUME NEW x \in Seq(S) PROVE (x \o g) \o h = x \o (g \o h)
  BY <1>1, ConcatAssociative, SMTT(20)
<1>4. a \o b \in Seq(S)
  BY <1>1, ConcatProperties
<1>5. ((a \o b) \o g) \o h = (a \o b) \o (g \o h)
  BY <1>3, <1>4, Zenon
<1>6. (a \o (b \o g)) \o h = (a \o b) \o (g \o h)
  BY <1>2, <1>5, Zenon
<1> QED
  BY <1>6, Zenon DEF Regroups

(* A stream in three parts.                                                 *)
Joined(a, b, t) == (a \o b) \o t

(* The first n elements of a sequence, and the others.                      *)
UpTo(t, n) == SubSeq(t, 1, n)
Behind(t, n) == SubSeq(t, n + 1, Len(t))

(* What the parts, sequences over S, say of the stream.                     *)
PartsFit(S, a, b, t) ==
  LET st == Joined(a, b, t)
  IN  /\ st \in Seq(S) /\ Len(st) = Len(a) + Len(b) + Len(t)
      /\ st = <<>> <=> a = <<>> /\ b = <<>> /\ t = <<>>
      /\ \A i \in 1 .. Len(a) : st[i] = a[i] /\ i \in 1 .. Len(st)

(* The parts of a stream are found in it, and it is empty when they are.    *)
LEMMA StreamParts ==
  ASSUME NEW S, NEW a \in Seq(S), NEW b \in Seq(S), NEW t \in Seq(S)
  PROVE  PartsFit(S, a, b, t)
<1>1. PICK ab \in Seq(S) : ab = a \o b
  BY ConcatProperties
<1>2. PICK st \in Seq(S) : st = ab \o t
  BY ConcatProperties
<1>3. Len(a) \in Nat /\ Len(b) \in Nat /\ Len(t) \in Nat
  BY LenProperties
<1>4. Len(ab) = Len(a) + Len(b) /\ \A i \in 1 .. Len(a) : ab[i] = a[i]
  <2>1. /\ Len(ab) = Len(a) + Len(b)
        /\ \A i \in 1 .. Len(a) + Len(b) : ab[i] = IF i <= Len(a) THEN a[i] ELSE b[i - Len(a)]
    BY <1>1, ConcatProperties
  <2> QED
    BY <1>3, <2>1
<1>5. Len(st) = Len(ab) + Len(t) /\ \A i \in 1 .. Len(ab) : st[i] = ab[i]
  <2>1. /\ Len(st) = Len(ab) + Len(t)
        /\ \A i \in 1 .. Len(ab) + Len(t) : st[i] = IF i <= Len(ab) THEN ab[i] ELSE t[i - Len(ab)]
    BY <1>2, ConcatProperties
  <2> QED
    BY <1>3, <1>4, <2>1
<1>6. Len(st) = Len(a) + Len(b) + Len(t)
  BY <1>3, <1>4, <1>5
<1>7. st = <<>> <=> a = <<>> /\ b = <<>> /\ t = <<>>
  BY <1>3, <1>6, EmptySeq
<1>8. \A i \in 1 .. Len(a) : st[i] = a[i] /\ i \in 1 .. Len(st)
  BY <1>3, <1>4, <1>5, <1>6
<1> QED
  BY <1>1, <1>2, <1>6, <1>7, <1>8, Zenon DEF PartsFit, Joined

(* What is left of the stream behind its first n elements.                  *)
FrontDropped(S, a, b, t, n) ==
  LET d == Behind(a, n)
      st == Joined(a, b, t)
      vs == Joined(d, b, t)
  IN  /\ d \in Seq(S) /\ Len(d) = Len(a) - n
      /\ vs \in Seq(S) /\ Len(vs) = Len(st) - n
      /\ \A i \in 1 .. Len(vs) : vs[i] = st[i + n]

(* Dropping from the first part drops from the stream.                      *)
LEMMA DropFront ==
  ASSUME NEW S, NEW a \in Seq(S), NEW b \in Seq(S), NEW t \in Seq(S),
         NEW n \in Nat, n <= Len(a)
  PROVE  FrontDropped(S, a, b, t, n)
<1>0. Len(a) \in Nat /\ Len(b) \in Nat /\ Len(t) \in Nat
  BY LenProperties
<1>a. \A x \in Seq(S) : (x \o b) \o t = x \o (b \o t)
  <2>1. ASSUME NEW x \in Seq(S)
        PROVE  (x \o b) \o t = x \o (b \o t)
    BY ONLY <2>1, ConcatAssociative, b \in Seq(S), t \in Seq(S), SMTT(20)
  <2> QED
    BY ONLY <2>1
<1> DEFINE d == SubSeq(a, n + 1, Len(a))
<1>1. /\ d \in Seq(S) /\ Len(d) = Len(a) - n
      /\ \A i \in 1 .. Len(d) : d[i] = a[i + n]
  <2>1. n + 1 \in 1 .. Len(a) + 1 /\ Len(a) \in n + 1 - 1 .. Len(a)
    BY <1>0
  <2>2. \A i \in n + 1 .. Len(a) : a[i] \in S
    BY <1>0, ElementOfSeq
  <2>3. /\ d \in Seq(S)
        /\ Len(d) = IF n + 1 <= Len(a) THEN Len(a) - (n + 1) + 1 ELSE 0
        /\ \A i \in 1 .. Len(a) - (n + 1) + 1 : d[i] = a[n + 1 + i - 1]
    BY <1>0, <2>2, SubSeqProperties, SMTT(20)
  <2> HIDE DEF d
  <2>4. Len(d) = Len(a) - n
    BY <1>0, <2>3
  <2>5. \A i \in 1 .. Len(d) : d[i] = a[i + n]
    <3>1. ASSUME NEW i \in 1 .. Len(d) PROVE d[i] = a[i + n]
      <4>1. i \in 1 .. Len(a) - (n + 1) + 1 /\ n + 1 + i - 1 = i + n
        BY <1>0, <2>4
      <4> QED
        BY <2>3, <4>1
    <3> QED
      BY <3>1
  <2> QED
    BY <2>3, <2>4, <2>5
<1> HIDE DEF d
<1>2. PICK dd \in Seq(S), m \in Nat :
        dd = d /\ Len(dd) = m /\ m = Len(a) - n /\ \A i \in 1 .. m : dd[i] = a[i + n]
  BY <1>0, <1>1
<1>3. PICK bt \in Seq(S) : bt = b \o t
  BY ConcatProperties
<1>4. PICK k \in Nat : k = Len(bt)
  BY LenProperties
<1>5. PICK st \in Seq(S) : st = a \o bt
  BY ConcatProperties
<1>6. PICK vs \in Seq(S) : vs = dd \o bt
  BY ConcatProperties
<1>7. /\ Len(st) = Len(a) + k
      /\ \A i \in 1 .. Len(a) + k : st[i] = IF i <= Len(a) THEN a[i] ELSE bt[i - Len(a)]
  BY <1>4, <1>5, ConcatProperties
<1>8. /\ Len(vs) = m + k
      /\ \A i \in 1 .. m + k : vs[i] = IF i <= m THEN dd[i] ELSE bt[i - m]
  <2>1. /\ Len(dd \o bt) = Len(dd) + Len(bt)
        /\ \A i \in 1 .. Len(dd) + Len(bt) :
             (dd \o bt)[i] = IF i <= Len(dd) THEN dd[i] ELSE bt[i - Len(dd)]
    BY ConcatProperties
  <2>2. Len(dd) = m
    BY <1>2
  <2> QED
    BY <1>4, <1>6, <2>1, <2>2
<1>9. Len(vs) = Len(st) - n
  <2>1. m = Len(a) - n
    BY <1>2
  <2> QED
    BY <1>0, <1>7, <1>8, <2>1
<1>10. ASSUME NEW i \in 1 .. Len(vs) PROVE vs[i] = st[i + n]
  <2>0. m = Len(a) - n
    BY <1>2
  <2>1. i + n \in 1 .. Len(a) + k /\ i \in 1 .. m + k
    BY <1>0, <1>8, <2>0
  <2>2. CASE i <= m
    <3>1. i + n <= Len(a) /\ i \in 1 .. m
      BY <1>0, <2>0, <2>2
    <3>2. vs[i] = dd[i] /\ dd[i] = a[i + n]
      BY <1>2, <1>8, <2>1, <2>2, <3>1
    <3> QED
      BY <1>7, <2>1, <3>1, <3>2
  <2>3. CASE ~ (i <= m)
    <3>1. ~ (i + n <= Len(a)) /\ (i + n) - Len(a) = i - m
      BY <1>0, <2>0, <2>3
    <3> QED
      BY <1>7, <1>8, <2>1, <2>3, <3>1
  <2> QED
    BY <2>2, <2>3
<1>11. st = (a \o b) \o t /\ vs = (dd \o b) \o t
  BY <1>a, <1>3, <1>5, <1>6, Zenon
<1>12. dd = d /\ Len(dd) = Len(a) - n
  BY <1>2
<1> QED
  BY <1>9, <1>10, <1>11, <1>12, Zenon DEF d, FrontDropped, Joined, Behind

(* The first n elements of its third part moved to the second.              *)
UnitsMoved(S, a, b, t, n) ==
  LET c == b \o UpTo(t, n)
      r == Behind(t, n)
  IN  /\ c \in Seq(S) /\ Len(c) = Len(b) + n /\ r \in Seq(S)
      /\ Joined(a, c, r) = Joined(a, b, t)

(* Data that TCP delivers move within the stream.                           *)
LEMMA MoveUnits ==
  ASSUME NEW S, NEW a \in Seq(S), NEW b \in Seq(S), NEW t \in Seq(S),
         NEW n \in Nat, n <= Len(t)
  PROVE  UnitsMoved(S, a, b, t, n)
<1>0. Len(a) \in Nat /\ Len(b) \in Nat /\ Len(t) \in Nat
  BY LenProperties
<1>a. ASSUME NEW g \in Seq(S), NEW h \in Seq(S)
      PROVE  Regroups(a, b, g, h)
  <2>1. AreSequences(S, a, b, g, h)
    BY DEF AreSequences
  <2> QED
    BY ONLY <2>1, Regroup
<1>1. \A i \in 1 .. Len(t) : t[i] \in S
  BY ElementOfSeq
<1>2. PICK f \in Seq(S) :
        /\ f = SubSeq(t, 1, n) /\ Len(f) = n /\ \A i \in 1 .. n : f[i] = t[i]
  <2> DEFINE f == SubSeq(t, 1, n)
  <2>1. /\ f \in Seq(S)
        /\ Len(f) = IF 1 <= n THEN n - 1 + 1 ELSE 0
        /\ \A i \in 1 .. n - 1 + 1 : f[i] = t[1 + i - 1]
    <3>1. \A i \in 1 .. n : t[i] \in S
      BY <1>0, <1>1
    <3> QED
      BY <3>1, SubSeqProperties
  <2> HIDE DEF f
  <2>2. Len(f) = n
    BY <2>1
  <2>3. \A i \in 1 .. n : f[i] = t[i]
    <3>1. ASSUME NEW i \in 1 .. n PROVE f[i] = t[i]
      <4>1. i \in 1 .. n - 1 + 1 /\ 1 + i - 1 = i
        OBVIOUS
      <4> QED
        BY <2>1, <4>1
    <3> QED
      BY <3>1
  <2> QED
    BY <2>1, <2>2, <2>3 DEF f
<1>3. PICK r \in Seq(S) :
        /\ r = SubSeq(t, n + 1, Len(t)) /\ Len(r) = Len(t) - n
        /\ \A i \in 1 .. Len(r) : r[i] = t[i + n]
  <2> DEFINE r == SubSeq(t, n + 1, Len(t))
  <2>1. \A i \in n + 1 .. Len(t) : t[i] \in S
    BY <1>0, <1>1
  <2>2. /\ r \in Seq(S)
        /\ Len(r) = IF n + 1 <= Len(t) THEN Len(t) - (n + 1) + 1 ELSE 0
        /\ \A i \in 1 .. Len(t) - (n + 1) + 1 : r[i] = t[n + 1 + i - 1]
    BY <1>0, <2>1, SubSeqProperties, SMTT(20)
  <2> HIDE DEF r
  <2>3. Len(r) = Len(t) - n
    BY <1>0, <2>2
  <2>4. \A i \in 1 .. Len(r) : r[i] = t[i + n]
    <3>1. ASSUME NEW i \in 1 .. Len(r) PROVE r[i] = t[i + n]
      <4>1. i \in 1 .. Len(t) - (n + 1) + 1 /\ n + 1 + i - 1 = i + n
        BY <1>0, <2>3
      <4> QED
        BY <2>2, <4>1
    <3> QED
      BY <3>1
  <2> QED
    BY <2>2, <2>3, <2>4 DEF r
<1>9. PICK g \in Seq(S), h \in Seq(S), m \in Nat :
        /\ g = f /\ h = r /\ m = Len(t) - n /\ Len(g) = n /\ Len(h) = m
        /\ \A i \in 1 .. n : g[i] = t[i]
        /\ \A i \in 1 .. m : h[i] = t[i + n]
  <2>1. Len(t) - n \in Nat
    BY <1>0
  <2>2. f \in Seq(S) /\ r \in Seq(S) /\ Len(f) = n /\ \A i \in 1 .. n : f[i] = t[i]
    BY <1>2
  <2>3. Len(r) = Len(t) - n /\ \A i \in 1 .. Len(t) - n : r[i] = t[i + n]
    BY <1>3
  <2> QED
    BY <2>1, <2>2, <2>3, Zenon
<1>4. g \o h = t
  <2>0. m = Len(t) - n
    BY <1>9
  <2>1. PICK fr \in Seq(S) : fr = g \o h
    BY ConcatProperties
  <2>2. /\ Len(fr) = n + m
        /\ \A i \in 1 .. n + m : fr[i] = IF i <= n THEN g[i] ELSE h[i - n]
    <3>1. /\ Len(g \o h) = Len(g) + Len(h)
          /\ \A i \in 1 .. Len(g) + Len(h) :
               (g \o h)[i] = IF i <= Len(g) THEN g[i] ELSE h[i - Len(g)]
      BY ConcatProperties
    <3>2. Len(g) = n /\ Len(h) = m
      BY <1>9
    <3> QED
      BY <2>1, <3>1, <3>2
  <2>3. Len(fr) = Len(t)
    BY <1>0, <2>0, <2>2
  <2>4. ASSUME NEW i \in 1 .. Len(fr) PROVE fr[i] = t[i]
    <3>0. i \in 1 .. n + m
      BY <2>2
    <3>1. CASE i <= n
      <4>1. i \in 1 .. n /\ fr[i] = g[i]
        BY <2>2, <3>0, <3>1
      <4> QED
        BY <1>9, <4>1
    <3>2. CASE ~ (i <= n)
      <4>1. fr[i] = h[i - n]
        BY <2>2, <3>0, <3>2
      <4>2. i - n \in 1 .. m /\ (i - n) + n = i
        BY <3>0, <3>2
      <4>3. h[i - n] = t[(i - n) + n]
        BY <1>9, <4>2
      <4> QED
        BY <4>1, <4>2, <4>3
    <3> QED
      BY <3>1, <3>2
  <2>5. fr = t
    BY <2>3, <2>4, SeqEqual
  <2> QED
    BY <2>1, <2>5
<1>5. PICK bf \in Seq(S) : bf = b \o g /\ Len(bf) = Len(b) + Len(g)
  BY ConcatProperties
<1>6. (a \o bf) \o h = (a \o b) \o t
  <2>1. (a \o (b \o g)) \o h = (a \o b) \o (g \o h)
    BY <1>a, Zenon DEF Regroups
  <2> QED
    BY <1>4, <1>5, <2>1, Zenon
<1>7. /\ g = f /\ h = r /\ Len(g) = n
  BY <1>9
<1> QED
  BY <1>2, <1>3, <1>5, <1>6, <1>7, Zenon DEF UnitsMoved, Joined, UpTo, Behind

(* The second part moved to the first.                                      *)
SecondMoved(S, a, b, t) ==
  /\ a \o b \in Seq(S) /\ Len(a \o b) = Len(a) + Len(b)
  /\ Joined(a \o b, <<>>, t) = Joined(a, b, t)

(* Data that the application reads from its socket move within the stream.  *)
LEMMA MoveSecond ==
  ASSUME NEW S, NEW a \in Seq(S), NEW b \in Seq(S), NEW t \in Seq(S)
  PROVE  SecondMoved(S, a, b, t)
<1>1. PICK ab \in Seq(S) : ab = a \o b /\ Len(ab) = Len(a) + Len(b)
  BY ConcatProperties
<1>2. ab \o <<>> = ab
  BY ConcatEmptySeq
<1> QED
  BY <1>1, <1>2, Zenon DEF SecondMoved, Joined

(* A sequence alone.                                                        *)
LEMMA JoinedAlone ==
  ASSUME NEW S, NEW a \in Seq(S)
  PROVE  Joined(a, <<>>, <<>>) = a /\ Joined(<<>>, <<>>, a) = a
<1>1. a \o <<>> = a /\ <<>> \o a = a
  BY ConcatEmptySeq
<1>2. <<>> \o <<>> = <<>>
  OBVIOUS
<1> QED
  BY <1>1, <1>2, Zenon DEF Joined

(* An element appended to the second of two sequences.                      *)
LEMMA AppendBehind ==
  ASSUME NEW S, NEW q \in Seq(S), NEW o \in Seq(S), NEW m \in S
  PROVE  q \o Append(o, m) = Append(q \o o, m)
<1>1. <<m>> \in Seq(S)
  OBVIOUS
<1>2. q \o (o \o <<m>>) = (q \o o) \o <<m>>
  BY <1>1, ConcatAssociative
<1>3. PICK qo \in Seq(S) : qo = q \o o
  BY ConcatProperties
<1>4. Append(o, m) = o \o <<m>> /\ Append(qo, m) = qo \o <<m>>
  BY AppendIsConcat
<1> QED
  BY <1>2, <1>3, <1>4, Zenon

-----------------------------------------------------------------------------
(* Parts of a sequence. *)

(* v is the part of q from the element after a up to b.                     *)
IsCut(v, q, a, b) ==
  Len(v) = b - a /\ \A k \in 1 .. b - a : v[k] = q[a + k]

(* SubSeq cuts out the part behind the first a elements up to the b-th.     *)
LEMMA Cut ==
  ASSUME NEW S, NEW q \in Seq(S), NEW a \in Nat, NEW b \in Nat, a <= b, b <= Len(q)
  PROVE  SubSeq(q, a + 1, b) \in Seq(S) /\ IsCut(SubSeq(q, a + 1, b), q, a, b)
<1>1. PICK n \in Nat : n = Len(q)
  BY LenProperties
<1>2. \A i \in a + 1 .. b : q[i] \in S
  <2>1. \A i \in a + 1 .. b : i \in 1 .. n
    BY <1>1
  <2> QED
    BY <1>1, <2>1, ElementOfSeq
<1> DEFINE v == SubSeq(q, a + 1, b)
<1>3. PICK m \in Int : m = a + 1
  OBVIOUS
<1>4. /\ SubSeq(q, m, b) \in Seq(S)
      /\ Len(SubSeq(q, m, b)) = IF m <= b THEN b - m + 1 ELSE 0
      /\ \A i \in 1 .. b - m + 1 : SubSeq(q, m, b)[i] = q[m + i - 1]
  <2>1. \A i \in m .. b : q[i] \in S
    BY <1>2, <1>3
  <2> QED
    BY <2>1, SubSeqProperties
<1>5. PICK w \in Seq(S) : w = SubSeq(q, m, b)
  BY <1>4
<1>6. Len(w) = b - a
  BY <1>3, <1>4, <1>5
<1>7. ASSUME NEW k \in 1 .. b - a PROVE w[k] = q[a + k]
  <2>1. k \in 1 .. b - m + 1 /\ m + k - 1 = a + k
    BY <1>3
  <2> QED
    BY <1>4, <1>5, <2>1
<1>8. w = v
  BY <1>3, <1>5
<1> QED
  BY <1>6, <1>7, <1>8 DEF IsCut

(* A part of q is given by its elements.                                    *)
LEMMA CutIs ==
  ASSUME NEW S, NEW q \in Seq(S), NEW a \in Nat, NEW b \in Nat, a <= b, b <= Len(q),
         NEW v \in Seq(S), IsCut(v, q, a, b)
  PROVE  v = SubSeq(q, a + 1, b)
<1>1. PICK w \in Seq(S) : w = SubSeq(q, a + 1, b)
  BY Cut
<1>2. IsCut(w, q, a, b)
  BY <1>1, Cut
<1>3. Len(v) = Len(w) /\ \A k \in 1 .. Len(v) : v[k] = w[k]
  BY <1>2 DEF IsCut
<1> QED
  BY <1>1, <1>3, SeqEqual

(* The first n elements behind the first r, and what is behind them.        *)
CutsBehind(q, r, n) ==
  /\ Len(Behind(q, r)) = Len(q) - r
  /\ UpTo(Behind(q, r), n) = SubSeq(q, r + 1, r + n)
  /\ Behind(Behind(q, r), n) = Behind(q, r + n)

(* What is left behind r elements is cut as the whole sequence is.          *)
LEMMA CutBehind ==
  ASSUME NEW S, NEW q \in Seq(S), NEW r \in Nat, NEW n \in Nat, r + n <= Len(q)
  PROVE  CutsBehind(q, r, n)
<1>1. PICK l \in Nat : l = Len(q)
  BY LenProperties
<1>2. r <= l /\ r + n <= l /\ r + n \in Nat /\ n <= l - r /\ l - r \in Nat /\ r <= r + n
  BY <1>1
<1>3. PICK b \in Seq(S) : b = Behind(q, r)
  <2>1. Behind(q, r) \in Seq(S)
    <3>1. SubSeq(q, r + 1, l) \in Seq(S)
      BY <1>1, <1>2, Cut
    <3> QED
      BY <1>1, <3>1 DEF Behind
  <2> QED
    BY <2>1
<1>4. Len(b) = l - r /\ \A k \in 1 .. l - r : b[k] = q[r + k]
  <2>1. IsCut(b, q, r, l)
    BY <1>1, <1>2, <1>3, Cut DEF Behind
  <2> QED
    BY <2>1 DEF IsCut
<1>5. SubSeq(b, 1, n) = SubSeq(q, r + 1, r + n)
  <2>0. 0 <= n /\ 0 + 1 = 1
    OBVIOUS
  <2>1. PICK v \in Seq(S) : v = SubSeq(b, 0 + 1, n)
    BY <1>2, <1>4, <2>0, Cut
  <2>2. Len(v) = n /\ \A k \in 1 .. n : v[k] = b[k]
    <3>1. IsCut(v, b, 0, n)
      BY <1>2, <1>4, <2>0, <2>1, Cut
    <3> QED
      BY <3>1 DEF IsCut
  <2>3. IsCut(v, q, r, r + n)
    <3>1. (r + n) - r = n /\ \A k \in 1 .. n : k \in 1 .. l - r
      BY <1>2
    <3> QED
      BY <1>4, <2>2, <3>1 DEF IsCut
  <2>4. v = SubSeq(q, r + 1, r + n)
    BY <1>1, <1>2, <2>3, CutIs
  <2> QED
    BY <2>0, <2>1, <2>4
<1>6. Behind(b, n) = Behind(q, r + n)
  <2>1. PICK v \in Seq(S) : v = SubSeq(b, n + 1, l - r)
    <3>1. SubSeq(b, n + 1, l - r) \in Seq(S)
      BY <1>2, <1>4, Cut
    <3> QED
      BY <3>1
  <2>2. Len(v) = (l - r) - n /\ \A k \in 1 .. (l - r) - n : v[k] = b[n + k]
    <3>1. IsCut(v, b, n, l - r)
      BY <1>2, <1>4, <2>1, Cut
    <3> QED
      BY <3>1 DEF IsCut
  <2>3. IsCut(v, q, r + n, l)
    <3>1. l - (r + n) = (l - r) - n
      BY <1>2
    <3>2. ASSUME NEW k \in 1 .. (l - r) - n PROVE v[k] = q[(r + n) + k]
      <4>1. n + k \in 1 .. l - r /\ r + (n + k) = (r + n) + k
        BY <1>2
      <4> QED
        BY <1>4, <2>2, <4>1
    <3> QED
      BY <2>2, <3>1, <3>2 DEF IsCut
  <2>4. v = SubSeq(q, (r + n) + 1, l)
    BY <1>1, <1>2, <2>3, CutIs
  <2> QED
    BY <1>1, <1>4, <2>1, <2>4 DEF Behind
<1> QED
  BY <1>1, <1>3, <1>4, <1>5, <1>6 DEF CutsBehind, UpTo

(* What is behind the first r elements of q when t follows q.               *)
LEMMA BehindBoth ==
  ASSUME NEW S, NEW q \in Seq(S), NEW t \in Seq(S), NEW r \in Nat, r <= Len(q)
  PROVE  Behind(q \o t, r) = Behind(q, r) \o t
<1>1. PICK l \in Nat, m \in Nat : l = Len(q) /\ m = Len(t)
  BY LenProperties
<1>2. r <= l /\ r <= l + m /\ l - r \in Nat /\ l + m \in Nat
  BY <1>1
<1>3. PICK b \in Seq(S) : b = Behind(q, r)
  <2>1. Behind(q, r) \in Seq(S)
    <3>1. SubSeq(q, r + 1, l) \in Seq(S)
      BY <1>1, <1>2, Cut
    <3> QED
      BY <1>1, <3>1 DEF Behind
  <2> QED
    BY <2>1
<1>4. Len(b) = l - r /\ \A k \in 1 .. l - r : b[k] = q[r + k]
  <2>1. IsCut(b, q, r, l)
    BY <1>1, <1>2, <1>3, Cut DEF Behind
  <2> QED
    BY <2>1 DEF IsCut
<1>5. PICK a \in Seq(S) : a = q \o t
  BY ConcatProperties
<1>6. /\ Len(a) = l + m
      /\ \A i \in 1 .. l + m : a[i] = IF i <= l THEN q[i] ELSE t[i - l]
  BY <1>1, <1>5, ConcatProperties
<1>7. PICK v \in Seq(S) : v = b \o t
  BY ConcatProperties
<1>8. PICK d \in Nat : d = l - r
  BY <1>2
<1>9. /\ Len(v) = d + m
      /\ \A i \in 1 .. d + m : v[i] = IF i <= d THEN b[i] ELSE t[i - d]
  <2>1. Len(b) = d
    BY <1>4, <1>8
  <2> QED
    BY <1>1, <1>7, <2>1, ConcatProperties
<1>10. IsCut(v, a, r, l + m)
  <2>1. (l + m) - r = d + m
    BY <1>8
  <2>2. ASSUME NEW k \in 1 .. d + m PROVE v[k] = a[r + k]
    <3>1. r + k \in 1 .. l + m
      BY <1>8
    <3>2. CASE k <= d
      <4>1. k \in 1 .. l - r /\ r + k <= l
        BY <1>8, <3>2
      <4> QED
        BY <1>4, <1>6, <1>9, <3>1, <3>2, <4>1
    <3>3. CASE ~ (k <= d)
      <4>1. ~ (r + k <= l) /\ (r + k) - l = k - d
        BY <1>8, <3>3
      <4> QED
        BY <1>6, <1>9, <3>1, <3>3, <4>1
    <3> QED
      BY <3>2, <3>3
  <2> QED
    BY <1>9, <2>1, <2>2 DEF IsCut
<1>11. v = SubSeq(a, r + 1, l + m)
  BY <1>2, <1>6, <1>10, CutIs
<1> QED
  BY <1>3, <1>5, <1>6, <1>7, <1>11 DEF Behind

(* The first elements of a sequence, one after the other.                   *)
LEMMA OneMore ==
  ASSUME NEW S, NEW q \in Seq(S), NEW i \in 1 .. Len(q)
  PROVE  SubSeq(q, 1, i - 1) \o <<q[i]>> = SubSeq(q, 1, i)
<1>0. 0 + 1 = 1 /\ i - 1 \in Nat /\ i \in Nat /\ 0 <= i /\ 0 <= i - 1 /\ i - 1 <= Len(q) /\ i <= Len(q)
  BY LenProperties
<1>1. PICK x \in Seq(S) : x = SubSeq(q, 0 + 1, i - 1)
  <2>1. SubSeq(q, 0 + 1, i - 1) \in Seq(S)
    BY <1>0, Cut
  <2> QED
    BY <2>1
<1>2. Len(x) = i - 1 /\ \A k \in 1 .. i - 1 : x[k] = q[k]
  <2>1. IsCut(x, q, 0, i - 1)
    BY <1>0, <1>1, Cut
  <2> QED
    BY <1>0, <2>1 DEF IsCut
<1>3. PICK m \in S : m = q[i]
  BY ElementOfSeq
<1>4. PICK z \in Seq(S) : z = Append(x, m)
  BY AppendProperties
<1>5. Len(z) = i /\ \A k \in 1 .. i : z[k] = q[k]
  <2>1. Len(z) = Len(x) + 1 /\ (\A k \in 1 .. Len(x) : z[k] = x[k]) /\ z[Len(x) + 1] = m
    BY <1>4, AppendProperties
  <2> QED
    BY <1>0, <1>2, <1>3, <2>1
<1>6. IsCut(z, q, 0, i)
  BY <1>0, <1>5 DEF IsCut
<1>7. z = SubSeq(q, 0 + 1, i)
  BY <1>0, <1>6, CutIs
<1>8. z = x \o <<m>>
  BY <1>4, AppendIsConcat
<1> QED
  BY <1>0, <1>1, <1>3, <1>7, <1>8

(* What a loop over a list has reached after each element.                  *)
Reaches(n, V, s, F, W) ==
  /\ s \in W[0]
  /\ \A i \in 0 .. n : W[i] \subseteq V
  /\ \A i \in 1 .. n : \A x \in W[i - 1] : F[i][x] \in W[i]

(* A loop whose i-th round leads from W[i - 1] to W[i].                     *)
LEMMA Turns ==
  ASSUME NEW n \in Nat, NEW V, NEW s, NEW F, NEW W, Reaches(n, V, s, F, W)
  PROVE  \E g : IsRecursion(g, n, s, F) /\ \A i \in 0 .. n : g[i] \in W[i] /\ g[i] \in V
<1>1. PICK g : IsRecursion(g, n, s, F)
  BY Recursion
<1>2. \A i \in 1 .. n : g[i - 1] \in W[i - 1] => g[i] \in W[i]
  <2>1. ASSUME NEW i \in 1 .. n PROVE g[i] = F[i][g[i - 1]]
    BY <1>1 DEF IsRecursion
  <2> QED
    BY <2>1 DEF Reaches
<1>3. g[0] \in W[0]
  BY <1>1 DEF IsRecursion, Reaches
<1>4. \A i \in 0 .. n : g[i] \in W[i]
  BY <1>2, <1>3, Stays
<1> QED
  BY <1>1, <1>4 DEF Reaches

(* A finite set of numbers has a largest one.                               *)
LEMMA Largest ==
  ASSUME NEW S \in SUBSET Nat, IsFiniteSet(S), S # {}
  PROVE  \E s \in S : \A r \in S : r <= s
<1>1. PICK n \in Nat : n = Cardinality(S)
  BY FS_CardinalityType
<1>2. ExistsBijection(1 .. n, S)
  BY <1>1, FS_CardinalityType
<1>3. PICK f : f \in Bijection(1 .. n, S)
  BY <1>2 DEF ExistsBijection
<1>4. /\ \A i \in 1 .. n : f[i] \in S /\ f[i] \in Nat
      /\ \A r \in S : \E i \in 1 .. n : f[i] = r
  BY <1>3 DEF Bijection, Injection, Surjection
<1>5. n # 0
  <2>1. PICK r : r \in S
    OBVIOUS
  <2>2. \E i \in 1 .. n : f[i] = r
    BY <1>4, <2>1
  <2> QED
    BY <2>2
<1> DEFINE T == {k \in Nat : k + 1 <= n =>
                   \E i \in 1 .. k + 1 : \A j \in 1 .. k + 1 : f[j] <= f[i]}
<1>6. 0 \in T
  <2>1. 0 + 1 <= n => \E i \in 1 .. 0 + 1 : \A j \in 1 .. 0 + 1 : f[j] <= f[i]
    <3>1. 1 <= n => \A j \in 1 .. 1 : f[j] <= f[1]
      BY <1>4
    <3> QED
      BY <3>1
  <2> QED
    BY <2>1
<1>7. ASSUME NEW k \in Nat, k \in T PROVE k + 1 \in T
  <2>1. SUFFICES ASSUME (k + 1) + 1 <= n
        PROVE \E i \in 1 .. (k + 1) + 1 : \A j \in 1 .. (k + 1) + 1 : f[j] <= f[i]
    OBVIOUS
  <2>2. PICK i \in 1 .. k + 1 : \A j \in 1 .. k + 1 : f[j] <= f[i]
    BY <1>7, <2>1
  <2>3. PICK b \in 1 .. n : b = (k + 1) + 1
    BY <2>1
  <2>4. \A j \in 1 .. b : j \in 1 .. n /\ (j = b \/ j \in 1 .. k + 1)
    BY <2>3
  <2>5. i \in 1 .. b /\ b \in 1 .. b /\ i \in 1 .. n
    BY <2>3, <2>4
  <2>6. CASE f[b] <= f[i]
    BY <2>2, <2>3, <2>4, <2>5, <2>6
  <2>7. CASE ~ (f[b] <= f[i])
    <3>1. ASSUME NEW j \in 1 .. b PROVE f[j] <= f[b]
      <4>1. f[j] \in Nat /\ f[b] \in Nat /\ f[i] \in Nat
        BY <1>4, <2>4, <2>5
      <4>2. CASE j = b
        BY <4>1, <4>2
      <4>3. CASE j \in 1 .. k + 1
        <5>1. f[j] <= f[i]
          BY <2>2, <4>3
        <5> QED
          BY <2>7, <4>1, <5>1
      <4> QED
        BY <2>4, <4>2, <4>3
    <3> QED
      BY <2>3, <2>5, <3>1
  <2> QED
    BY <2>6, <2>7
<1>8. PICK k \in Nat : k + 1 = n
  BY <1>5
<1>9. k \in T
  <2> HIDE DEF T
  <2> QED
    BY <1>6, <1>7, SetInduction
<1>10. PICK i \in 1 .. n : \A j \in 1 .. n : f[j] <= f[i]
  BY <1>8, <1>9
<1> QED
  BY <1>4, <1>10

=============================================================================
