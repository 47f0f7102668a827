------------------------- MODULE RateAdaptationProofs -------------------------
(***************************************************************************)
(* Proofs about the rate adaptation loop, for every ladder of rates, network *)
(* and window.                                                               *)
(*                                                                         *)
(* Each algorithm is taken for itself: from what a client may know (Known)   *)
(* it makes a decision that is of the right kind (Proper), that puts the     *)
(* next request off only by what the average buffer level leaves beyond a    *)
(* reserve (Waits) and that steps up only to what was measured (Backed).     *)
(* An average is at most the largest entry of its window, and of no entry of *)
(* the window is the media behind it played before it was in: this is what   *)
(* the inductive invariant Inv says of the two histories.                    *)
(***************************************************************************)
EXTENDS RateAdaptation, ModelLemmas

-----------------------------------------------------------------------------
(* Arithmetic. *)

LEMMA Times ==
  ASSUME NEW b \in Nat, NEW x \in Int, NEW y \in Int, x <= y
  PROVE  b * x <= b * y
<1>1. PICK d \in Nat : y = x + d
  <2>1. y - x \in Nat /\ y = x + (y - x)
    OBVIOUS
  <2> QED
    BY <2>1
<1>2. b * d \in Nat /\ b * y = b * x + b * d
  BY <1>1
<1> QED
  BY <1>2

LEMMA Quotient ==
  ASSUME NEW a \in Int, NEW b \in Nat \ {0}
  PROVE  a \div b \in Int /\ b * (a \div b) <= a /\ a < b * (a \div b) + b
  OBVIOUS

(* A quotient is at least c when the dividend is at least c times.          *)
LEMMA QuotientAtLeast ==
  ASSUME NEW a \in Int, NEW b \in Nat \ {0}, NEW c \in Int
  PROVE  b * c <= a <=> c <= a \div b
<1>1. PICK q \in Int : q = a \div b /\ b * q <= a /\ a < b * q + b
  BY Quotient
<1>2. b * c \in Int /\ b * q \in Int /\ b * (q + 1) = b * q + b /\ q + 1 \in Int
  OBVIOUS
<1>3. CASE c <= q
  <2>1. b * c <= b * q
    BY <1>3, Times
  <2> QED
    BY <1>1, <1>2, <1>3, <2>1
<1>4. CASE ~ (c <= q)
  <2>1. b * (q + 1) <= b * c
    BY <1>4, <1>2, Times
  <2> QED
    BY <1>1, <1>2, <1>4, <2>1
<1> QED
  BY <1>3, <1>4

(* A segment takes some time to fetch, and at most so long that a sample of *)
(* the throughput is not zero.                                              *)
LEMMA FetchTime ==
  ASSUME NEW p \in Nat \ {0}, NEW n \in Nat \ {0}
  PROVE  /\ (p + n - 1) \div n \in Nat \ {0}
         /\ p \div ((p + n - 1) \div n) \in Int /\ p \div ((p + n - 1) \div n) >= 1
<1>1. PICK t \in Int : t = (p + n - 1) \div n /\ n * t <= p + n - 1
  <2>1. p + n - 1 \in Int
    OBVIOUS
  <2> QED
    BY <2>1, Quotient
<1>2. t >= 1
  <2>1. n * 1 <= p + n - 1 /\ p + n - 1 \in Int
    OBVIOUS
  <2>2. 1 <= (p + n - 1) \div n
    BY ONLY <2>1, 1 \in Int, n \in Nat \ {0}, QuotientAtLeast
  <2> QED
    BY <1>1, <2>2
<1>3. t <= p
  <2>1. SUFFICES ASSUME p + 1 <= t PROVE FALSE
    BY <1>1
  <2>2. n * (p + 1) <= n * t
    BY <1>1, <2>1, Times
  <2>3. n * (p + 1) = n * p + n /\ n * p \in Int
    OBVIOUS
  <2>4. p * 1 <= p * n /\ p * n = n * p
    BY Times
  <2> QED
    BY <1>1, <2>2, <2>3, <2>4
<1>4. p \div t \in Int /\ p \div t >= 1
  <2>1. t * 1 <= p /\ t \in Nat \ {0} /\ p \in Int
    BY <1>2, <1>3
  <2>2. 1 <= p \div t
    BY ONLY <2>1, 1 \in Int, QuotientAtLeast
  <2> QED
    BY <2>1, <2>2, Quotient
<1> QED
  BY <1>1, <1>2, <1>4

-----------------------------------------------------------------------------
(* The ladder of rates. *)

LEMMA Ladder ==
  /\ Rates \in Seq(Nat \ {0}) /\ Top \in Nat /\ Top > 1
  /\ \A i \in 1 .. Top : Rates[i] \in Nat \ {0}
  /\ ToSet(Rates) = {Rates[i] : i \in 1 .. Top}
<1>1. Rates \in Seq(Nat \ {0}) /\ Top > 1 /\ Top = Len(Rates)
  BY ConstantsOK DEF Top
<1>2. Top \in Nat /\ DOMAIN Rates = 1 .. Top
  BY <1>1
<1>3. \A i \in 1 .. Top : Rates[i] \in Nat \ {0}
  BY <1>1, ElementOfSeq
<1> QED
  BY <1>1, <1>2, <1>3 DEF ToSet

LEMMA LadderAscends ==
  \A i, j \in 1 .. Top : i < j => Rates[i] < Rates[j]
<1> DEFINE S == {n \in Nat : \A i, j \in 1 .. Top : j = i + n + 1 => Rates[i] < Rates[j]}
<1>0. Top \in Nat /\ \A i \in 1 .. Top : Rates[i] \in Nat
  BY Ladder
<1>1. \A i \in 2 .. Top : Rates[i - 1] < Rates[i]
  BY ConstantsOK DEF Top
<1>2. 0 \in S
  <2>1. ASSUME NEW i \in 1 .. Top, NEW j \in 1 .. Top, j = i + 0 + 1
        PROVE  Rates[i] < Rates[j]
    <3>1. j \in 2 .. Top /\ i = j - 1
      BY <1>0, <2>1
    <3> QED
      BY <1>1, <3>1
  <2> QED
    BY <2>1
<1>3. ASSUME NEW n \in Nat, n \in S PROVE n + 1 \in S
  <2>1. ASSUME NEW i \in 1 .. Top, NEW j \in 1 .. Top, j = i + (n + 1) + 1
        PROVE  Rates[i] < Rates[j]
    <3>1. PICK k \in 1 .. Top : k = j - 1 /\ k = i + n + 1 /\ j \in 2 .. Top
      BY <1>0, <2>1
    <3>2. Rates[i] < Rates[k]
      BY <1>3, <3>1
    <3>3. Rates[k] < Rates[j]
      BY <1>1, <3>1
    <3> QED
      BY <1>0, <3>2, <3>3
  <2> QED
    BY <2>1
<1>4. Nat \subseteq S
  <2> HIDE DEF S
  <2> QED
    BY <1>2, <1>3, SetInduction
<1>5. ASSUME NEW i \in 1 .. Top, NEW j \in 1 .. Top, i < j
      PROVE  Rates[i] < Rates[j]
  <2>1. PICK n \in Nat : j = i + n + 1
    <3>1. j - i - 1 \in Nat /\ j = i + (j - i - 1) + 1
      BY <1>0, <1>5
    <3> QED
      BY <3>1
  <2>2. n \in S
    BY <1>4
  <2> QED
    BY <2>1, <2>2
<1> QED
  BY <1>5

LEMMA LowestAndHighest ==
  ASSUME NEW i \in 1 .. Top
  PROVE  1 \in 1 .. Top /\ Top \in 1 .. Top /\ Rates[1] <= Rates[i] /\ Rates[i] <= Rates[Top]
<1>1. Top \in Nat /\ Top > 1 /\ \A j \in 1 .. Top : Rates[j] \in Nat
  BY Ladder
<1>2. 1 \in 1 .. Top /\ Top \in 1 .. Top
  BY <1>1
<1>3. Rates[1] <= Rates[i]
  <2>1. i = 1 \/ 1 < i
    BY <1>1
  <2> QED
    BY <1>1, <1>2, <2>1, LadderAscends
<1>4. Rates[i] <= Rates[Top]
  <2>1. i = Top \/ i < Top
    BY <1>1
  <2> QED
    BY <1>1, <1>2, <2>1, LadderAscends
<1> QED
  BY <1>2, <1>3, <1>4

(* The place of a rate on the ladder.                                       *)
LEMMA Place ==
  ASSUME NEW r \in ToSet(Rates)
  PROVE  Index(r) \in 1 .. Top /\ Rates[Index(r)] = r /\ r \in Nat \ {0}
<1>1. PICK i \in 1 .. Top : Rates[i] = r
  BY Ladder
<1>2. Index(r) \in 1 .. Top /\ Rates[Index(r)] = r
  BY <1>1 DEF Index
<1> QED
  BY <1>1, <1>2, Ladder

LEMMA Rung ==
  ASSUME NEW i \in 1 .. Top
  PROVE  Rates[i] \in ToSet(Rates)
  BY Ladder

(* The greatest of some places of a ladder of n rungs.                      *)
LEMMA MaxPlace ==
  ASSUME NEW n \in Nat, NEW S \in SUBSET (1 .. n), S # {}
  PROVE  Max(S) \in S /\ \A i \in S : i <= Max(S)
<1>1. IsFiniteSet(S)
  <2>1. IsFiniteSet(1 .. n)
    BY FS_Interval
  <2> QED
    BY <2>1, FS_Subset
<1>2. S \in SUBSET Nat
  OBVIOUS
<1>3. PICK s \in S : \A r \in S : r <= s
  BY <1>1, <1>2, Largest
<1>4. \A r \in S : s >= r
  BY <1>2, <1>3
<1>5. Max(S) \in S /\ \A r \in S : Max(S) >= r
  BY <1>4 DEF Max
<1> QED
  BY <1>2, <1>5

LEMMA MinPlace ==
  ASSUME NEW n \in Nat, NEW S \in SUBSET (1 .. n), S # {}
  PROVE  Min(S) \in S /\ \A i \in S : Min(S) <= i
<1> DEFINE T == {n - i : i \in S}
<1>1. T \in SUBSET Nat /\ T # {}
  <2>1. \A i \in S : i \in 1 .. n
    OBVIOUS
  <2>2. \A i \in S : n - i \in Nat
    BY <2>1
  <2> QED
    BY <2>2
<1>2. IsFiniteSet(T)
  <2>1. \A i \in S : i \in 1 .. n /\ n - i \in 0 .. n
    OBVIOUS
  <2>2. T \subseteq 0 .. n
    BY <2>1
  <2>3. IsFiniteSet(0 .. n)
    BY FS_Interval
  <2> HIDE DEF T
  <2> QED
    BY <2>2, <2>3, FS_Subset
<1>3. PICK t \in T : \A r \in T : r <= t
  BY <1>1, <1>2, Largest
<1>4. PICK s \in S : t = n - s
  OBVIOUS
<1>5. \A r \in S : s <= r
  <2>1. ASSUME NEW r \in S PROVE s <= r
    <3>1. n - r \in T
      OBVIOUS
    <3>2. n - r <= n - s /\ r \in 1 .. n /\ s \in 1 .. n
      BY <1>3, <1>4, <3>1
    <3> QED
      BY ONLY <3>2, n \in Nat
  <2> QED
    BY <2>1
<1>6. Min(S) \in S /\ \A r \in S : Min(S) <= r
  BY <1>5 DEF Min
<1> QED
  BY <1>6

LEMMA MinTwo ==
  ASSUME NEW a \in Int, NEW b \in Int
  PROVE  Min({a, b}) \in {a, b} /\ Min({a, b}) <= a /\ Min({a, b}) <= b
<1>1. \E x \in {a, b} : \A y \in {a, b} : x <= y
  OBVIOUS
<1>2. Min({a, b}) \in {a, b} /\ \A y \in {a, b} : Min({a, b}) <= y
  BY <1>1 DEF Min
<1> QED
  BY <1>2

LEMMA MaxThree ==
  ASSUME NEW a \in Int, NEW b \in Int, NEW c \in Int
  PROVE  /\ Max({a, b, c}) \in {a, b, c}
         /\ Max({a, b, c}) >= a /\ Max({a, b, c}) >= b /\ Max({a, b, c}) >= c
<1>1. \E x \in {a, b, c} : \A y \in {a, b, c} : x >= y
  OBVIOUS
<1>2. Max({a, b, c}) \in {a, b, c} /\ \A y \in {a, b, c} : Max({a, b, c}) >= y
  BY <1>1 DEF Max
<1> QED
  BY <1>2

LEMMA MaxTwo ==
  ASSUME NEW a \in Int, NEW b \in Int
  PROVE  Max({a, b}) \in {a, b} /\ Max({a, b}) >= a /\ Max({a, b}) >= b
<1>1. \E x \in {a, b} : \A y \in {a, b} : x >= y
  OBVIOUS
<1>2. Max({a, b}) \in {a, b} /\ \A y \in {a, b} : Max({a, b}) >= y
  BY <1>1 DEF Max
<1> QED
  BY <1>2

-----------------------------------------------------------------------------
(* The histories. *)

LEMMA Entries ==
  ASSUME NEW log \in Seq(Sample)
  PROVE  \A i \in 1 .. Len(log) :
           log[i] \in Sample /\ log[i].at \in Nat /\ log[i].val \in Int
<1>1. ASSUME NEW i \in 1 .. Len(log)
      PROVE  log[i] \in Sample
  BY ElementOfSeq
<1>2. ASSUME NEW e \in Sample
      PROVE  e.at \in Nat /\ e.val \in Int
  BY DEF Sample
<1> QED
  BY <1>1, <1>2

LEMMA OneAppended ==
  ASSUME NEW log \in Seq(Sample), NEW e \in Sample
  PROVE  /\ Append(log, e) \in Seq(Sample) /\ Append(log, e) # <<>>
         /\ Len(Append(log, e)) = Len(log) + 1 /\ Append(log, e)[Len(log) + 1] = e
         /\ \A j \in 1 .. Len(log) : Append(log, e)[j] = log[j]
  BY AppendProperties

\* The sums of the first entries of a log stay within W.
Adds(log, W) ==
  /\ 0 \in W[0]
  /\ \A i \in 0 .. Len(log) : W[i] \subseteq Int
  /\ \A i \in 1 .. Len(log) : \A x \in W[i - 1] : x + log[i].val \in W[i]

LEMMA TotalStays ==
  ASSUME NEW log \in Seq(Sample), NEW W, Adds(log, W)
  PROVE  Total(log) \in W[Len(log)]
<1>1. PICK n \in Nat : n = Len(log)
  BY LenProperties
<1>2. \A i \in 1 .. n : log[i].val \in Int
  BY <1>1, Entries
<1> DEFINE F == [i \in 1 .. n |-> [x \in Int |-> x + log[i].val]]
<1>3. Reaches(n, Int, 0, F, W)
  <2>1. ASSUME NEW i \in 1 .. n, NEW x \in W[i - 1] PROVE F[i][x] \in W[i]
    <3>1. i - 1 \in 0 .. n
      BY <1>1
    <3>2. x \in Int
      BY <1>1, <3>1 DEF Adds
    <3>3. F[i][x] = x + log[i].val
      BY <3>2
    <3> QED
      BY <1>1, <3>3 DEF Adds
  <2> QED
    BY <1>1, <2>1 DEF Reaches, Adds
<1>4. PICK g : IsRecursion(g, n, 0, F) /\ \A i \in 0 .. n : g[i] \in W[i] /\ g[i] \in Int
  <2> HIDE DEF F
  <2> QED
    BY <1>3, Turns
<1>5. g = [i \in 0 .. n |-> IF i = 0 THEN 0 ELSE g[i - 1] + log[i].val]
  <2>1. g = [i \in 0 .. n |-> IF i = 0 THEN 0 ELSE F[i][g[i - 1]]]
    BY <1>4 DEF IsRecursion
  <2>2. ASSUME NEW i \in 0 .. n, i # 0 PROVE F[i][g[i - 1]] = g[i - 1] + log[i].val
    <3>1. i \in 1 .. n /\ i - 1 \in 0 .. n
      BY <2>2
    <3> QED
      BY <1>4, <3>1
  <2> HIDE DEF F
  <2> QED
    BY <2>1, <2>2
<1> DEFINE Sums(s) == s = [i \in 0 .. n |-> IF i = 0 THEN 0 ELSE s[i - 1] + log[i].val]
           sum == CHOOSE s : Sums(s)
<1>6. Total(log) = sum[n]
  BY <1>1 DEF Total
<1>7. Sums(sum)
  <2>1. Sums(g)
    BY <1>5
  <2> HIDE DEF Sums
  <2> QED
    BY <2>1
<1>8. \A i \in 0 .. n : sum[i] \in W[i]
  <2>1. PICK s : s = sum
    OBVIOUS
  <2>2. s = [i \in 0 .. n |-> IF i = 0 THEN 0 ELSE s[i - 1] + log[i].val]
    BY <1>7, <2>1
  <2>3. s[0] \in W[0]
    <3>1. s[0] = 0
      BY <2>2
    <3> QED
      BY <3>1 DEF Adds
  <2>4. ASSUME NEW i \in 1 .. n, s[i - 1] \in W[i - 1] PROVE s[i] \in W[i]
    <3>1. s[i] = s[i - 1] + log[i].val
      BY <2>2
    <3> QED
      BY <1>1, <2>4, <3>1 DEF Adds
  <2>5. \A i \in 0 .. n : s[i] \in W[i]
    BY <2>3, <2>4, Stays
  <2> QED
    BY <2>1, <2>5
<1> QED
  BY <1>1, <1>6, <1>8

LEMMA TotalAtMost ==
  ASSUME NEW log \in Seq(Sample), NEW b \in Int, \A i \in 1 .. Len(log) : log[i].val <= b
  PROVE  Total(log) \in Int /\ Total(log) <= b * Len(log)
<1>1. PICK n \in Nat : n = Len(log)
  BY LenProperties
<1>2. \A i \in 1 .. n : log[i].val \in Int
  BY <1>1, Entries
<1> DEFINE W == [i \in 0 .. n |-> {x \in Int : x <= b * i}]
<1>3. Adds(log, W)
  <2>1. ASSUME NEW i \in 1 .. n, NEW x \in W[i - 1] PROVE x + log[i].val \in W[i]
    <3>1. x \in Int /\ x <= b * (i - 1) /\ log[i].val \in Int /\ log[i].val <= b
      BY <1>1, <1>2
    <3>2. b * i = b * (i - 1) + b /\ b * i \in Int /\ b * (i - 1) \in Int
      OBVIOUS
    <3>3. x + log[i].val \in Int /\ x + log[i].val <= b * i
      BY <3>1, <3>2
    <3> QED
      BY <3>3
  <2>2. 0 \in W[0]
    OBVIOUS
  <2> QED
    BY <1>1, <2>1, <2>2 DEF Adds
<1>4. Total(log) \in W[n]
  <2> HIDE DEF W
  <2> QED
    BY <1>1, <1>3, TotalStays
<1> QED
  BY <1>1, <1>4

LEMMA TotalAtLeast ==
  ASSUME NEW log \in Seq(Sample), NEW b \in Int, \A i \in 1 .. Len(log) : b <= log[i].val
  PROVE  Total(log) \in Int /\ b * Len(log) <= Total(log)
<1>1. PICK n \in Nat : n = Len(log)
  BY LenProperties
<1>2. \A i \in 1 .. n : log[i].val \in Int
  BY <1>1, Entries
<1> DEFINE W == [i \in 0 .. n |-> {x \in Int : b * i <= x}]
<1>3. Adds(log, W)
  <2>1. ASSUME NEW i \in 1 .. n, NEW x \in W[i - 1] PROVE x + log[i].val \in W[i]
    <3>1. x \in Int /\ b * (i - 1) <= x /\ log[i].val \in Int /\ b <= log[i].val
      BY <1>1, <1>2
    <3>2. b * i = b * (i - 1) + b /\ b * i \in Int /\ b * (i - 1) \in Int
      OBVIOUS
    <3>3. x + log[i].val \in Int /\ b * i <= x + log[i].val
      BY <3>1, <3>2
    <3> QED
      BY <3>3
  <2>2. 0 \in W[0]
    OBVIOUS
  <2> QED
    BY <1>1, <2>1, <2>2 DEF Adds
<1>4. Total(log) \in W[n]
  <2> HIDE DEF W
  <2> QED
    BY <1>1, <1>3, TotalStays
<1> QED
  BY <1>1, <1>4

(* An average is an integer and at most the largest entry.                  *)
LEMMA SomeReachAverage ==
  ASSUME NEW log \in Seq(Sample), log # <<>>
  PROVE  Average(log) \in Int /\ \E i \in 1 .. Len(log) : log[i].val >= Average(log)
<1>1. PICK n \in Nat \ {0} : n = Len(log)
  BY LenProperties, EmptySeq
<1>2. \A i \in 1 .. n : log[i].val \in Int
  BY <1>1, Entries
<1>3. Total(log) \in Int
  <2> DEFINE W == [i \in 0 .. n |-> Int]
  <2>1. Adds(log, W)
    BY <1>1, <1>2 DEF Adds
  <2>2. Total(log) \in W[n]
    <3> HIDE DEF W
    <3> QED
      BY <1>1, <2>1, TotalStays
  <2> QED
    BY <2>2
<1>4. PICK a \in Int : a = Average(log) /\ n * a <= Total(log)
  BY <1>1, <1>3, Quotient DEF Average
<1>5. ASSUME \A i \in 1 .. n : ~ (log[i].val >= a) PROVE FALSE
  <2>1. \A i \in 1 .. Len(log) : log[i].val <= a - 1
    BY <1>1, <1>2, <1>5
  <2>2. Total(log) <= (a - 1) * n
    <3>1. a - 1 \in Int
      OBVIOUS
    <3> QED
      BY <1>1, <2>1, <3>1, TotalAtMost
  <2>3. (a - 1) * n = n * a - n /\ n * a \in Int
    OBVIOUS
  <2> QED
    BY <1>3, <1>4, <2>2, <2>3
<1> QED
  BY <1>1, <1>4, <1>5

LEMMA AverageAtLeast ==
  ASSUME NEW log \in Seq(Sample), log # <<>>, NEW b \in Int,
         \A i \in 1 .. Len(log) : b <= log[i].val
  PROVE  Average(log) >= b
<1>1. PICK n \in Nat \ {0} : n = Len(log)
  BY LenProperties, EmptySeq
<1>2. PICK t \in Int : t = Total(log) /\ b * n <= t
  BY <1>1, TotalAtLeast
<1>3. n * b <= t
  BY <1>2
<1>4. b <= t \div n
  BY <1>3, QuotientAtLeast
<1>5. t \div n \in Int
  BY Quotient
<1> QED
  BY <1>1, <1>2, <1>4, <1>5 DEF Average

(* The entries of r are recent entries of log, and the last one is the same. *)
KeepsRecent(r, log, at) ==
  /\ r \in Seq(Sample) /\ r # <<>> /\ r[Len(r)] = log[Len(log)]
  /\ \A k \in 1 .. Len(r) :
       r[k].at >= at - Window /\ \E j \in 1 .. Len(log) : r[k] = log[j]

\* What is kept of the first i entries.
Kept(log, at, i) ==
  {q \in Seq(Sample) : \A k \in 1 .. Len(q) :
     q[k].at >= at - Window /\ \E j \in 1 .. i : q[k] = log[j]}

LEMMA KeptOneMore ==
  ASSUME NEW log \in Seq(Sample), NEW at \in Int, NEW i \in 1 .. Len(log),
         NEW q \in Kept(log, at, i - 1)
  PROVE  /\ q \in Kept(log, at, i)
         /\ log[i].at >= at - Window => Append(q, log[i]) \in Kept(log, at, i)
<1>1. q \in Seq(Sample) /\ log[i] \in Sample
  BY Entries DEF Kept
<1>2. \A j \in 1 .. i - 1 : j \in 1 .. i
  BY LenProperties
<1>3. \A k \in 1 .. Len(q) : q[k].at >= at - Window /\ \E j \in 1 .. i : q[k] = log[j]
  BY <1>2 DEF Kept
<1>4. PICK e \in Sample : e = log[i]
  BY <1>1
<1>5. PICK a \in Seq(Sample) : a = Append(q, e)
  BY <1>1, <1>4, AppendProperties
<1>6. /\ Len(a) = Len(q) + 1 /\ Len(q) \in Nat /\ a[Len(q) + 1] = e
      /\ \A k \in 1 .. Len(q) : a[k] = q[k]
  BY <1>1, <1>4, <1>5, AppendProperties
<1>7. ASSUME e.at >= at - Window, NEW k \in 1 .. Len(a)
      PROVE  a[k].at >= at - Window /\ \E j \in 1 .. i : a[k] = log[j]
  <2>1. CASE k \in 1 .. Len(q)
    BY <1>3, <1>6, <2>1
  <2>2. CASE k = Len(q) + 1
    <3>1. a[k] = log[i] /\ i \in 1 .. i
      BY <1>4, <1>6, <2>2
    <3> QED
      BY <1>4, <1>7, <3>1
  <2> QED
    BY <1>6, <2>1, <2>2
<1> QED
  BY <1>1, <1>3, <1>4, <1>5, <1>7 DEF Kept

LEMMA RecentKeeps ==
  ASSUME NEW log \in Seq(Sample), NEW at \in Int,
         log # <<>>, log[Len(log)].at >= at - Window
  PROVE  KeepsRecent(Recent(log, at), log, at)
<1>1. PICK n \in Nat \ {0} : n = Len(log)
  BY LenProperties, EmptySeq
<1> DEFINE W == [i \in 0 .. n |-> Kept(log, at, i)]
           Round(i, q) == IF log[i].at >= at - Window THEN Append(q, log[i]) ELSE q
           F == [i \in 1 .. n |-> [q \in Seq(Sample) |-> Round(i, q)]]
<1>2. ASSUME NEW i \in 1 .. n, NEW q \in W[i - 1]
      PROVE  Round(i, q) \in W[i] /\ q \in Seq(Sample)
  <2>1. i - 1 \in 0 .. n /\ i \in 0 .. n /\ i \in 1 .. Len(log)
    BY <1>1
  <2>2. q \in Kept(log, at, i - 1)
    BY <2>1
  <2>3. q \in Kept(log, at, i) /\ (log[i].at >= at - Window => Append(q, log[i]) \in Kept(log, at, i))
    BY <2>1, <2>2, KeptOneMore
  <2>4. Round(i, q) \in Kept(log, at, i)
    BY <2>3
  <2>5. q \in Seq(Sample)
    BY <2>2 DEF Kept
  <2> QED
    BY <2>1, <2>4, <2>5
<1>3. <<>> \in W[0]
  BY DEF Kept
<1>4. Reaches(n, Seq(Sample), <<>>, F, W)
  <2>1. \A i \in 0 .. n : W[i] \subseteq Seq(Sample)
    BY DEF Kept
  <2>2. ASSUME NEW i \in 1 .. n, NEW q \in W[i - 1] PROVE F[i][q] \in W[i]
    <3>1. F[i][q] = Round(i, q)
      BY <1>2
    <3> QED
      BY <1>2, <3>1
  <2> QED
    BY <1>3, <2>1, <2>2 DEF Reaches
<1>5. PICK g : /\ IsRecursion(g, n, <<>>, F)
               /\ \A i \in 0 .. n : g[i] \in W[i] /\ g[i] \in Seq(Sample)
  <2> HIDE DEF F
  <2> QED
    BY <1>4, Turns
<1> DEFINE Keeps(s) == s = [i \in 0 .. n |->
                IF i = 0 THEN <<>>
                ELSE IF log[i].at >= at - Window THEN Append(s[i - 1], log[i])
                ELSE s[i - 1]]
           kept == CHOOSE s : Keeps(s)
<1>6. Keeps(g)
  <2>1. g = [i \in 0 .. n |-> IF i = 0 THEN <<>> ELSE F[i][g[i - 1]]]
    BY <1>5 DEF IsRecursion
  <2>2. ASSUME NEW i \in 0 .. n, i # 0 PROVE F[i][g[i - 1]] = Round(i, g[i - 1])
    <3>1. i \in 1 .. n /\ i - 1 \in 0 .. n
      BY <2>2
    <3>2. g[i - 1] \in Seq(Sample)
      BY <1>5, <3>1
    <3> QED
      BY <3>1, <3>2
  <2>3. g = [i \in 0 .. n |-> IF i = 0 THEN <<>> ELSE Round(i, g[i - 1])]
    <3> HIDE DEF F, Round
    <3> QED
      BY <2>1, <2>2
  <2> QED
    BY <2>3
<1>7. Recent(log, at) = kept[n]
  BY <1>1 DEF Recent
<1>8. PICK s : s = kept /\ Keeps(s)
  <2> HIDE DEF Keeps
  <2> QED
    BY <1>6
<1>a. /\ s[0] = <<>>
      /\ \A i \in 1 .. n : s[i] = Round(i, s[i - 1])
  <2> HIDE DEF W, F, kept
  <2>1. s = [i \in 0 .. n |-> IF i = 0 THEN <<>> ELSE Round(i, s[i - 1])]
    BY ONLY <1>8, Zenon
  <2> HIDE DEF Round, Keeps
  <2> QED
    BY <2>1
<1>9. \A i \in 0 .. n : s[i] \in W[i]
  <2>1. s[0] \in W[0]
    BY <1>3, <1>a
  <2>2. ASSUME NEW i \in 1 .. n, s[i - 1] \in W[i - 1] PROVE s[i] \in W[i]
    <3>1. s[i] = Round(i, s[i - 1])
      BY <1>a
    <3> HIDE DEF Round, W
    <3> QED
      BY <1>2, <2>2, <3>1
  <2> HIDE DEF W, Keeps
  <2> QED
    BY <2>1, <2>2, Stays
<1>10. s[n - 1] \in Seq(Sample) /\ log[n] \in Sample
  <2>1. n - 1 \in 0 .. n /\ n \in 1 .. Len(log)
    BY <1>1
  <2>2. s[n - 1] \in Kept(log, at, n - 1)
    BY <1>9, <2>1
  <2> QED
    BY <2>1, <2>2, Entries DEF Kept
<1>11. s[n] = Append(s[n - 1], log[n])
  <2>1. log[n].at >= at - Window /\ n \in 1 .. n
    BY <1>1
  <2>2. Round(n, s[n - 1]) = Append(s[n - 1], log[n])
    BY <2>1
  <2> HIDE DEF Round
  <2> QED
    BY <1>a, <2>1, <2>2
<1>12. PICK r \in Seq(Sample) : r = s[n] /\ r # <<>> /\ r[Len(r)] = log[n]
  <2> HIDE DEF W, F, Round, Keeps, kept
  <2>1. PICK q \in Seq(Sample), e \in Sample : q = s[n - 1] /\ e = log[n]
    BY <1>10
  <2>2. /\ Append(q, e) \in Seq(Sample) /\ Len(Append(q, e)) = Len(q) + 1
        /\ Append(q, e)[Len(q) + 1] = e /\ Append(q, e) # <<>>
    BY <2>1, OneAppended, Zenon
  <2>3. PICK r : r = Append(q, e)
    OBVIOUS
  <2>4. r \in Seq(Sample) /\ r # <<>> /\ r[Len(r)] = e
    BY ONLY <2>2, <2>3, Zenon
  <2>5. s[n] = r /\ log[n] = e
    BY ONLY <1>11, <2>1, <2>3, Zenon
  <2> QED
    BY ONLY <2>4, <2>5, Zenon
<1>13. r \in Kept(log, at, n)
  <2> HIDE DEF F, Round, Keeps, kept
  <2>1. n \in 0 .. n
    BY <1>1
  <2>2. s[n] \in W[n]
    BY <1>9, <2>1, Zenon
  <2>3. W[n] = Kept(log, at, n)
    BY <2>1, Zenon
  <2> QED
    BY ONLY <1>12, <2>2, <2>3, Zenon
<1>14. Recent(log, at) = r
  BY <1>7, <1>8, <1>12
<1> QED
  BY <1>1, <1>12, <1>13, <1>14 DEF KeepsRecent, Kept

-----------------------------------------------------------------------------
(* What the algorithms decide. *)

Memories == [fast : BOOLEAN, rsft : BOOLEAN, count : Nat, k1 : Nat, k2 : Nat]

(* What a client knows when the last frame of a segment is in.              *)
Known(in) ==
  /\ in.cur \in ToSet(Rates) /\ in.fetch \in Nat \ {0} /\ in.est \in Nat \ {0}
  /\ in.log \in Seq(Sample) /\ in.log # <<>>
  /\ in.seg \in Nat /\ in.played \in Int /\ in.mem \in Memories

Proper(d) == d.rate \in ToSet(Rates) /\ d.delay \in Nat /\ d.mem \in Memories

(* The window is no longer than what an algorithm keeps in reserve while it *)
(* waits: t_min and a segment of the lowest rate for RAAHS, a segment of the *)
(* highest rate fetched at the speed of the lowest for SFTM, the target for  *)
(* FDASH.                                                                    *)
WindowIsShort ==
  /\ "RAAHS" \in Algorithms => Window <= 9 * Second + MSD
  /\ "SFTM" \in Algorithms => Window <= (MSD * Rates[Top]) \div Rates[1]
  /\ "FDASH" \in Algorithms => Window <= TargetDt

(* The next request waits at most for what the average level leaves beyond  *)
(* the window.                                                               *)
Waits(in, d) == d.delay > 0 => d.delay + Window <= Average(in.log)

(* The last segment came, or those of the window came on average, as fast as *)
(* the rate stepped up to; or FDASH had more buffered than its target.        *)
Backed(in, d) ==
  d.rate > in.cur =>
    \/ d.rate <= (in.cur * MSD) \div in.fetch
    \/ d.rate <= in.est
    \/ algo = "FDASH" /\ Average(in.log) > TargetDt

LEMMA RaahsReserves ==
  ASSUME NEW r \in ToSet(Rates)
  PROVE  RaahsReserve(r) \in Int /\ RaahsReserve(r) >= 9 * Second + MSD
<1>1. PICK i \in 1 .. Top : Rates[i] = r
  BY Place
<1>2. r \in Nat \ {0} /\ Rates[1] \in Nat \ {0} /\ Rates[1] <= r
  BY <1>1, Ladder, LowestAndHighest
<1>3. PICK l \in Nat \ {0} : l = Rates[1]
  BY <1>2
<1>4. l * MSD <= r * MSD /\ r * MSD \in Int
  BY <1>2, <1>3 DEF MSD
<1>5. (r * MSD) \div l \in Int /\ MSD <= (r * MSD) \div l
  <2>1. MSD \in Int
    BY DEF MSD
  <2> QED
    BY <1>4, <2>1, Quotient, QuotientAtLeast
<1>6. RaahsReserve(r) = 9 * Second + (r * MSD) \div l
  BY <1>3 DEF RaahsReserve
<1>7. 9 * Second \in Int /\ MSD \in Int
  BY DEF Second, MSD
<1> QED
  BY <1>5, <1>6, <1>7

LEMMA RaahsDecides ==
  ASSUME NEW in, Known(in), NEW d \in Raahs(in)
  PROVE  Proper(d) /\ ("RAAHS" \in Algorithms /\ WindowIsShort => Waits(in, d)) /\ Backed(in, d)
<1>1. PICK i \in 1 .. Top : i = Index(in.cur) /\ Rates[i] = in.cur
  BY Place DEF Known
<1>2. PICK f \in Nat \ {0} : f = in.fetch
  BY DEF Known
<1>3. /\ Top \in Nat /\ \A k \in 1 .. Top : Rates[k] \in Nat \ {0} /\ Rates[k] \in ToSet(Rates)
      /\ 1 \in 1 .. Top /\ Rates[1] <= Rates[i]
  BY Ladder, LowestAndHighest
<1>4. PICK a \in Int : a = Average(in.log)
  BY SomeReachAverage DEF Known
<1>5. PICK s \in Int : s = RaahsReserve(in.cur) /\ s >= 9 * Second + MSD
  BY RaahsReserves DEF Known
<1>6. PICK next :
        /\ d = Decision(next, Positive(a - s), in.mem)
        /\ \/ /\ i < Top /\ next = Rates[i + 1]
              /\ \A k \in 1 .. Top - 1 : MSD * Rates[k] > f * Rates[k + 1]
           \/ next = in.cur \/ next = Rates[1]
  BY <1>1, <1>2, <1>4, <1>5 DEF Raahs
<1>7. d.rate = next /\ d.delay = Positive(a - s) /\ d.mem = in.mem
  BY <1>6 DEF Decision
<1>8. Positive(a - s) \in Nat /\ (Positive(a - s) > 0 => Positive(a - s) = a - s)
  BY DEF Positive
<1>9. next \in ToSet(Rates)
  BY <1>1, <1>3, <1>6
<1>10. Proper(d)
  BY <1>7, <1>8, <1>9 DEF Proper, Known
<1>11. ASSUME "RAAHS" \in Algorithms, WindowIsShort PROVE Waits(in, d)
  <2>1. Window \in Nat /\ Window <= s
    BY <1>5, <1>11, ConstantsOK DEF WindowIsShort, Second, MSD
  <2> QED
    BY <1>4, <1>7, <1>8, <2>1 DEF Waits
<1>12. Backed(in, d)
  <2>1. SUFFICES ASSUME next > in.cur PROVE next <= (in.cur * MSD) \div in.fetch
    BY <1>7 DEF Backed
  <2>2. /\ i < Top /\ next = Rates[i + 1]
        /\ \A k \in 1 .. Top - 1 : MSD * Rates[k] > f * Rates[k + 1]
    BY <1>1, <1>3, <1>6, <2>1
  <2>3. PICK c \in Nat, r \in Nat : c = Rates[i] /\ r = Rates[i + 1] /\ MSD * c > f * r
    BY <1>3, <2>2
  <2>4. f * r <= c * MSD /\ c * MSD \in Int
    BY <2>3 DEF MSD
  <2>5. r <= (c * MSD) \div f
    BY <2>4, QuotientAtLeast
  <2> QED
    BY <1>1, <1>2, <2>2, <2>3, <2>5
<1> QED
  BY <1>10, <1>11, <1>12

LEMMA OsmpDecides ==
  ASSUME NEW in, Known(in), NEW d \in Osmp(in)
  PROVE  Proper(d) /\ Waits(in, d)
<1>1. PICK i \in 1 .. Top : i = Index(in.cur) /\ Rates[i] = in.cur
  BY Place DEF Known
<1>2. Top \in Nat /\ Top > 1 /\ \A k \in 1 .. Top : Rates[k] \in ToSet(Rates)
  BY Ladder
<1>3. ASSUME NEW S \in SUBSET (2 .. Top), S # {} PROVE Min(S) \in 1 .. Top
  <2>1. S \in SUBSET (1 .. Top)
    BY <1>2
  <2>2. Min(S) \in S
    BY <1>2, <1>3, <2>1, MinPlace
  <2> QED
    BY <2>1, <2>2
<1>4. PICK k \in 1 .. Top : d = Decision(Rates[k], 0, in.mem)
  <2> DEFINE t == LastFragment(in.log)
             num == 100
             den == IF t > 0 THEN t ELSE 1
             Down == IF i = 1 \/ num * Rates[i] < den * Rates[i - 1] THEN 1 ELSE i - 1
             Higher == {j \in 2 .. Top : j = Top \/ num * Rates[i] < den * Rates[j + 1]}
             Up == IF i < Top /\ (i = 1 \/ num * Rates[i] > den * Rates[i - 1])
                   THEN Min(Higher) ELSE 1
  <2>1. d = Decision(Rates[IF num < den THEN Down ELSE Up], 0, in.mem)
    BY <1>1 DEF Osmp
  <2>2. Down \in 1 .. Top
    BY <1>2
  <2>3. Min(Higher) \in 1 .. Top
    <3>1. Top \in Higher
      BY <1>2
    <3>2. Higher \in SUBSET (2 .. Top) /\ Higher # {}
      BY <3>1
    <3> HIDE DEF Higher
    <3> QED
      BY <1>3, <3>2
  <2>4. Up \in 1 .. Top
    BY <1>2, <2>3
  <2> HIDE DEF Down, Up, den, num
  <2> QED
    BY <2>1, <2>2, <2>4
<1>5. d.rate = Rates[k] /\ d.delay = 0 /\ d.mem = in.mem
  BY <1>4 DEF Decision
<1> QED
  BY <1>2, <1>5 DEF Proper, Waits, Known

LEMMA SftmDecides ==
  ASSUME NEW in, Known(in), NEW d \in Sftm(in)
  PROVE  Proper(d) /\ ("SFTM" \in Algorithms /\ WindowIsShort => Waits(in, d)) /\ Backed(in, d)
<1>1. PICK i \in 1 .. Top : i = Index(in.cur) /\ Rates[i] = in.cur
  BY Place DEF Known
<1>2. PICK f \in Nat \ {0} : f = in.fetch
  BY DEF Known
<1>3. /\ Top \in Nat /\ \A k \in 1 .. Top : Rates[k] \in Nat \ {0} /\ Rates[k] \in ToSet(Rates)
      /\ 1 \in 1 .. Top /\ Rates[1] <= Rates[i]
  BY Ladder, LowestAndHighest
<1>4. PICK a \in Int : a = Average(in.log)
  BY SomeReachAverage DEF Known
<1>5. PICK s \in Int : s = (MSD * Rates[Top]) \div Rates[1]
  <2>1. Rates[1] \in Nat \ {0} /\ MSD * Rates[Top] \in Int
    BY <1>3, LowestAndHighest DEF MSD
  <2> QED
    BY <2>1, Quotient
<1>6. PICK x, next, m :
        /\ x \in Int /\ x <= MSD /\ m \in Memories
        /\ d = Decision(next, Positive(a - s), m)
        /\ \/ /\ i < Top /\ next = Rates[i + 1]
              /\ \/ \A k \in 1 .. Top - 1 :
                       (x - f) * Rates[k] > f * (Rates[k + 1] - Rates[k])
                 \/ (x - f) * Rates[i] > 2 * f * (Rates[i + 1] - Rates[i])
           \/ \E k \in 1 .. i - 1 : next = Rates[k]
           \/ next = in.cur
  <2> DEFINE left == in.seg * MSD - in.played - TargetDt
             floor == (3 * MSD) \div 4
             held == left < floor /\ ~in.mem.rsft
             rsft == IF held THEN floor ELSE left
             x == Min({MSD, rsft})
             Step(k) == Rates[k + 1] - Rates[k]
             SwitchUp == /\ i < Top
                         /\ \/ \A k \in 1 .. Top - 1 : (x - f) * Rates[k] > f * Step(k)
                            \/ (x - f) * Rates[i] > 2 * f * Step(i)
             SwitchDown == /\ i > 1
                           /\ \E k \in 2 .. Top : (f - x) * Rates[k] > 2 * f * Step(k - 1)
                           /\ (f - x) * Rates[i] > f * Step(i - 1)
             carried == {j \in 1 .. i - 1 : Rates[j] * f < x * Rates[i]}
             next == IF SwitchUp THEN Rates[i + 1]
                     ELSE IF SwitchDown /\ carried # {} THEN Rates[Max(carried)] ELSE in.cur
             m == [in.mem EXCEPT !.rsft = @ \/ ~held]
  <2>1. d = Decision(next, Positive(a - s), m)
    BY <1>1, <1>2, <1>4, <1>5, SMTT(30) DEF Sftm
  <2>2. x \in Int /\ x <= MSD
    <3>1. MSD \in Int /\ rsft \in Int
      <4>1. left \in Int
        BY ConstantsOK DEF Known, MSD
      <4>2. floor \in Int
        BY DEF MSD
      <4> HIDE DEF left, floor, held
      <4> QED
        BY <4>1, <4>2 DEF MSD
    <3> HIDE DEF rsft
    <3> QED
      BY <3>1, MinTwo
  <2>3. m \in Memories
    BY DEF Memories, Known
  <2>4. carried # {} => Max(carried) \in 1 .. i - 1
    <3>1. i - 1 \in Nat /\ carried \in SUBSET (1 .. i - 1)
      BY <1>3
    <3> HIDE DEF carried
    <3> QED
      BY <3>1, MaxPlace
  <2>5. \/ /\ i < Top /\ next = Rates[i + 1]
           /\ \/ \A k \in 1 .. Top - 1 :
                    (x - f) * Rates[k] > f * (Rates[k + 1] - Rates[k])
              \/ (x - f) * Rates[i] > 2 * f * (Rates[i + 1] - Rates[i])
        \/ \E k \in 1 .. i - 1 : next = Rates[k]
        \/ next = in.cur
    <3> HIDE DEF carried, x, SwitchDown
    <3> QED
      BY <2>4
  <2> HIDE DEF x, next, m, Step
  <2> QED
    BY <2>1, <2>2, <2>3, <2>5, Zenon
<1>7. d.rate = next /\ d.delay = Positive(a - s) /\ d.mem = m
  BY <1>6 DEF Decision
<1>8. Positive(a - s) \in Nat /\ (Positive(a - s) > 0 => Positive(a - s) = a - s)
  BY DEF Positive
<1>9. next \in ToSet(Rates)
  <2>1. \A k \in 1 .. i - 1 : k \in 1 .. Top
    BY <1>3
  <2>2. i < Top => i + 1 \in 1 .. Top
    BY <1>3
  <2> QED
    BY <1>1, <1>3, <1>6, <2>1, <2>2
<1>10. Proper(d)
  BY <1>6, <1>7, <1>8, <1>9 DEF Proper
<1>11. ASSUME "SFTM" \in Algorithms, WindowIsShort PROVE Waits(in, d)
  <2>1. Window \in Nat /\ Window <= s
    BY <1>5, <1>11, ConstantsOK DEF WindowIsShort
  <2> QED
    BY <1>4, <1>7, <1>8, <2>1 DEF Waits
<1>12. Backed(in, d)
  <2>1. SUFFICES ASSUME next > in.cur PROVE next <= (in.cur * MSD) \div in.fetch
    BY <1>7 DEF Backed
  <2>2. ASSUME NEW k \in 1 .. i - 1 PROVE Rates[k] < in.cur
    <3>1. k \in 1 .. Top /\ k < i
      BY <1>3
    <3> QED
      BY <1>1, <3>1, LadderAscends
  <2>3. in.cur \in Nat /\ \A k \in 1 .. i - 1 : Rates[k] \in Nat
    BY <1>1, <1>3
  <2>4. /\ i < Top /\ next = Rates[i + 1]
        /\ \/ \A k \in 1 .. Top - 1 : (x - f) * Rates[k] > f * (Rates[k + 1] - Rates[k])
           \/ (x - f) * Rates[i] > 2 * f * (Rates[i + 1] - Rates[i])
    BY <1>6, <2>1, <2>2, <2>3
  <2>5. i \in 1 .. Top - 1 /\ i + 1 \in 1 .. Top /\ i < i + 1
    BY <1>3, <2>4
  <2>6. PICK c \in Nat, r \in Nat : c = Rates[i] /\ r = Rates[i + 1] /\ c < r
    BY <1>3, <2>5, LadderAscends
  <2>7. (x - f) * c > f * (r - c) \/ (x - f) * c > 2 * f * (r - c)
    BY <2>4, <2>5, <2>6
  <2>8. (x - f) * c > f * (r - c)
    <3>1. r - c \in Nat /\ f * (r - c) \in Nat /\ 2 * f * (r - c) = f * (r - c) + f * (r - c)
      BY <2>6
    <3>2. (x - f) * c \in Int
      BY <1>6
    <3> QED
      BY <2>7, <3>1, <3>2
  <2>9. x * c > f * r
    <3>1. (x - f) * c = x * c - f * c /\ f * (r - c) = f * r - f * c
      BY <1>6
    <3>2. x * c \in Int /\ f * c \in Int /\ f * r \in Int
      BY <1>6
    <3> QED
      BY <2>8, <3>1, <3>2
  <2>10. c * x <= c * MSD /\ c * x = x * c /\ c * MSD \in Int /\ x * c \in Int /\ f * r \in Int
    BY <1>6, Times DEF MSD
  <2>11. f * r <= c * MSD
    BY <2>9, <2>10
  <2>12. r <= (c * MSD) \div f
    BY <2>10, <2>11, QuotientAtLeast
  <2> QED
    BY <1>1, <1>2, <2>4, <2>6, <2>12
<1> QED
  BY <1>10, <1>11, <1>12

LEMMA FdashDecides ==
  ASSUME NEW in, Known(in), NEW d \in Fdash(in), algo = "FDASH"
  PROVE  Proper(d) /\ ("FDASH" \in Algorithms /\ WindowIsShort => Waits(in, d)) /\ Backed(in, d)
<1>1. PICK c \in Nat \ {0} : c = in.cur /\ c \in ToSet(Rates)
  BY Place DEF Known
<1>2. PICK e \in Nat \ {0} : e = in.est
  BY DEF Known
<1>3. PICK a \in Int : a = Average(in.log)
  BY SomeReachAverage DEF Known
<1>4. PICK t \in Nat : t = TargetDt
  BY ConstantsOK
<1> DEFINE In60s(rate) == a + (60 * Second * e) \div rate - 60 * Second
           Sleep(rate) == IF rate = Rates[Top]
                          THEN Positive(a - t - (rate * MSD) \div e) ELSE 0
<1>5. PICK r, next :
        /\ r \in ToSet(Rates)
        /\ d = Decision(next, Sleep(next), in.mem)
        /\ next = r \/ next = c
        /\ r > c => next = c \/ ~ (In60s(r) < t)
  <2> DEFINE Forecast(rate) ==
               Average(in.log) + (60 * Second * in.est) \div rate - 60 * Second
             Checked(rate) ==
               IF \/ rate > in.cur /\ Forecast(rate) < TargetDt
                  \/ rate < in.cur /\ Forecast(rate) > TargetDt /\ Forecast(in.cur) > TargetDt
               THEN in.cur ELSE rate
             Slept(rate) ==
               IF rate = Rates[Top]
               THEN Positive(Average(in.log) - TargetDt - (rate * MSD) \div in.est) ELSE 0
  <2>1. PICK r \in ToSet(Rates) : d = Decision(Checked(r), Slept(Checked(r)), in.mem)
    BY Zenon DEF Fdash
  <2>2. /\ \A rate : Slept(rate) = Sleep(rate)
        /\ Forecast(r) = In60s(r)
    BY <1>2, <1>3, <1>4
  <2>3. Checked(r) = r \/ Checked(r) = c
    BY <1>1
  <2>4. r > c => Checked(r) = c \/ ~ (Forecast(r) < t)
    BY <1>1, <1>4
  <2> HIDE DEF Slept, Forecast, Checked
  <2> HIDE DEF Sleep, In60s
  <2> QED
    BY <2>1, <2>2, <2>3, <2>4
<1>6. d.rate = next /\ d.delay = Sleep(next) /\ d.mem = in.mem
  BY <1>5 DEF Decision
<1>7. next \in ToSet(Rates) /\ next \in Nat \ {0} /\ r \in Nat \ {0}
  BY <1>1, <1>5, Place
<1>8. PICK q \in Nat : q = (next * MSD) \div e
  <2>1. next * MSD \in Int /\ e * 0 <= next * MSD
    BY <1>7 DEF MSD
  <2>2. (next * MSD) \div e \in Int /\ 0 <= (next * MSD) \div e
    BY <2>1, Quotient, QuotientAtLeast
  <2> QED
    BY <2>2
<1>9. Sleep(next) \in Nat /\ (Sleep(next) > 0 => Sleep(next) = a - t - q)
  BY <1>8 DEF Positive
<1>10. Proper(d)
  BY <1>6, <1>7, <1>9 DEF Proper, Known
<1>11. ASSUME "FDASH" \in Algorithms, WindowIsShort PROVE Waits(in, d)
  <2>1. Window \in Nat /\ Window <= t
    BY <1>4, <1>11, ConstantsOK DEF WindowIsShort
  <2> HIDE DEF Sleep
  <2> QED
    BY <1>3, <1>6, <1>9, <2>1 DEF Waits
<1>12. Backed(in, d)
  <2>1. SUFFICES ASSUME next > c, ~ (next <= e) PROVE a > t
    BY <1>1, <1>2, <1>3, <1>4, <1>6 DEF Backed
  <2>2. next = r /\ ~ (In60s(r) < t)
    BY <1>1, <1>5, <1>7, <2>1
  <2>3. PICK p \in Int : p = (60 * Second * e) \div r /\ ~ (3000 <= p)
    <3>1. 60 * Second * e = 3000 * e /\ 3000 * e \in Int
      BY DEF Second
    <3>2. ~ (r * 3000 <= 3000 * e)
      BY <1>7, <2>1, <2>2
    <3>3. (3000 * e) \div r \in Int /\ ~ (3000 <= (3000 * e) \div r)
      BY <1>7, <3>1, <3>2, Quotient, QuotientAtLeast
    <3> QED
      BY <3>1, <3>3
  <2>4. In60s(r) = a + p - 3000
    BY <2>3 DEF Second
  <2> HIDE DEF In60s
  <2> QED
    BY <2>2, <2>3, <2>4
<1> QED
  BY <1>10, <1>11, <1>12

LEMMA WithinTheEstimate ==
  ASSUME NEW e \in Nat \ {0}
  PROVE  /\ HighestWithin(e) \in ToSet(Rates)
         /\ HighestWithin(e) <= e \/ HighestWithin(e) = Rates[1]
<1> DEFINE S == {1} \union {i \in 1 .. Top : Rates[i] <= e}
<1>1. Top \in Nat /\ Top > 1
  BY Ladder
<1>2. S \in SUBSET (1 .. Top) /\ S # {}
  BY <1>1
<1>3. PICK i \in S : i = Max(S)
  <2> HIDE DEF S
  <2> QED
    BY <1>1, <1>2, MaxPlace
<1>4. HighestWithin(e) = Rates[i]
  BY <1>3 DEF HighestWithin
<1>5. i \in 1 .. Top /\ (i = 1 \/ Rates[i] <= e)
  BY <1>1
<1> HIDE DEF S
<1> QED
  BY <1>4, <1>5, Rung

LEMMA SvaaDecides ==
  ASSUME NEW in, Known(in), NEW d \in Svaa(in)
  PROVE  Proper(d) /\ Waits(in, d) /\ Backed(in, d)
<1>1. PICK i \in 1 .. Top : Rates[i] = in.cur /\ in.cur \in Nat \ {0}
  BY Place DEF Known
<1>2. PICK e \in Nat \ {0} : e = in.est
  BY DEF Known
<1>3. PICK k \in Nat, c \in Nat, rate \in {HighestWithin(e), in.cur} :
        d = Decision(rate, 0, [in.mem EXCEPT !.k1 = k, !.k2 = in.mem.k1, !.count = c])
  <2> DEFINE diff == GetBufferDifferential(in.log)
             m_k == IF 5 * diff >= 2 * MSD THEN 1
                    ELSE IF 5 * diff >= MSD THEN 5
                    ELSE IF diff >= 0 THEN 15 ELSE 20
             M(c) == [in.mem EXCEPT !.k1 = m_k, !.k2 = in.mem.k1, !.count = c]
  <2>1. \/ d = Decision(HighestWithin(e), 0, M(in.mem.count))
        \/ d = Decision(HighestWithin(e), 0, M(0))
        \/ d = Decision(in.cur, 0, M(in.mem.count + 1))
        \/ d = Decision(in.cur, 0, M(0))
    BY <1>2 DEF Svaa
  <2>2. m_k \in Nat
    OBVIOUS
  <2>3. in.mem.count \in Nat /\ in.mem.count + 1 \in Nat /\ 0 \in Nat
    BY DEF Known, Memories
  <2> HIDE DEF m_k, diff
  <2> QED
    BY <2>1, <2>2, <2>3
<1>4. PICK m \in Memories : d = Decision(rate, 0, m)
  <2>1. [in.mem EXCEPT !.k1 = k, !.k2 = in.mem.k1, !.count = c] \in Memories
    BY DEF Known, Memories
  <2> QED
    BY <1>3, <2>1
<1>5. d.rate = rate /\ d.delay = 0 /\ d.mem = m
  BY <1>4 DEF Decision
<1>6. rate \in ToSet(Rates)
  BY <1>3, WithinTheEstimate DEF Known
<1>7. Rates[1] <= in.cur /\ Rates[1] \in Nat
  BY <1>1, LowestAndHighest, Ladder
<1>8. rate > in.cur => rate <= e
  BY <1>1, <1>7, WithinTheEstimate
<1> QED
  BY <1>2, <1>4, <1>5, <1>6, <1>8 DEF Proper, Waits, Backed

LEMMA AaashDecides ==
  ASSUME NEW in, Known(in), NEW d \in Aaash(in)
  PROVE  Proper(d) /\ Backed(in, d)
<1>1. PICK i \in 1 .. Top : i = Index(in.cur) /\ Rates[i] = in.cur
  BY Place DEF Known
<1>2. PICK e \in Nat \ {0} : e = in.est
  BY DEF Known
<1>3. /\ Top \in Nat /\ \A k \in 1 .. Top : Rates[k] \in Nat \ {0} /\ Rates[k] \in ToSet(Rates)
      /\ 1 \in 1 .. Top /\ Rates[1] <= Rates[i]
  BY Ladder, LowestAndHighest
<1>4. PICK b \in Int : b = Last(in.log).val
  <2>1. Len(in.log) \in 1 .. Len(in.log)
    BY LenProperties, EmptySeq DEF Known
  <2> QED
    BY <2>1, Entries DEF Known, Last
<1> DEFINE up == IF i < Top THEN Rates[i + 1] ELSE in.cur
           down == IF i > 1 THEN Rates[i - 1] ELSE in.cur
<1>5. PICK rate, wait, fast :
        /\ fast \in BOOLEAN
        /\ d = Decision(rate, wait, [in.mem EXCEPT !.fast = fast])
        /\ \/ rate = up /\ (100 * up <= 75 * e \/ 100 * up < 90 * e)
           \/ rate \in {in.cur, down, Rates[1]}
        /\ wait \in {0, 50 * Second - MSD, Max({b - MSD, 35 * Second})}
  <2> DEFINE fast == /\ in.mem.fast /\ i < Top /\ BufferInc(in.log)
                     /\ 100 * in.cur <= 75 * in.est
             share == IF b < 10 * Second THEN 33 ELSE IF b < 20 * Second THEN 50 ELSE 75
             AtRate == in.cur = Rates[Top] \/ 100 * up >= 90 * in.est
             D(rate, wait) == {Decision(rate, wait, [in.mem EXCEPT !.fast = fast])}
  <2>1. d \in IF fast
              THEN D(IF 100 * up <= share * in.est THEN up ELSE in.cur,
                     IF b > 50 * Second THEN 50 * Second - MSD ELSE 0)
              ELSE IF b < 10 * Second THEN D(Rates[1], 0)
              ELSE IF b < 20 * Second THEN D(IF in.cur >= in.est THEN down ELSE in.cur, 0)
              ELSE IF AtRate THEN D(in.cur, Max({b - MSD, 35 * Second}))
              ELSE D(IF b < 50 * Second THEN in.cur ELSE up, 0)
    BY <1>1, <1>4 DEF Aaash
  <2>2. up \in Nat
    BY <1>1, <1>3
  <2>3. 100 * up <= share * in.est => 100 * up <= 75 * e
    <3>1. share * in.est <= 75 * e
      BY <1>2
    <3>2. 100 * up \in Int /\ share * in.est \in Int /\ 75 * e \in Int
      BY <1>2, <2>2
    <3> HIDE DEF up, share
    <3> QED
      BY <3>1, <3>2
  <2>4. ~AtRate => 100 * up < 90 * e
    <3> HIDE DEF up
    <3> QED
      BY <1>2, <2>2
  <2>5. fast \in BOOLEAN
    OBVIOUS
  <2> HIDE DEF up, down, share, AtRate, fast
  <2>6. PICK rate, wait :
          /\ d = Decision(rate, wait, [in.mem EXCEPT !.fast = fast])
          /\ \/ rate = up /\ (100 * up <= 75 * e \/ 100 * up < 90 * e)
             \/ rate \in {in.cur, down, Rates[1]}
          /\ wait \in {0, 50 * Second - MSD, Max({b - MSD, 35 * Second})}
    BY <2>1, <2>3, <2>4
  <2> QED
    BY <2>5, <2>6, Zenon
<1>6. PICK m \in Memories : d = Decision(rate, wait, m)
  <2>1. [in.mem EXCEPT !.fast = fast] \in Memories
    BY <1>5 DEF Known, Memories
  <2> QED
    BY <1>5, <2>1
<1>7. d.rate = rate /\ d.delay = wait /\ d.mem = m
  BY <1>6 DEF Decision
<1>8. wait \in Nat
  <2>1. 50 * Second - MSD \in Nat /\ b - MSD \in Int /\ 35 * Second \in Nat
    BY DEF Second, MSD
  <2>2. PICK x \in Int, y \in Nat : x = b - MSD /\ y = 35 * Second
    BY <2>1
  <2>3. Max({x, y}) \in {x, y} /\ Max({x, y}) >= y
    BY MaxTwo
  <2>4. Max({b - MSD, 35 * Second}) \in Nat
    BY <2>2, <2>3
  <2> QED
    BY <1>5, <2>1, <2>4
<1>9. up \in ToSet(Rates) /\ up \in Nat /\ down \in ToSet(Rates) /\ down \in Nat /\ down <= in.cur
  <2>1. i < Top => i + 1 \in 1 .. Top
    BY <1>3
  <2>2. i > 1 => i - 1 \in 1 .. Top /\ i - 1 < i
    BY <1>3
  <2>3. i > 1 => Rates[i - 1] < Rates[i]
    BY <2>2, LadderAscends
  <2> QED
    BY <1>1, <1>3, <2>1, <2>2, <2>3
<1>10. rate \in ToSet(Rates)
  BY <1>1, <1>3, <1>5, <1>9
<1>11. rate > in.cur => rate <= e
  <2>1. in.cur \in Nat /\ Rates[1] \in Nat /\ Rates[1] <= in.cur
    BY <1>1, <1>3
  <2> HIDE DEF up, down
  <2> QED
    BY <1>5, <1>9, <2>1
<1> QED
  BY <1>2, <1>6, <1>7, <1>8, <1>10, <1>11 DEF Proper, Backed

(* Each decision is proper.  Only AAASH waits longer than the media that is *)
(* left beyond the window lasts, and only OSMP steps up unbacked.            *)
LEMMA Decides ==
  ASSUME NEW in, Known(in), algo \in Algorithms, NEW d \in CalcNextSegment(in)
  PROVE  /\ Proper(d)
         /\ WindowIsShort /\ algo # "AAASH" => Waits(in, d)
         /\ algo # "OSMP" => Backed(in, d)
<1>1. algo \in {"OSMP", "RAAHS", "SFTM", "FDASH", "SVAA", "AAASH"}
  BY ConstantsOK
<1>2. CASE algo = "OSMP"
  <2>1. d \in Osmp(in)
    BY <1>2 DEF CalcNextSegment
  <2> QED
    BY <1>2, <2>1, OsmpDecides
<1>3. CASE algo = "RAAHS"
  <2>1. d \in Raahs(in)
    BY <1>3 DEF CalcNextSegment
  <2> QED
    BY <1>3, <2>1, RaahsDecides
<1>4. CASE algo = "SFTM"
  <2>1. d \in Sftm(in)
    BY <1>4 DEF CalcNextSegment
  <2> QED
    BY <1>4, <2>1, SftmDecides
<1>5. CASE algo = "FDASH"
  <2>1. d \in Fdash(in)
    BY <1>5 DEF CalcNextSegment
  <2> QED
    BY <1>5, <2>1, FdashDecides
<1>6. CASE algo = "SVAA"
  <2>1. d \in Svaa(in)
    BY <1>6 DEF CalcNextSegment
  <2> QED
    BY <1>6, <2>1, SvaaDecides
<1>7. CASE algo = "AAASH"
  <2>1. d \in Aaash(in)
    BY <1>7 DEF CalcNextSegment
  <2> QED
    BY <1>7, <2>1, AaashDecides
<1> QED
  BY <1>1, <1>2, <1>3, <1>4, <1>5, <1>6, <1>7

-----------------------------------------------------------------------------
(* The arrival of a segment. *)

(* r is log with the entry e, without what is not recent any more.          *)
Logs(r, log, e) ==
  /\ r \in Seq(Sample) /\ r # <<>> /\ r[Len(r)] = e
  /\ \A k \in 1 .. Len(r) :
       /\ r[k].at >= e.at - Window
       /\ r[k] = e \/ \E j \in 1 .. Len(log) : r[k] = log[j]

LEMMA Logged ==
  ASSUME NEW log \in Seq(Sample), NEW e \in Sample
  PROVE  Logs(Recent(Append(log, e), e.at), log, e)
<1>1. PICK l \in Seq(Sample) :
        /\ l = Append(log, e) /\ l # <<>> /\ Len(l) = Len(log) + 1 /\ l[Len(log) + 1] = e
        /\ \A j \in 1 .. Len(log) : l[j] = log[j]
  BY OneAppended
<1>2. e.at \in Nat /\ Window \in Nat /\ Len(log) \in Nat
  BY ConstantsOK DEF Sample
<1>3. e.at \in Int /\ l[Len(l)].at >= e.at - Window
  BY <1>1, <1>2
<1>4. PICK r : r = Recent(l, e.at) /\ KeepsRecent(r, l, e.at)
  BY <1>1, <1>3, RecentKeeps
<1>5. ASSUME NEW k \in 1 .. Len(r)
      PROVE  r[k] = e \/ \E j \in 1 .. Len(log) : r[k] = log[j]
  <2>1. PICK j \in 1 .. Len(l) : r[k] = l[j]
    BY <1>4 DEF KeepsRecent
  <2>2. j = Len(log) + 1 \/ j \in 1 .. Len(log)
    BY <1>1, <1>2
  <2> QED
    BY <1>1, <2>1, <2>2
<1>6. r \in Seq(Sample) /\ r # <<>> /\ r[Len(r)] = e
  BY <1>1, <1>4 DEF KeepsRecent
<1>7. \A k \in 1 .. Len(r) : r[k].at >= e.at - Window
  BY <1>4 DEF KeepsRecent
<1>8. Logs(r, log, e)
  BY <1>5, <1>6, <1>7 DEF Logs
<1> QED
  BY <1>1, <1>4, <1>8

(* The segments that are in.                                                *)
Arrived == IF phase = "fetching" THEN segId - 1 ELSE segId

(* Whatever the history, no sample is zero, and the media is not played     *)
(* before the last frame that was in when the buffer level was logged.       *)
Histories ==
  /\ \A i \in 1 .. Len(bitrates) : bitrates[i].val >= 1
  /\ \A i \in 1 .. Len(levels) : levels[i].val + levels[i].at <= origin + Arrived * MSD - 1

Inv ==
  /\ TypeOK /\ Histories
  /\ Arrived \in Nat /\ origin \in Nat /\ (Arrived = 0 => origin = 0)

LEMMA PlayerStarts ==
  ASSUME NEW seg \in Nat, NEW orig \in Nat, NEW asked \in Nat, NEW done \in Nat
  PROVE  OriginAfter(seg, orig, asked, done) \in Nat /\ OriginAfter(seg, orig, asked, done) >= orig
<1>1. PICK a \in Int, b \in Int : a = asked + 1 - seg * MSD /\ b = done - (seg * MSD + MSD - 1)
  BY DEF MSD
<1>2. Max({orig, a, b}) \in {orig, a, b} /\ Max({orig, a, b}) >= orig
  <2>1. orig \in Int
    OBVIOUS
  <2> QED
    BY <2>1, MaxThree
<1>3. Max({orig, a, b}) \in Nat
  BY <1>1, <1>2
<1> QED
  BY <1>1, <1>2, <1>3 DEF OriginAfter

(* The level logged when the media that is in ends at the frame media.      *)
LEMMA LevelLogged ==
  ASSUME NEW media \in Nat, NEW done \in Nat, NEW from \in Nat, NEW orig \in Nat
  PROVE  /\ GetRealPlayTime(media, done, from, orig) \in Int
         /\ GetRealPlayTime(media, done, from, orig) + done <= orig + media - 1
         /\ done >= from => GetRealPlayTime(media, done, from, orig) = orig + media - 1 - done
         /\ FramesPlayed(media, done, from, orig) \in Int
<1>1. FramesPlayed(media, done, from, orig) \in Int
  <2>1. PICK x \in Int : x = done - orig + 1
    OBVIOUS
  <2>2. Min({media, x}) \in Int
    <3>1. media \in Int
      OBVIOUS
    <3>2. Min({media, x}) \in {media, x}
      BY <3>1, MinTwo
    <3> QED
      BY <3>1, <3>2
  <2> QED
    BY <2>1, <2>2 DEF FramesPlayed
<1> QED
  BY <1>1 DEF GetRealPlayTime

(* What the client decides when a segment is in, and what it decides from.  *)
Decided(in, d) ==
  /\ Known(in) /\ in.cur = bitRate /\ in.log = levels'
  /\ d \in CalcNextSegment(in)
  /\ bitRate' = d.rate /\ delay' = d.delay /\ dueAt' = now' + d.delay /\ mem' = d.mem
  /\ in.est = Average(bitrates')
  /\ bitrates'[Len(bitrates')].val = (bitRate * MSD) \div in.fetch

(* The state after it.                                                      *)
Stepped ==
  /\ phase = "fetching" /\ phase' = "waiting" /\ segId >= 1
  /\ UNCHANGED <<algo, net, changes, segId>>
  /\ now' \in Nat /\ fetch' \in Nat /\ playFrom' \in Nat /\ origin' \in Nat
  /\ bitrates' \in Seq(Sample) /\ bitrates' # <<>>
  /\ levels' \in Seq(Sample) /\ levels' # <<>>
  /\ \A i \in 1 .. Len(levels') : levels'[i].at >= now' - Window
  /\ Histories'

LEMMA Arrives ==
  ASSUME Inv, SegmentReceived
  PROVE  Stepped /\ \E in, d : Decided(in, d)
<1>1. /\ phase = "fetching" /\ phase' = "waiting" /\ UNCHANGED <<algo, net, changes, segId>>
      /\ segId \in Nat /\ segId >= 1 /\ Arrived = segId - 1
  <2>1. phase = "fetching" /\ phase' = "waiting" /\ UNCHANGED <<algo, net, changes, segId>>
    BY DEF SegmentReceived
  <2>2. algo \in Algorithms /\ segId \in 0 .. MaxSegments[algo]
    BY DEF Inv, TypeOK
  <2>3. MaxSegments[algo] \in Nat
    BY <2>2, ConstantsOK
  <2>4. Arrived = segId - 1 /\ Arrived \in Nat
    BY <2>1 DEF Arrived, Inv
  <2> QED
    BY <2>1, <2>2, <2>3, <2>4
<1>2. /\ bitRate \in ToSet(Rates) /\ bitRate \in Nat \ {0} /\ net \in Nat \ {0} /\ now \in Nat
      /\ playFrom \in Nat /\ origin \in Nat /\ mem \in Memories
      /\ bitrates \in Seq(Sample) /\ levels \in Seq(Sample)
  BY ConstantsOK, Place DEF Inv, TypeOK, Memories
<1> DEFINE took == (bitRate * MSD + net - 1) \div net
           done == now + took
           media == segId * MSD
           from == IF segId = 1 THEN now + 1 + Second ELSE playFrom
           start == IF segId = 1 THEN from ELSE origin
           orig == OriginAfter(segId - 1, start, now, done)
           val == (bitRate * MSD) \div took
           level == GetRealPlayTime(media, done, from, orig)
           rates == Recent(Append(bitrates, [at |-> done, val |-> val]), done)
           log == Recent(Append(levels, [at |-> done, val |-> level]), done)
           in == [cur |-> bitRate, fetch |-> took, est |-> Average(rates), log |-> log,
                  seg |-> segId, played |-> FramesPlayed(media, done, from, orig), mem |-> mem]
<1>3. PICK d : /\ d \in CalcNextSegment(in)
               /\ bitRate' = d.rate /\ delay' = d.delay /\ dueAt' = done + d.delay /\ mem' = d.mem
  BY DEF SegmentReceived
<1>4. /\ now' = done /\ fetch' = took /\ playFrom' = from /\ origin' = orig
      /\ bitrates' = rates /\ levels' = log
  BY DEF SegmentReceived
<1>5. took \in Nat \ {0} /\ val \in Int /\ val >= 1
  <2>1. PICK p \in Nat \ {0} : p = bitRate * MSD
    BY <1>2 DEF MSD
  <2> QED
    BY <1>2, <2>1, FetchTime
<1>6. done \in Nat /\ media \in Nat /\ from \in Nat /\ start \in Nat /\ segId - 1 \in Nat
  BY <1>1, <1>2, <1>5 DEF MSD, Second
<1>7. start >= origin
  BY <1>1, <1>2, <1>6 DEF Inv
<1> HIDE DEF took, start, from
<1>8. orig \in Nat /\ orig >= start
  BY <1>2, <1>6, PlayerStarts
<1> HIDE DEF orig, done, media
<1>9. level \in Int /\ level + done <= orig + media - 1 /\ FramesPlayed(media, done, from, orig) \in Int
  BY <1>6, <1>8, LevelLogged
<1> HIDE DEF level, val
<1>10. Logs(rates, bitrates, [at |-> done, val |-> val])
  <2>1. [at |-> done, val |-> val] \in Sample
    BY <1>5, <1>6 DEF Sample
  <2>2. [at |-> done, val |-> val].at = done
    OBVIOUS
  <2> QED
    BY <1>2, <2>1, <2>2, Logged
<1>11. Logs(log, levels, [at |-> done, val |-> level])
  <2>1. [at |-> done, val |-> level] \in Sample
    BY <1>6, <1>9 DEF Sample
  <2>2. [at |-> done, val |-> level].at = done
    OBVIOUS
  <2> QED
    BY <1>2, <2>1, <2>2, Logged
<1> HIDE DEF rates, log
<1>12. /\ rates \in Seq(Sample) /\ rates # <<>> /\ rates[Len(rates)].val = val
       /\ \A i \in 1 .. Len(rates) : rates[i].val >= 1
  <2>1. rates \in Seq(Sample) /\ rates # <<>> /\ rates[Len(rates)].val = val
    BY <1>10 DEF Logs
  <2>2. ASSUME NEW i \in 1 .. Len(rates) PROVE rates[i].val >= 1
    <3>1. CASE rates[i] = [at |-> done, val |-> val]
      BY <1>5, <3>1
    <3>2. CASE \E j \in 1 .. Len(bitrates) : rates[i] = bitrates[j]
      BY <3>2 DEF Inv, Histories
    <3> QED
      BY <1>10, <3>1, <3>2 DEF Logs
  <2> QED
    BY <2>1, <2>2
<1>13. /\ log \in Seq(Sample) /\ log # <<>>
       /\ \A i \in 1 .. Len(log) : log[i].at >= done - Window
       /\ \A i \in 1 .. Len(log) : log[i].val + log[i].at <= orig + media - 1
  <2>1. log \in Seq(Sample) /\ log # <<>> /\ \A i \in 1 .. Len(log) : log[i].at >= done - Window
    BY <1>11 DEF Logs
  <2>2. ASSUME NEW i \in 1 .. Len(log) PROVE log[i].val + log[i].at <= orig + media - 1
    <3>1. CASE log[i] = [at |-> done, val |-> level]
      BY <1>9, <3>1
    <3>2. ASSUME NEW j \in 1 .. Len(levels), log[i] = levels[j]
          PROVE  log[i].val + log[i].at <= orig + media - 1
      <4>1. levels[j].val + levels[j].at <= origin + (segId - 1) * MSD - 1
        BY <1>1 DEF Inv, Histories
      <4>2. levels[j].val \in Int /\ levels[j].at \in Nat
        BY <1>2, Entries
      <4>3. origin + (segId - 1) * MSD - 1 <= orig + media - 1 /\ media \in Nat
        BY <1>1, <1>2, <1>6, <1>7, <1>8 DEF media, MSD
      <4>4. origin + (segId - 1) * MSD - 1 \in Int
        BY <1>1, <1>2 DEF MSD
      <4> QED
        BY <1>8, <3>2, <4>1, <4>2, <4>3, <4>4
    <3> QED
      BY <1>11, <3>1, <3>2 DEF Logs
  <2> QED
    BY <2>1, <2>2
<1>14. Average(rates) \in Nat \ {0}
  <2>1. Average(rates) \in Int
    BY <1>12, SomeReachAverage
  <2>2. Average(rates) >= 1
    BY <1>12, AverageAtLeast
  <2> QED
    BY <2>1, <2>2
<1>15. Known(in)
  BY <1>1, <1>2, <1>5, <1>9, <1>13, <1>14 DEF Known
<1>16. Decided(in, d)
  <2>1. in.cur = bitRate /\ in.log = levels' /\ in.est = Average(bitrates') /\ in.fetch = took
    BY <1>4
  <2>2. bitrates'[Len(bitrates')].val = (bitRate * MSD) \div in.fetch
    BY <1>4, <1>12, <2>1 DEF val
  <2>3. dueAt' = now' + d.delay
    BY <1>3, <1>4
  <2> HIDE DEF in
  <2> QED
    BY <1>3, <1>15, <2>1, <2>2, <2>3 DEF Decided
<1>17. Stepped
  <2>1. Arrived' = segId
    BY <1>1 DEF Arrived
  <2>2. Histories'
    BY <1>4, <1>12, <1>13, <2>1 DEF Histories, media
  <2> QED
    BY <1>1, <1>4, <1>5, <1>6, <1>8, <1>12, <1>13, <2>2 DEF Stepped
<1> QED
  BY <1>16, <1>17

-----------------------------------------------------------------------------
(* The invariant and the theorems. *)

LEMMA InvInit == Init => Inv
<1>1. SUFFICES ASSUME Init PROVE Inv
  OBVIOUS
<1>2. /\ bitrates = <<>> /\ levels = <<>> /\ origin = 0 /\ segId = 0 /\ phase = "waiting"
      /\ algo \in Algorithms /\ net \in Throughputs /\ changes = 0 /\ now = StartAt
      /\ dueAt = StartAt /\ bitRate = Rates[1] /\ delay = 0 /\ fetch = 0 /\ playFrom = 0
      /\ mem = [fast |-> TRUE, rsft |-> FALSE, count |-> 0, k1 |-> 0, k2 |-> 0]
  BY <1>1 DEF Init
<1>3. StartAt \in Nat /\ MaxSegments[algo] \in Nat /\ MaxChanges[algo] \in Nat
  BY <1>2, ConstantsOK
<1>4. bitRate \in ToSet(Rates)
  BY <1>2, Ladder
<1>5. <<>> \in Seq(Sample) /\ Len(<<>>) = 0
  OBVIOUS
<1>6. TypeOK
  BY <1>2, <1>3, <1>4, <1>5 DEF TypeOK
<1>7. Histories
  BY <1>2, <1>5 DEF Histories
<1> QED
  BY <1>2, <1>6, <1>7 DEF Inv, Arrived

LEMMA InvNext == Inv /\ [Next]_vars => Inv'
<1>1. SUFFICES ASSUME Inv, [Next]_vars PROVE Inv'
  OBVIOUS
<1>2. CASE UNCHANGED vars
  BY <1>1, <1>2 DEF Inv, TypeOK, Histories, Arrived, vars
<1>3. algo \in Algorithms /\ MaxSegments[algo] \in Nat /\ MaxChanges[algo] \in Nat
      /\ segId \in 0 .. MaxSegments[algo] /\ changes \in 0 .. MaxChanges[algo]
  BY <1>1, ConstantsOK DEF Inv, TypeOK
<1>4. CASE NetworkChanges
  <2>1. changes' \in 0 .. MaxChanges[algo] /\ net' \in Throughputs
    BY <1>3, <1>4 DEF NetworkChanges
  <2>2. UNCHANGED <<algo, now, phase, dueAt, segId, bitRate, delay, fetch, bitrates,
                    levels, playFrom, origin, mem>>
    BY <1>4 DEF NetworkChanges
  <2>3. TypeOK'
    BY <1>1, <2>1, <2>2 DEF Inv, TypeOK
  <2> QED
    BY <1>1, <2>2, <2>3 DEF Inv, Histories, Arrived
<1>5. CASE RequestSegment
  <2>1. /\ phase = "waiting" /\ phase' = "fetching" /\ now' = dueAt /\ segId' = segId + 1
        /\ segId < MaxSegments[algo]
        /\ UNCHANGED <<algo, net, changes, dueAt, bitRate, delay, fetch, bitrates, levels,
                       playFrom, origin, mem>>
    BY <1>5 DEF RequestSegment
  <2>2. Arrived' = Arrived /\ Arrived = segId
    BY <1>3, <2>1 DEF Arrived
  <2>3. segId' \in 0 .. MaxSegments[algo] /\ (segId' > 1 => segId > 0)
    BY <1>3, <2>1
  <2>4. TypeOK'
    BY <1>1, <2>1, <2>3 DEF Inv, TypeOK
  <2> QED
    BY <1>1, <2>1, <2>2, <2>4 DEF Inv, Histories
<1>6. CASE SegmentReceived
  <2>1. Stepped /\ \E in, d : Decided(in, d)
    BY <1>1, <1>6, Arrives
  <2>2. PICK in, d : Decided(in, d)
    BY <2>1
  <2>3. Proper(d)
    BY <1>3, <2>2, Decides DEF Decided
  <2>4. bitRate' \in ToSet(Rates) /\ delay' \in Nat /\ dueAt' \in Nat /\ mem' \in Memories
    BY <2>1, <2>2, <2>3 DEF Proper, Decided, Stepped
  <2>5. Arrived' = segId /\ segId \in Nat /\ segId >= 1
    BY <1>3, <2>1 DEF Arrived, Stepped
  <2>6. TypeOK'
    <3>1. net \in Throughputs /\ changes \in 0 .. MaxChanges[algo]
      BY <1>1 DEF Inv, TypeOK
    <3> QED
      BY <1>3, <2>1, <2>4, <3>1 DEF TypeOK, Stepped, Memories
  <2> QED
    BY <2>1, <2>5, <2>6 DEF Inv, Stepped
<1> QED
  BY <1>1, <1>2, <1>4, <1>5, <1>6 DEF Next

LEMMA InvAlways == Spec => []Inv
  BY InvInit, InvNext, PTL DEF Spec

(* Whatever the ladder of rates, the throughputs and the window: every rate *)
(* asked for is a rung of the ladder, every delay and fetch time is a time,  *)
(* and no average is taken of an empty window.                               *)
THEOREM RatesTypeCorrect == Spec => []TypeOK
<1>1. Inv => TypeOK
  BY DEF Inv
<1> QED
  BY <1>1, InvAlways, PTL

(* Whatever the ladder of rates, the throughputs and the window: who steps  *)
(* up was served as fast within the window, or is FDASH with more media      *)
(* buffered than its target, or OSMP.                                        *)
THEOREM StepsUpBacked == Spec => NeverRaisesBlindly
<1> DEFINE Reached == \E i \in DOMAIN bitrates' : bitrates'[i].val >= bitRate'
           Ahead == \E i \in DOMAIN levels' : levels'[i].val > TargetDt
           Backs == algo # "OSMP" /\ bitRate' > bitRate => Reached \/ (algo = "FDASH" /\ Ahead)
<1>1. Inv /\ [Next]_vars => [Backs]_vars
  <2>1. SUFFICES ASSUME Inv, Next PROVE Backs
    OBVIOUS
  <2>2. algo \in Algorithms /\ bitRate \in Nat
    BY <2>1, Place DEF Inv, TypeOK
  <2>3. CASE NetworkChanges \/ RequestSegment
    <3>1. bitRate' = bitRate
      BY <2>3 DEF NetworkChanges, RequestSegment
    <3> QED
      BY <2>2, <3>1
  <2>4. CASE SegmentReceived
    <3>1. Stepped /\ \E in, d : Decided(in, d)
      BY <2>1, <2>4, Arrives
    <3>2. PICK in, d : Decided(in, d)
      BY <3>1
    <3>3. SUFFICES ASSUME algo # "OSMP", bitRate' > bitRate
          PROVE  Reached \/ (algo = "FDASH" /\ Ahead)
      OBVIOUS
    <3>4. Backed(in, d) /\ Proper(d)
      BY <2>2, <3>2, <3>3, Decides DEF Decided
    <3>5. bitRate' \in Nat
      BY <3>2, <3>4, Place DEF Proper, Decided
    <3>6. /\ bitrates' \in Seq(Sample) /\ bitrates' # <<>>
          /\ levels' \in Seq(Sample) /\ levels' # <<>>
      BY <3>1 DEF Stepped
    <3>7. /\ DOMAIN bitrates' = 1 .. Len(bitrates') /\ Len(bitrates') \in 1 .. Len(bitrates')
          /\ DOMAIN levels' = 1 .. Len(levels')
      BY <3>6, LenProperties, EmptySeq
    <3>8. \/ bitRate' <= bitrates'[Len(bitrates')].val
          \/ bitRate' <= Average(bitrates')
          \/ algo = "FDASH" /\ Average(levels') > TargetDt
      BY <3>2, <3>3, <3>4 DEF Backed, Decided
    <3>9. CASE bitRate' <= bitrates'[Len(bitrates')].val
      <4>1. bitrates'[Len(bitrates')].val \in Int
        BY <3>6, <3>7, Entries
      <4> QED
        BY <3>5, <3>7, <3>9, <4>1
    <3>10. CASE bitRate' <= Average(bitrates')
      <4>1. PICK i \in 1 .. Len(bitrates') : bitrates'[i].val >= Average(bitrates')
        BY <3>6, SomeReachAverage
      <4>2. Average(bitrates') \in Int /\ bitrates'[i].val \in Int
        BY <3>6, SomeReachAverage, Entries
      <4> QED
        BY <3>5, <3>7, <3>10, <4>1, <4>2
    <3>11. CASE algo = "FDASH" /\ Average(levels') > TargetDt
      <4>1. PICK i \in 1 .. Len(levels') : levels'[i].val >= Average(levels')
        BY <3>6, SomeReachAverage
      <4>2. Average(levels') \in Int /\ levels'[i].val \in Int /\ TargetDt \in Int
        BY <3>6, SomeReachAverage, Entries, ConstantsOK
      <4>3. levels'[i].val > TargetDt
        BY <3>11, <4>1, <4>2
      <4> QED
        BY <3>7, <3>11, <4>3
    <3> QED
      BY <3>8, <3>9, <3>10, <3>11
  <2> QED
    BY <2>1, <2>3, <2>4 DEF Next
<1> QED
  BY <1>1, InvAlways, PTL DEF Spec, NeverRaisesBlindly

(* A wait that the average level leaves beyond the window ends before the   *)
(* media does, for no entry of the window was logged longer ago.             *)
LEMMA WaitEnds ==
  ASSUME Inv, Stepped, NEW in, NEW d, Decided(in, d), Waits(in, d), Proper(d)
  PROVE  OutlastsTheDelay'
<1>1. SUFFICES ASSUME delay' > 0, dueAt' >= playFrom'
      PROVE  GetRealPlayTime(segId' * MSD, dueAt', playFrom', origin') >= 0
  BY DEF OutlastsTheDelay
<1>2. /\ segId' = segId /\ segId \in Nat
      /\ now' \in Nat /\ playFrom' \in Nat /\ origin' \in Nat
      /\ levels' \in Seq(Sample) /\ levels' # <<>>
      /\ \A i \in 1 .. Len(levels') : levels'[i].at >= now' - Window
  BY ConstantsOK DEF Stepped, Inv, TypeOK
<1>3. PICK m \in Nat : m = segId * MSD
  BY <1>2 DEF MSD
<1>4. \A i \in 1 .. Len(levels') : levels'[i].val + levels'[i].at <= origin' + m - 1
  <2>1. Arrived' = segId
    BY DEF Stepped, Arrived
  <2> QED
    BY <1>3, <2>1 DEF Stepped, Histories
<1>5. PICK i \in 1 .. Len(levels') : levels'[i].val >= Average(levels')
  BY <1>2, SomeReachAverage
<1>6. PICK v \in Int, t \in Nat, a \in Int :
        v = levels'[i].val /\ t = levels'[i].at /\ a = Average(levels')
  BY <1>2, Entries, SomeReachAverage
<1>7. delay' \in Nat /\ dueAt' = now' + delay' /\ delay' + Window <= a
  BY <1>1, <1>6 DEF Decided, Proper, Waits
<1>8. v >= a /\ v + t <= origin' + m - 1 /\ t >= now' - Window
  BY <1>2, <1>4, <1>5, <1>6
<1>9. Window \in Nat
  BY ConstantsOK
<1>10. dueAt' \in Nat /\ origin' + m - 1 - dueAt' >= 0
  <2>1. PICK n \in Nat, o \in Nat, w \in Nat, p \in Nat :
          n = now' /\ o = origin' /\ w = Window /\ p = delay'
    BY <1>2, <1>7, <1>9
  <2>2. v >= a /\ v + t <= o + m - 1 /\ t >= n - w /\ p + w <= a
    BY <1>7, <1>8, <2>1
  <2>3. o + m - 1 - (n + p) >= 0
    BY ONLY <2>2, v \in Int, t \in Nat, a \in Int, n \in Nat, o \in Nat, w \in Nat,
            p \in Nat, m \in Nat
  <2>4. dueAt' = n + p
    BY <1>7, <2>1
  <2>5. dueAt' \in Nat
    BY <2>4
  <2>6. origin' = o
    BY <2>1
  <2> QED
    BY ONLY <2>3, <2>4, <2>5, <2>6
<1>11. GetRealPlayTime(m, dueAt', playFrom', origin') = origin' + m - 1 - dueAt'
  BY <1>1, <1>2, <1>10, LevelLogged
<1> QED
  BY <1>2, <1>3, <1>10, <1>11

(* Whatever the ladder of rates and the throughputs: a client that keeps in *)
(* reserve as much as its window is long has media to play when the request  *)
(* it put off goes out.                                                      *)
THEOREM WaitsOnBufferedMedia ==
  ASSUME WindowIsShort
  PROVE  Spec => []SleepsOnBufferedMedia
<1>1. Init => SleepsOnBufferedMedia
  BY DEF Init, SleepsOnBufferedMedia, OutlastsTheDelay
<1>2. Inv /\ SleepsOnBufferedMedia /\ [Next]_vars => SleepsOnBufferedMedia'
  <2>1. SUFFICES ASSUME Inv, SleepsOnBufferedMedia, [Next]_vars, algo' # "AAASH"
                 PROVE  OutlastsTheDelay'
    BY DEF SleepsOnBufferedMedia
  <2>2. CASE UNCHANGED vars \/ NetworkChanges
    <3>1. UNCHANGED <<algo, phase, dueAt, segId, delay, playFrom, origin>>
      BY <2>2 DEF NetworkChanges, vars
    <3>2. OutlastsTheDelay
      BY <2>1, <3>1 DEF SleepsOnBufferedMedia
    <3> QED
      BY <3>1, <3>2 DEF OutlastsTheDelay
  <2>3. CASE RequestSegment
    BY <2>3 DEF RequestSegment, OutlastsTheDelay
  <2>4. CASE SegmentReceived
    <3>1. Stepped /\ \E in, d : Decided(in, d)
      BY <2>1, <2>4, Arrives
    <3>2. PICK in, d : Decided(in, d)
      BY <3>1
    <3>3. algo \in Algorithms /\ algo # "AAASH"
      BY <2>1, <3>1 DEF Inv, TypeOK, Stepped
    <3>4. Waits(in, d) /\ Proper(d)
      BY <3>2, <3>3, Decides DEF Decided
    <3> QED
      BY <2>1, <3>1, <3>2, <3>4, WaitEnds
  <2> QED
    BY <2>1, <2>2, <2>3, <2>4 DEF Next
<1> QED
  BY <1>1, <1>2, InvAlways, PTL DEF Spec
=============================================================================
