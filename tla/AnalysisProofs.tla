--------------------------- MODULE AnalysisProofs ---------------------------
(***************************************************************************)
(* What holds of the answers of Analysis, for any clocks, policies and     *)
(* batches: selections, metrics, verdicts, comparisons, hop timing and the *)
(* ageing of evidence.                                                     *)
(***************************************************************************)
EXTENDS Analysis, Induction

----------------------------------------------------------------------------
(* Parts of sequences of samples. *)
Ascending(s) == \A i, j \in DOMAIN s : i < j => SampleLess(s[i], s[j])

(* A part of a sequence holds what it is asked for, in the order of the whole.*)
LEMMA FilteredIs ==
  ASSUME NEW Y, NEW s \in Seq(Y), NEW T, Once(s)
  PROVE  LET F == Filtered(s, T) IN
         /\ F \in Seq(Y) /\ Once(F) /\ Range(F) = Range(s) \cap T
         /\ IsFiniteSet(Range(F)) /\ Len(F) = Cardinality(Range(F))
         /\ Ascending(s) => Ascending(F)
<1> DEFINE I == {i \in DOMAIN s : s[i] \in T}
           kept == Increasing(I)
           F == Filtered(s, T)
<1>1. Len(s) \in Nat /\ DOMAIN s = 1..Len(s) /\ \A i \in DOMAIN s : s[i] \in Y
  OBVIOUS
<1>2. IsFiniteSet(I) /\ I \subseteq Int
  <2>1. IsFiniteSet(DOMAIN s)
    BY <1>1, FS_Interval
  <2>2. I \in SUBSET DOMAIN s /\ DOMAIN s \subseteq Int
    BY <1>1
  <2> QED
    BY <2>1, <2>2, FS_Subset
<1> HIDE DEF I
<1>3. /\ kept \in Seq(I) /\ Len(kept) = Cardinality(I) /\ Cardinality(I) \in Nat
      /\ Range(kept) = I
      /\ \A k, l \in DOMAIN kept : k < l => kept[k] < kept[l]
  BY <1>2, IncreasingIs
<1>4. F = [k \in DOMAIN kept |-> s[kept[k]]]
  BY DEF Filtered, I
<1> HIDE DEF kept, F
<1>5. /\ DOMAIN kept = 1..Cardinality(I) /\ DOMAIN F = 1..Cardinality(I)
      /\ \A k \in DOMAIN F : /\ kept[k] \in I /\ kept[k] \in DOMAIN s
                             /\ F[k] = s[kept[k]] /\ F[k] \in T /\ F[k] \in Y
  <2>1. DOMAIN kept = 1..Cardinality(I)
    BY <1>3
  <2>2. \A k \in DOMAIN kept : kept[k] \in I
    BY <1>3
  <2>3. \A i \in I : i \in DOMAIN s /\ s[i] \in T /\ s[i] \in Y
    BY <1>1 DEF I
  <2> QED
    BY <1>4, <2>1, <2>2, <2>3
<1>6. F \in Seq(Y)
  <2>1. F \in [1..Cardinality(I) -> Y]
    BY <1>4, <1>5
  <2> QED
    BY <1>3, <2>1
<1>7. Once(F)
  <2>1. ASSUME NEW k \in DOMAIN F, NEW l \in DOMAIN F, F[k] = F[l] PROVE k = l
    <3>1. kept[k] = kept[l]
      BY <1>5, <2>1 DEF Once
    <3>2. kept[k] \in Int /\ kept[l] \in Int
      BY <1>2, <1>5
    <3> QED
      BY <1>3, <1>5, <3>1, <3>2
  <2> QED
    BY <2>1 DEF Once
<1>8. Range(F) = Range(s) \cap T
  <2>1. ASSUME NEW i \in DOMAIN s, s[i] \in T PROVE \E k \in DOMAIN F : F[k] = s[i]
    <3>1. i \in Range(kept)
      BY <1>3, <2>1 DEF I
    <3>2. PICK k \in DOMAIN kept : kept[k] = i
      BY <3>1 DEF Range
    <3> QED
      BY <1>5, <3>2
  <2> QED
    BY <1>5, <2>1 DEF Range
<1>9. IsFiniteSet(Range(F)) /\ Len(F) = Cardinality(Range(F))
  BY <1>6, <1>7, OnceCounts
<1>10. ASSUME Ascending(s) PROVE Ascending(F)
  BY <1>3, <1>5, <1>10 DEF Ascending
<1> QED
  BY <1>6, <1>7, <1>8, <1>9, <1>10 DEF F

LEMMA WrappedFits ==
  ASSUME NEW x \in Int, Fits(x)
  PROVE  Wrapped(x) = x
<1> DEFINE m == 2 * MaxInt + 2
           y == x + MaxInt + 1
<1>1. MaxInt \in Nat
  BY CheckedAssumption
<1>2. m \in Nat \ {0} /\ y \in Nat /\ y < m
  BY <1>1 DEF Fits
<1>3. Wrapped(x) = (y % m) - MaxInt - 1
  BY DEF Wrapped
<1> HIDE DEF m
<1>4. y % m = y
  <2> HIDE DEF y
  <2> QED
    BY <1>2
<1> QED
  BY <1>1, <1>3, <1>4

----------------------------------------------------------------------------
(* Metrics.  A number, and two ways to write it as a fraction.               *)
Number(f) ==
  /\ f.num \in Int /\ f.den \in Nat \ {0} /\ f.root \in BOOLEAN

Alike(f, g) == Number(f) /\ Number(g) /\ SameValue(f, g)

LEMMA AlikeFractions ==
  ASSUME NEW n \in Int, NEW d \in Nat \ {0}, NEW m \in Int, NEW e \in Nat \ {0}, n * e = m * d
  PROVE  Alike(Fraction(n, d), Fraction(m, e))
<1>1. /\ Fraction(n, d) = [num |-> n, den |-> d, root |-> FALSE]
      /\ Fraction(m, e) = [num |-> m, den |-> e, root |-> FALSE]
  BY DEF Fraction
<1> QED
  BY <1>1 DEF Alike, Number, SameValue

(* A root of alike numbers. *)
LEMMA AlikeRoots ==
  ASSUME NEW f, NEW g, f.num \in Int, f.den \in Nat \ {0}, g.num \in Int, g.den \in Nat \ {0},
         f \in [num : Int, den : Int, root : BOOLEAN], g \in [num : Int, den : Int, root : BOOLEAN],
         f.num * g.den = g.num * f.den
  PROVE  Alike(Root(f), Root(g))
<1>1. /\ Root(f).num = f.num /\ Root(f).den = f.den /\ Root(f).root = TRUE
      /\ Root(g).num = g.num /\ Root(g).den = g.den /\ Root(g).root = TRUE
  BY DEF Root
<1> QED
  BY <1>1 DEF Alike, Number, SameValue

LEMMA RankedIs ==
  ASSUME NEW n \in Nat, NEW s \in [1..n -> Int], NEW k \in Int, NEW v, HasRank(s, v, k)
  PROVE  Ranked(s, k) = v
<1>1. \A w : HasRank(s, w, k) => w = v
  BY RankIsOne
<1>2. \A w \in Range(s) :
        HasRank(s, w, k) <=> /\ Cardinality({i \in DOMAIN s : s[i] < w}) < k
                             /\ Cardinality({i \in DOMAIN s : s[i] <= w}) >= k
  BY DEF HasRank, Below, UpTo
<1>3. v \in Range(s)
  BY DEF HasRank
<1> QED
  BY <1>1, <1>2, <1>3 DEF Ranked

(* Type 7 by sorting and type 7 by counting, for the three quantiles the     *)
(* table asks for.                                                           *)
LEMMA QuantileIs ==
  ASSUME NEW n \in Nat \ {0}, NEW s \in [1..n -> Int],
         NEW a \in Nat, NEW b \in Nat, NEW c \in Nat,
         <<a, b, c>> \in {<<1, 2, 50>>, <<19, 20, 95>>, <<99, 100, 99>>}
  PROVE  Alike(QuantileOf(s, <<a, b>>), Percentile(s, c))
<1> DEFINE t == Sorted(s)
           lower == (a * (n - 1)) \div b
           rest == (a * (n - 1)) % b
           high == (c * (n - 1)) \div 100
           part == (c * (n - 1)) % 100
<1>1. /\ t \in [1..n -> Int] /\ Len(t) = n /\ Len(s) = n
      /\ \A k \in 1..n : Ranked(s, k) = t[k]
  <2>1. t \in [1..n -> Int] /\ Len(t) = n /\ \A k \in 1..n : HasRank(s, t[k], k)
    BY SortedIs
  <2> HIDE DEF t
  <2>2. ASSUME NEW k \in 1..n PROVE Ranked(s, k) = t[k]
    <3>1. k \in Int /\ HasRank(s, t[k], k)
      BY <2>1
    <3> QED
      BY <3>1, RankedIs
  <2> QED
    BY <2>1, <2>2
<1>2. QuantileOf(s, <<a, b>>) =
        IF lower + 1 >= n THEN Fraction(t[n], 1)
        ELSE Fraction(t[lower + 1] * b + rest * (t[lower + 2] - t[lower + 1]), b)
  BY <1>1 DEF QuantileOf
<1>3. Percentile(s, c) =
        LET x == Ranked(s, high + 1)
            y == IF part = 0 THEN x ELSE Ranked(s, high + 2)
        IN Fraction(100 * x + part * (y - x), 100)
  BY <1>1 DEF Percentile
<1>4. \E k \in Nat :
        /\ b * k = 100 /\ b \in Nat \ {0}
        /\ lower \in Nat /\ rest \in Nat /\ high = lower /\ part = k * rest
        /\ IF lower + 1 >= n THEN n = 1 /\ lower = 0 /\ rest = 0 ELSE lower + 2 \in 1..n
  <2>1. CASE a = 1 /\ b = 2 /\ c = 50
    <3>1. /\ lower = (n - 1) \div 2 /\ rest = (n - 1) % 2
          /\ high = (50 * (n - 1)) \div 100 /\ part = (50 * (n - 1)) % 100
      BY <2>1
    <3> QED
      BY <2>1, <3>1
  <2>2. CASE a = 19 /\ b = 20 /\ c = 95
    <3>1. /\ lower = (19 * (n - 1)) \div 20 /\ rest = (19 * (n - 1)) % 20
          /\ high = (95 * (n - 1)) \div 100 /\ part = (95 * (n - 1)) % 100
      BY <2>2
    <3> QED
      BY <2>2, <3>1
  <2>3. CASE a = 99 /\ b = 100 /\ c = 99
    <3>1. /\ lower = (99 * (n - 1)) \div 100 /\ rest = (99 * (n - 1)) % 100
          /\ high = (99 * (n - 1)) \div 100 /\ part = (99 * (n - 1)) % 100
      BY <2>3
    <3> QED
      BY <2>3, <3>1
  <2> QED
    BY <2>1, <2>2, <2>3
<1> HIDE DEF t, lower, rest, high, part
<1>5. PICK k \in Nat :
        /\ b * k = 100 /\ b \in Nat \ {0}
        /\ lower \in Nat /\ rest \in Nat /\ high = lower /\ part = k * rest
        /\ IF lower + 1 >= n THEN n = 1 /\ lower = 0 /\ rest = 0 ELSE lower + 2 \in 1..n
  BY <1>4
<1>6. CASE lower + 1 >= n
  <2>1. n = 1 /\ part = 0 /\ high + 1 = 1 /\ t[1] \in Int
    BY <1>1, <1>5, <1>6
  <2>2. QuantileOf(s, <<a, b>>) = Fraction(t[1], 1) /\ Percentile(s, c) = Fraction(100 * t[1], 100)
    BY <1>1, <1>2, <1>3, <1>6, <2>1
  <2> QED
    BY <2>1, <2>2, AlikeFractions
<1>7. CASE ~(lower + 1 >= n)
  <2> DEFINE x == t[lower + 1]
             y == t[lower + 2]
             d == y - x
  <2>1. lower + 1 \in 1..n /\ lower + 2 \in 1..n /\ x \in Int /\ y \in Int /\ d \in Int
    BY <1>1, <1>5, <1>7
  <2>2. QuantileOf(s, <<a, b>>) = Fraction(x * b + rest * d, b)
    BY <1>2, <1>7
  <2>3. Percentile(s, c) = Fraction(100 * x + part * d, 100)
    <3>1. high + 1 = lower + 1 /\ high + 2 = lower + 2
      BY <1>5
    <3>2. Ranked(s, high + 1) = x /\ Ranked(s, high + 2) = y
      BY <1>1, <2>1, <3>1
    <3> HIDE DEF x, y
    <3>3. CASE part = 0
      <4>1. 100 * x + part * (x - x) = 100 * x + part * d
        BY <2>1, <3>3
      <4> QED
        BY <1>3, <3>2, <3>3, <4>1
    <3>4. CASE part # 0
      BY <1>3, <3>2, <3>4
    <3> QED
      BY <3>3, <3>4
  <2> HIDE DEF x, y, d
  <2>4. (x * b + rest * d) * 100 = (100 * x + part * d) * b
    <3> DEFINE e == rest * d
    <3>1. e \in Int /\ b \in Int /\ k \in Int
      BY <1>5, <2>1
    <3>2. part * d = k * e
      BY <1>5, <2>1
    <3> HIDE DEF e
    <3>3. (100 * x + k * e) * b = 100 * x * b + (b * k) * e
      BY <2>1, <3>1
    <3>4. (100 * x + k * e) * b = 100 * x * b + 100 * e
      BY <1>5, <3>3
    <3>5. (x * b + e) * 100 = 100 * x * b + 100 * e
      BY <2>1, <3>1
    <3> QED
      BY <3>2, <3>4, <3>5 DEF e
  <2>5. x * b + rest * d \in Int /\ 100 * x + part * d \in Int
    BY <1>5, <2>1
  <2> QED
    BY <1>5, <2>2, <2>3, <2>4, <2>5, AlikeFractions
<1> QED
  BY <1>6, <1>7

(* The variance of deviations and that of pairs.                             *)
LEMMA VarianceIs ==
  ASSUME NEW n \in Nat, n >= 2, NEW s \in [1..n -> Int]
  PROVE  \E v, w \in Int :
           /\ SampleVarianceOf(s) = Fraction(v, n * n * (n - 1))
           /\ Variance(s) = Fraction(w, n * (n - 1))
           /\ v = n * w
           /\ n * n * (n - 1) \in Nat \ {0} /\ n * (n - 1) \in Nat \ {0}
<1> DEFINE total == Sum(s)
           d == [i \in 1..n |-> (n * s[i] - total) * (n * s[i] - total)]
           p == [i \in 1..n |-> Sum([j \in 1..(i - 1) |-> (s[i] - s[j]) * (s[i] - s[j])])]
<1>1. Len(s) = n
  OBVIOUS
<1>2. SampleVarianceOf(s) = Fraction(Sum(d), n * n * (n - 1))
  BY <1>1 DEF SampleVarianceOf
<1>3. Variance(s) = Fraction(Sum(p), n * (n - 1))
  BY <1>1 DEF Variance, Squared
<1>4. Sum(d) \in Int /\ Sum(p) \in Int /\ Sum(d) = n * Sum(p)
  BY VarianceByPairs
<1> HIDE DEF d, p
<1>5. n * n * (n - 1) \in Nat \ {0} /\ n * (n - 1) \in Nat \ {0}
  <2> DEFINE k == n - 1
             m == n * k
  <2>1. k \in Nat \ {0} /\ n \in Nat \ {0}
    OBVIOUS
  <2>2. \A x, y \in Nat \ {0} : x * y \in Nat \ {0}
    OBVIOUS
  <2>3. n * n * (n - 1) = n * (n * (n - 1))
    OBVIOUS
  <2>4. m \in Nat \ {0}
    <3> HIDE DEF k
    <3> QED
      BY <2>1, <2>2
  <2>5. n * m \in Nat \ {0}
    <3> HIDE DEF m
    <3> QED
      BY <2>1, <2>2, <2>4
  <2> QED
    BY <2>3, <2>4, <2>5
<1> QED
  BY <1>2, <1>3, <1>4, <1>5

LEMMA VariancesAlike ==
  ASSUME NEW n \in Nat, n >= 2, NEW s \in [1..n -> Int]
  PROVE  /\ Alike(SampleVarianceOf(s), Variance(s))
         /\ Alike(Root(SampleVarianceOf(s)), Root(Variance(s)))
<1>1. PICK v, w \in Int :
        /\ SampleVarianceOf(s) = Fraction(v, n * n * (n - 1))
        /\ Variance(s) = Fraction(w, n * (n - 1))
        /\ v = n * w
        /\ n * n * (n - 1) \in Nat \ {0} /\ n * (n - 1) \in Nat \ {0}
  BY VarianceIs
<1> DEFINE d == n * n * (n - 1)
           e == n * (n - 1)
<1>2. d \in Nat \ {0} /\ e \in Nat \ {0}
  BY <1>1
<1>3. v * e = w * d
  <2>1. (n * w) * (n * (n - 1)) = w * (n * n * (n - 1))
    OBVIOUS
  <2> QED
    BY <1>1, <2>1
<1>4. SampleVarianceOf(s) = Fraction(v, d) /\ Variance(s) = Fraction(w, e)
  BY <1>1
<1> HIDE DEF d, e
<1>5. Alike(SampleVarianceOf(s), Variance(s))
  BY <1>2, <1>3, <1>4, AlikeFractions
<1>6. /\ Fraction(v, d).num = v /\ Fraction(v, d).den = d
      /\ Fraction(w, e).num = w /\ Fraction(w, e).den = e
      /\ Fraction(v, d) \in [num : Int, den : Int, root : BOOLEAN]
      /\ Fraction(w, e) \in [num : Int, den : Int, root : BOOLEAN]
  BY <1>2 DEF Fraction
<1>7. Alike(Root(Fraction(v, d)), Root(Fraction(w, e)))
  BY <1>2, <1>3, <1>6, AlikeRoots
<1> QED
  BY <1>4, <1>5, <1>7

(* The two ways to write the coefficient of variation.                       *)
LEMMA RatiosAlike ==
  ASSUME NEW n \in Nat, n >= 2, NEW s \in [1..n -> Int], Sum(s) > 0
  PROVE  Alike(Estimate("ratio", s), Formula("CoefficientOfVariation", s))
<1>1. PICK v, w \in Int :
        /\ SampleVarianceOf(s) = Fraction(v, n * n * (n - 1))
        /\ Variance(s) = Fraction(w, n * (n - 1))
        /\ v = n * w
        /\ n * n * (n - 1) \in Nat \ {0} /\ n * (n - 1) \in Nat \ {0}
  BY VarianceIs
<1>2. Len(s) = n /\ Sum(s) \in Int
  BY SumType
<1> DEFINE c == Sum(s)
           d == n * n * (n - 1)
           e == n * (n - 1)
           left == Fraction(v * n * n, d * c * c)
           right == Fraction(w * (n * n), e * (c * c))
<1>3. Estimate("ratio", s) = Root(left)
  <2>1. SampleVarianceOf(s).num = v /\ SampleVarianceOf(s).den = d
    BY <1>1 DEF Fraction
  <2> QED
    BY <1>2, <2>1 DEF Estimate
<1>4. Formula("CoefficientOfVariation", s) = Root(right)
  <2>1. Variance(s).num = w /\ Variance(s).den = e
    BY <1>1 DEF Fraction
  <2> QED
    BY <1>2, <2>1 DEF Formula, Squared
<1>5. c \in Nat \ {0} /\ d \in Nat \ {0} /\ e \in Nat \ {0} /\ d = n * e
  BY <1>1, <1>2
<1>6. v = n * w
  BY <1>1
<1> HIDE DEF c, d, e
<1>7. v * n * n \in Int /\ w * (n * n) \in Int
  OBVIOUS
<1>8. d * c * c \in Nat \ {0} /\ e * (c * c) \in Nat \ {0}
  <2>1. \A x, y \in Nat \ {0} : x * y \in Nat \ {0}
    OBVIOUS
  <2>2. d * c \in Nat \ {0} /\ c * c \in Nat \ {0}
    BY <1>5, <2>1
  <2> QED
    BY <1>5, <2>1, <2>2
<1>9. (v * n * n) * (e * (c * c)) = (w * (n * n)) * (d * c * c)
  <2>1. ((n * w) * n * n) * (e * (c * c)) = (w * (n * n)) * ((n * e) * c * c)
    BY <1>5
  <2> QED
    BY <1>5, <1>6, <2>1
<1>10. /\ left.num = v * n * n /\ left.den = d * c * c
       /\ right.num = w * (n * n) /\ right.den = e * (c * c)
       /\ left \in [num : Int, den : Int, root : BOOLEAN]
       /\ right \in [num : Int, den : Int, root : BOOLEAN]
  BY <1>7, <1>8 DEF Fraction
<1> HIDE DEF left, right
<1> QED
  BY <1>3, <1>4, <1>7, <1>8, <1>9, <1>10, AlikeRoots

(* The differences of neighbours add up to that of the ends.                 *)
LEMMA StepsAddUp ==
  ASSUME NEW n \in Nat, n >= 2, NEW s \in [1..n -> Int]
  PROVE  /\ Steps(s) \in [1..(n - 1) -> Int] /\ Len(Steps(s)) = n - 1
         /\ Sum(Steps(s)) = s[n] - s[1]
<1> DEFINE m == n - 1
           t == Steps(s)
<1>1. Len(s) = n /\ m \in Nat
  OBVIOUS
<1>2. t = [i \in 1..m |-> s[i + 1] - s[i]]
  BY <1>1 DEF Steps
<1>3. \A i \in 1..m : s[i + 1] - s[i] \in Int /\ i + 1 \in 1..n /\ i \in 1..n
  BY <1>1
<1>4. t \in [1..m -> Int] /\ Len(t) = m
  <2> HIDE DEF t, m
  <2>1. t \in [1..m -> Int]
    BY <1>2, <1>3
  <2> QED
    BY <1>1, <2>1
<1> HIDE DEF t
<1>5. PICK f \in PartialSums(t, m) : Sum(t) = f[m]
  <2> HIDE DEF m
  <2> QED
    BY <1>1, <1>4, SumIs
<1>6. f \in [0..m -> Int] /\ f[0] = 0 /\ \A i \in 1..m : f[i] = f[i - 1] + t[i]
  BY DEF PartialSums
<1> DEFINE T == {i \in 0..m : f[i] = s[i + 1] - s[1]}
<1>7. 0 \in T
  BY <1>1, <1>6
<1>8. ASSUME NEW i \in 1..m, i - 1 \in T PROVE i \in T
  <2>1. f[i] = f[i - 1] + (s[i + 1] - s[i]) /\ f[i - 1] = s[(i - 1) + 1] - s[1]
    BY <1>2, <1>6, <1>8
  <2>2. (i - 1) + 1 = i /\ i \in 0..m /\ s[i] \in Int /\ s[i + 1] \in Int /\ s[1] \in Int
    BY <1>3
  <2> QED
    BY <2>1, <2>2
<1>9. m \in T
  <2> HIDE DEF T, m
  <2>1. 0..m \subseteq T
    BY <1>1, <1>7, <1>8, AllAlong
  <2> QED
    BY <1>1, <2>1
<1> QED
  BY <1>4, <1>5, <1>9 DEF t

(* Differences that can be negated are what absolute_deltas makes of them.   *)
Negatable(s) == \A i \in DOMAIN Steps(s) : Steps(s)[i] \in -MaxInt..MaxInt

LEMMA JumpsAre ==
  ASSUME NEW n \in Nat, n >= 2, NEW s \in [1..n -> Int], Negatable(s)
  PROVE  /\ Jumps(s) \in [1..(n - 1) -> Int] /\ Len(Jumps(s)) = n - 1
         /\ AbsoluteDeltas(s) = Jumps(s)
<1> DEFINE m == n - 1
           t == Steps(s)
<1>1. Len(s) = n /\ m \in Nat /\ MaxInt \in Nat
  BY CheckedAssumption
<1>2. t \in [1..m -> Int] /\ SignedDeltas(s) = t /\ DOMAIN t = 1..m
  BY StepsAddUp DEF SignedDeltas, Steps
<1>3. \A i \in 1..m : t[i] \in -MaxInt..MaxInt
  BY <1>2 DEF Negatable
<1>4. AbsoluteDeltas(s) = [i \in 1..m |-> IF t[i] < 0 THEN Wrapped(-t[i]) ELSE t[i]]
  BY <1>1, <1>2 DEF AbsoluteDeltas
<1>5. Jumps(s) = [i \in 1..m |-> Magnitude(t[i])]
  BY <1>2 DEF Jumps
<1> HIDE DEF m, t
<1>6. ASSUME NEW i \in 1..m
      PROVE  /\ Magnitude(t[i]) \in Int
             /\ (IF t[i] < 0 THEN Wrapped(-t[i]) ELSE t[i]) = Magnitude(t[i])
  <2> DEFINE d == t[i]
  <2>1. d \in -MaxInt..MaxInt
    BY <1>3
  <2> HIDE DEF d
  <2>2. Fits(-d) /\ -d \in Int
    BY <1>1, <2>1 DEF Fits
  <2>3. Wrapped(-d) = -d
    BY <2>2, WrappedFits
  <2>4. Magnitude(d) \in Int /\ (IF d < 0 THEN Wrapped(-d) ELSE d) = Magnitude(d)
    BY <2>1, <2>3 DEF Magnitude
  <2> QED
    BY <2>4 DEF d
<1>7. AbsoluteDeltas(s) = Jumps(s) /\ Jumps(s) \in [1..m -> Int]
  BY <1>4, <1>5, <1>6
<1>8. Len(Jumps(s)) = m
  BY <1>1, <1>7
<1> QED
  BY <1>7, <1>8 DEF m

(* The greatest and the least, however they are asked for.                   *)
LEMMA ExtremesAre ==
  ASSUME NEW n \in Nat \ {0}, NEW s \in [1..n -> Int]
  PROVE  /\ MaximumOf(s) \in Int /\ MaximumOf(s) = Ranked(s, n)
         /\ MinimumOf(s) \in Int /\ MinimumOf(s) <= MaximumOf(s)
         /\ MaximumOf(s) \in Range(s) /\ MinimumOf(s) \in Range(s)
         /\ \A u \in Range(s) : u \in Int /\ MinimumOf(s) <= u /\ u <= MaximumOf(s)
<1> DEFINE top == Sorted(s)[n]
           bottom == Sorted(s)[1]
<1>1. HasRank(s, top, n) /\ HasRank(s, bottom, 1)
  BY SortedIs
<1> HIDE DEF top, bottom
<1>2. top \in Int /\ top \in Range(s) /\ \A u \in Range(s) : u <= top
  BY <1>1, LastRankIsGreatest
<1>3. bottom \in Int /\ bottom \in Range(s) /\ \A u \in Range(s) : bottom <= u
  BY <1>1, FirstRankIsLeast
<1>4. \A u \in Range(s) : u \in Int
  BY DEF Range
<1>5. MaximumOf(s) \in Range(s) /\ \A u \in Range(s) : MaximumOf(s) >= u
  <2>1. \E v \in Range(s) : \A u \in Range(s) : v >= u
    BY <1>2, <1>4
  <2> QED
    BY <2>1 DEF MaximumOf
<1>6. MinimumOf(s) \in Range(s) /\ \A u \in Range(s) : MinimumOf(s) <= u
  <2>1. \E v \in Range(s) : \A u \in Range(s) : v <= u
    BY <1>3
  <2> QED
    BY <2>1 DEF MinimumOf
<1>7. MaximumOf(s) \in Int /\ MinimumOf(s) \in Int
  BY <1>4, <1>5, <1>6
<1>8. MaximumOf(s) = top
  <2>1. MaximumOf(s) >= top /\ MaximumOf(s) <= top
    BY <1>2, <1>5
  <2> QED
    BY <1>2, <1>7, <2>1
<1>9. Ranked(s, n) = top
  BY <1>1, RankedIs
<1>10. \A u \in Range(s) : u <= MaximumOf(s)
  BY <1>4, <1>5, <1>7
<1> QED
  BY <1>4, <1>5, <1>6, <1>7, <1>8, <1>9, <1>10

(* The differences are those of numbers of 64 bits.                          *)
Spannable(s) == \A u, v \in Range(s) : u - v <= 2 * MaxInt + 1

LEMMA SpanIs ==
  ASSUME NEW n \in Nat \ {0}, NEW s \in [1..n -> Int], Spannable(s)
  PROVE  Alike(PeakToPeakOf(s), Fraction(Spread(s), 1))
<1> DEFINE d == MaximumOf(s) - MinimumOf(s)
           Widest(x) == /\ \E u, v \in Range(s) : x = u - v
                        /\ \A u, v \in Range(s) : x >= u - v
<1>1. /\ MaximumOf(s) \in Int /\ MinimumOf(s) \in Int /\ MinimumOf(s) <= MaximumOf(s)
      /\ MaximumOf(s) \in Range(s) /\ MinimumOf(s) \in Range(s)
      /\ \A u \in Range(s) : u \in Int /\ MinimumOf(s) <= u /\ u <= MaximumOf(s)
  BY ExtremesAre
<1>2. MaxInt \in Nat /\ d <= 2 * MaxInt + 1
  BY <1>1, CheckedAssumption DEF Spannable
<1>3. d \in 0..(2 * MaxInt + 1) /\ Widest(d)
  <2>1. d \in Int /\ d >= 0 /\ d <= 2 * MaxInt + 1
    BY <1>1, <1>2
  <2>2. \A u, v \in Range(s) : d >= u - v
    BY <1>1
  <2> QED
    BY <1>1, <1>2, <2>1, <2>2
<1>4. \A x \in 0..(2 * MaxInt + 1) : Widest(x) => x = d
  <2> TAKE x \in 0..(2 * MaxInt + 1)
  <2> HAVE Widest(x)
  <2> DEFINE hi == MaximumOf(s)
             lo == MinimumOf(s)
  <2>1. x \in Int /\ hi \in Int /\ lo \in Int /\ d = hi - lo /\ hi \in Range(s) /\ lo \in Range(s)
    BY <1>1, <1>2
  <2>2. \A u, v \in Range(s) : x >= u - v
    OBVIOUS
  <2>3. PICK u \in Range(s), v \in Range(s) : x = u - v
    OBVIOUS
  <2>4. u \in Int /\ v \in Int /\ lo <= v /\ u <= hi
    BY <1>1
  <2> HIDE DEF d, Widest, hi, lo
  <2>5. x >= hi - lo
    BY <2>1, <2>2
  <2>6. x <= hi - lo
    BY <2>1, <2>3, <2>4
  <2> QED
    BY <2>1, <2>5, <2>6
<1>5. Spread(s) = d
  <2>1. Spread(s) = CHOOSE x \in 0..(2 * MaxInt + 1) : Widest(x)
    BY DEF Spread
  <2> HIDE DEF Widest, d
  <2> QED
    BY <1>3, <1>4, <2>1
<1>6. PeakToPeakOf(s) = Fraction(d, 1) /\ d \in Int
  BY <1>1 DEF PeakToPeakOf
<1> HIDE DEF d
<1> QED
  BY <1>5, <1>6, AlikeFractions

(* Powers. *)
LEMMA PowerIs ==
  ASSUME NEW b \in Nat \ {0}, NEW n \in Nat
  PROVE  \E f \in [0..n -> Nat \ {0}] :
           /\ f[0] = 1 /\ \A i \in 1..n : f[i] = b * f[i - 1]
           /\ \A i \in 0..n : Power(b, i) = f[i]
<1> DEFINE X == Nat \ {0}
           Runs1(m) == {f \in [0..m -> X] : f[0] = 1 /\ \A i \in 1..m : f[i] = b * f[i - 1]}
<1>1. \A x \in X : b * x \in X
  OBVIOUS
<1>2. ASSUME NEW m \in Nat PROVE Runs1(m) # {}
  <2> DEFINE step == [i \in 1..m |-> [v \in X |-> b * v]]
  <2>1. step \in StepMaps(X, m) /\ 1 \in X
    BY <1>1 DEF StepMaps
  <2> HIDE DEF step, X
  <2>2. PICK f \in [0..m -> X] : f[0] = 1 /\ \A i \in 1..m : f[i] = step[i][f[i - 1]]
    <3>1. Runs(X, 1, m, step) # {}
      BY <2>1, RunExists
    <3> QED
      BY <3>1 DEF Runs
  <2>3. ASSUME NEW i \in 1..m PROVE f[i] = b * f[i - 1]
    <3>1. f[i - 1] \in X
      BY <2>2
    <3> QED
      BY <2>2, <3>1 DEF step
  <2>4. f \in Runs1(m)
    BY <2>2, <2>3
  <2> QED
    BY <2>4
<1>3. ASSUME NEW m \in Nat, NEW f \in Runs1(m) PROVE Power(b, m) = f[m]
  <2> DEFINE power[i \in 0..m] == IF i = 0 THEN 1 ELSE b * power[i - 1]
  <2>1. f \in [0..m -> X] /\ f[0] = 1 /\ \A i \in 1..m : f[i] = b * f[i - 1]
    OBVIOUS
  <2>2. \A i \in 0..m : i # 0 => i \in 1..m
    OBVIOUS
  <2> HIDE DEF X
  <2>3. f = [i \in 0..m |-> IF i = 0 THEN 1 ELSE b * f[i - 1]]
    BY <2>1, <2>2
  <2>4. power = [i \in 0..m |-> IF i = 0 THEN 1 ELSE b * power[i - 1]]
    BY <2>3
  <2>5. Power(b, m) = power[m]
    BY DEF Power
  <2> HIDE DEF power
  <2> DEFINE T == {i \in 0..m : power[i] = f[i]}
  <2>6. 0 \in T
    BY <2>1, <2>4
  <2>7. ASSUME NEW i \in 1..m, i - 1 \in T PROVE i \in T
    <3>1. i \in 0..m /\ i # 0
      OBVIOUS
    <3> QED
      BY <2>1, <2>4, <2>7, <3>1
  <2>8. m \in T
    <3> HIDE DEF T
    <3>1. 0..m \subseteq T
      BY <2>6, <2>7, AllAlong
    <3> QED
      BY <3>1
  <2> QED
    BY <2>5, <2>8
<1>4. PICK f \in Runs1(n) : TRUE
  BY <1>2
<1>5. f \in [0..n -> X] /\ f[0] = 1 /\ \A i \in 1..n : f[i] = b * f[i - 1]
  OBVIOUS
<1>6. ASSUME NEW m \in 0..n PROVE Power(b, m) = f[m]
  <2> DEFINE g == [i \in 0..m |-> f[i]]
  <2>1. m \in Nat /\ \A i \in 1..m : i \in 1..n /\ i \in 0..m /\ i - 1 \in 0..m /\ i - 1 \in 0..n
    OBVIOUS
  <2>2. g \in [0..m -> X] /\ g[0] = 1 /\ \A i \in 1..m : g[i] = b * g[i - 1]
    BY <1>5, <2>1
  <2>3. g[m] = f[m]
    BY <2>1
  <2> HIDE DEF g
  <2>4. Power(b, m) = g[m]
    BY <1>3, <2>1, <2>2
  <2> QED
    BY <2>3, <2>4
<1> QED
  BY <1>5, <1>6

(* The state of the smoothed delta, step by step, and its closed form.       *)
LEMMA SmoothedIs ==
  ASSUME NEW m \in Nat \ {0}, NEW s \in [1..m -> Int]
  PROVE  /\ Ewma16Of(s) = Smoothed(s)
         /\ \E n \in Int, d \in Nat \ {0} : Smoothed(s) = Fraction(n, d)
<1> DEFINE X == [num : Int, den : Int, root : {FALSE}]
           k == m - 1
           next(v, i) == Fraction(15 * v.num + s[i] * v.den, 16 * v.den)
           step == [i \in 1..k |-> [v \in X |-> next(v, i + 1)]]
           state[i \in DOMAIN s] ==
             IF i = 1 THEN Fraction(s[1], 1)
             ELSE Fraction(15 * state[i - 1].num + s[i] * state[i - 1].den,
                           16 * state[i - 1].den)
<1>1. Len(s) = m /\ DOMAIN s = 1..m /\ k \in Nat
  OBVIOUS
<1>2. ASSUME NEW v \in X, NEW i \in 1..m PROVE next(v, i) \in X
  <2>1. v.num \in Int /\ v.den \in Int /\ s[i] \in Int
    OBVIOUS
  <2>2. 15 * v.num + s[i] * v.den \in Int /\ 16 * v.den \in Int
    BY <2>1
  <2> QED
    BY <2>2 DEF Fraction
<1>3. Fraction(s[1], 1) \in X
  BY DEF Fraction
<1>4. PICK g \in [1..m -> X] :
        g[1] = Fraction(s[1], 1) /\ \A i \in 2..m : g[i] = next(g[i - 1], i)
  <2>1. step \in StepMaps(X, k)
    <3>1. \A i \in 1..k : i + 1 \in 1..m
      OBVIOUS
    <3> HIDE DEF X, next
    <3>2. \A i \in 1..k : \A v \in X : next(v, i + 1) \in X
      BY <1>2, <3>1
    <3> QED
      BY <3>2 DEF StepMaps
  <2> HIDE DEF step, X
  <2>2. PICK f \in [0..k -> X] :
          f[0] = Fraction(s[1], 1) /\ \A i \in 1..k : f[i] = step[i][f[i - 1]]
    <3> HIDE DEF k
    <3>1. Runs(X, Fraction(s[1], 1), k, step) # {}
      BY <1>1, <1>3, <2>1, RunExists
    <3> QED
      BY <3>1 DEF Runs
  <2> DEFINE g == [i \in 1..m |-> f[i - 1]]
  <2>3. g \in [1..m -> X] /\ g[1] = Fraction(s[1], 1)
    BY <2>2
  <2>4. ASSUME NEW i \in 2..m PROVE g[i] = next(g[i - 1], i)
    <3>1. /\ i - 1 \in 1..k /\ (i - 1) - 1 \in 0..k /\ i \in 1..m /\ i - 1 \in 1..m
          /\ (i - 1) + 1 = i
      OBVIOUS
    <3>2. f[i - 1] = step[i - 1][f[(i - 1) - 1]] /\ f[(i - 1) - 1] \in X
      BY <2>2, <3>1
    <3> HIDE DEF next
    <3>3. f[i - 1] = next(f[(i - 1) - 1], i)
      BY <3>1, <3>2 DEF step
    <3> QED
      BY <3>1, <3>3
  <2> HIDE DEF g, next
  <2> QED
    BY <2>3, <2>4
<1>5. g = [i \in DOMAIN s |->
             IF i = 1 THEN Fraction(s[1], 1)
             ELSE Fraction(15 * g[i - 1].num + s[i] * g[i - 1].den, 16 * g[i - 1].den)]
  <2>1. \A i \in 1..m : i = 1 \/ i \in 2..m
    OBVIOUS
  <2>2. \A i \in 1..m : g[i] = IF i = 1 THEN Fraction(s[1], 1) ELSE next(g[i - 1], i)
    <3> HIDE DEF next, X
    <3> QED
      BY <1>4, <2>1
  <2> HIDE DEF X
  <2> QED
    BY <1>1, <2>2
<1>6. state = [i \in DOMAIN s |->
                 IF i = 1 THEN Fraction(s[1], 1)
                 ELSE Fraction(15 * state[i - 1].num + s[i] * state[i - 1].den,
                               16 * state[i - 1].den)]
  <2> HIDE DEF X
  <2> QED
    BY <1>5
<1>7. Ewma16Of(s) = state[m]
  BY <1>1 DEF Ewma16Of
<1> HIDE DEF state, step
<1> DEFINE E == {i \in 0..k : state[i + 1] = g[i + 1]}
<1>8. 0 \in E
  BY <1>1, <1>4, <1>6
<1>9. ASSUME NEW i \in 1..k, i - 1 \in E PROVE i \in E
  <2>1. i + 1 \in 1..m /\ i + 1 # 1 /\ (i + 1) - 1 = i /\ (i - 1) + 1 = i /\ i \in 0..k
    OBVIOUS
  <2>2. state[i] = g[i]
    BY <1>9, <2>1
  <2>3. state[i + 1] = next(state[i], i + 1)
    BY <1>1, <1>6, <2>1
  <2>4. g[i + 1] = next(g[i], i + 1)
    <3> HIDE DEF X
    <3> QED
      BY <1>1, <1>5, <2>1
  <2> QED
    BY <2>1, <2>2, <2>3, <2>4
<1>10. Ewma16Of(s) = g[m]
  <2> HIDE DEF E
  <2>1. 0..k \subseteq E
    <3> HIDE DEF k
    <3> QED
      BY <1>1, <1>8, <1>9, AllAlong
  <2>2. k \in E
    BY <1>1, <2>1
  <2> QED
    BY <1>1, <1>7, <2>2 DEF E
<1>11. PICK p \in [0..m -> Nat \ {0}] :
         /\ p[0] = 1 /\ \A i \in 1..m : p[i] = 15 * p[i - 1]
         /\ \A i \in 0..m : Power(15, i) = p[i]
  <2>1. 15 \in Nat \ {0} /\ m \in Nat
    OBVIOUS
  <2> HIDE DEF X, k
  <2> QED
    BY <2>1, PowerIs
<1>12. PICK q \in [0..m -> Nat \ {0}] :
         /\ q[0] = 1 /\ \A i \in 1..m : q[i] = 16 * q[i - 1]
         /\ \A i \in 0..m : Power(16, i) = q[i]
  <2>1. 16 \in Nat \ {0} /\ m \in Nat
    OBVIOUS
  <2> HIDE DEF X, k
  <2> QED
    BY <2>1, PowerIs
<1> DEFINE t == [i \in 1..m |-> p[m - i] * (IF i = 1 THEN 1 ELSE q[i - 2]) * s[i]]
<1>13. Smoothed(s) = Fraction(Sum(t), q[m - 1])
  <2>1. \A i \in 1..m :
          /\ Power(15, m - i) = p[m - i]
          /\ (IF i = 1 THEN 1 ELSE Power(16, i - 2)) = (IF i = 1 THEN 1 ELSE q[i - 2])
    <3>1. \A i \in 1..m : m - i \in 0..m /\ (i # 1 => i - 2 \in 0..m)
      OBVIOUS
    <3> QED
      BY <1>11, <1>12, <3>1
  <2>2. Power(16, m - 1) = q[m - 1]
    BY <1>12
  <2> DEFINE u == [i \in 1..m |-> (Power(15, m - i) * (IF i = 1 THEN 1 ELSE Power(16, i - 2))) * s[i]]
  <2>3. u = t
    BY <2>1
  <2>4. Smoothed(s) = Fraction(Sum(u), Power(16, m - 1))
    BY <1>1 DEF Smoothed
  <2> QED
    BY <2>2, <2>3, <2>4
<1>14. t \in [1..m -> Int]
  <2>1. ASSUME NEW i \in 1..m PROVE t[i] \in Int
    <3> DEFINE u == p[m - i]
               v == IF i = 1 THEN 1 ELSE q[i - 2]
               w == s[i]
    <3>1. m - i \in 0..m /\ (i # 1 => i - 2 \in 0..m)
      OBVIOUS
    <3>2. u \in Int
      BY <1>11, <3>1
    <3>3. v \in Int
      BY <1>12, <3>1
    <3>4. t[i] = u * v * w /\ w \in Int
      OBVIOUS
    <3> HIDE DEF t, u, v, w
    <3>5. u * v * w \in Int
      BY <3>2, <3>3, <3>4
    <3> QED
      BY <3>4, <3>5
  <2> QED
    <3> HIDE DEF t
    <3>1. t = [i \in 1..m |-> t[i]]
      BY DEF t
    <3> QED
      BY <2>1, <3>1
<1>15. PICK f \in PartialSums(t, m) : Sum(t) = f[m]
  <2> HIDE DEF t
  <2> QED
    BY <1>14, SumIs
<1>16. f \in [0..m -> Int] /\ f[0] = 0 /\ \A i \in 1..m : f[i] = f[i - 1] + t[i]
  BY DEF PartialSums
<1> DEFINE T == {i \in 0..k : f[i + 1] = p[m - (i + 1)] * g[i + 1].num /\ g[i + 1].den = q[i]}
<1>17. 0 \in T
  <2>1. f[1] = f[0] + t[1] /\ t[1] = p[m - 1] * 1 * s[1] /\ p[m - 1] \in Int /\ s[1] \in Int
    BY <1>1, <1>11, <1>16
  <2>2. g[1].num = s[1] /\ g[1].den = 1
    BY <1>4 DEF Fraction
  <2>3. f[1] = p[m - 1] * s[1]
    BY <1>16, <2>1
  <2> QED
    BY <1>1, <1>12, <2>2, <2>3
<1>18. ASSUME NEW i \in 1..k, i - 1 \in T PROVE i \in T
  <2> DEFINE j == i + 1
             a == g[i].num
             d == g[i].den
             x == s[j]
             r == p[m - j]
  <2>1. /\ j \in 2..m /\ j \in 1..m /\ i \in 1..m /\ j - 1 = i /\ (i - 1) + 1 = i /\ i \in 0..k
        /\ j - 2 = i - 1 /\ m - i \in 1..m /\ (m - i) - 1 = m - j /\ m - j \in 0..m /\ i - 1 \in 0..m
        /\ j # 1
    OBVIOUS
  <2>2. a \in Int /\ d \in Int /\ x \in Int /\ r \in Int
    <3>1. g[i] \in X
      <4> HIDE DEF X
      <4> QED
        BY <1>4, <2>1
    <3>2. a \in Int /\ d \in Int
      BY <3>1
    <3>3. x \in Int
      BY <2>1
    <3>4. r \in Int
      BY <1>11, <2>1
    <3> HIDE DEF a, d, x, r
    <3> QED
      BY <3>2, <3>3, <3>4
  <2>3. f[i] = p[m - i] * a /\ d = q[i - 1]
    BY <1>18, <2>1
  <2>4. p[m - i] = 15 * r
    BY <1>11, <2>1
  <2>5. q[i] = 16 * d
    BY <1>12, <2>1, <2>3
  <2>6. g[j].num = 15 * a + x * d /\ g[j].den = 16 * d
    <3>1. g[j] = next(g[i], j)
      <4> HIDE DEF X, next
      <4> QED
        BY <1>4, <2>1
    <3> QED
      BY <3>1 DEF Fraction
  <2>7. t[j] = r * d * x
    BY <2>1, <2>3
  <2>8. f[j] = f[i] + t[j]
    BY <1>16, <2>1
  <2> HIDE DEF t, a, d, x, r
  <2>9. (15 * r) * a + r * d * x = r * (15 * a + x * d)
    BY <2>2
  <2>10. f[j] = r * g[j].num
    BY <2>3, <2>4, <2>6, <2>7, <2>8, <2>9
  <2> QED
    BY <2>1, <2>5, <2>6, <2>10 DEF r
<1>19. k \in T
  <2> HIDE DEF T, k
  <2>1. 0..k \subseteq T
    BY <1>1, <1>17, <1>18, AllAlong
  <2> QED
    BY <1>1, <2>1
<1>20. g[m].num = Sum(t) /\ g[m].den = q[m - 1] /\ g[m].num \in Int
  <2>1. k + 1 = m /\ m - (k + 1) = 0 /\ m \in 1..m
    OBVIOUS
  <2>2. f[m] = p[0] * g[m].num /\ g[m].den = q[k] /\ g[m].num \in Int
    BY <1>4, <1>19, <2>1
  <2> HIDE DEF t
  <2> QED
    BY <1>11, <1>15, <2>2
<1>21. g[m] = Fraction(Sum(t), q[m - 1]) /\ q[m - 1] \in Nat \ {0} /\ Sum(t) \in Int
  <2>1. g[m] \in X
    <3>1. m \in 1..m
      OBVIOUS
    <3> HIDE DEF X
    <3> QED
      BY <1>4, <3>1
  <2> HIDE DEF t
  <2>2. g[m] = [num |-> g[m].num, den |-> g[m].den, root |-> FALSE]
    BY <2>1
  <2> QED
    BY <1>12, <1>20, <2>2 DEF Fraction
<1> QED
  BY <1>10, <1>13, <1>21

(* The table, and what an estimator is given.                                *)
LEMMA TableIs ==
  /\ MetricKey = {"AbsoluteDeltaMean", "AbsoluteDeltaMedian", "AbsoluteDeltaP95",
                  "AbsoluteDeltaMax", "AbsoluteDeltaEwma16", "IpdvMean", "IpdvStdDev",
                  "SampleVariance", "SampleStdDev", "CoefficientOfVariation",
                  "MeanAbsoluteDeviation", "MedianAbsoluteDeviation", "PeakToPeak",
                  "InterquartileRange", "LatencyMean", "LatencyP50", "LatencyP95", "LatencyP99"}
  /\ Definition["AbsoluteDeltaMean"] = Def("mean", "absolute", 2)
  /\ Definition["AbsoluteDeltaMedian"] = Def("median", "absolute", 2)
  /\ Definition["AbsoluteDeltaP95"] = Def("p95", "absolute", 2)
  /\ Definition["AbsoluteDeltaMax"] = Def("maximum", "absolute", 2)
  /\ Definition["AbsoluteDeltaEwma16"] = Def("ewma16", "absolute", 2)
  /\ Definition["IpdvMean"] = Def("mean", "signed", 2)
  /\ Definition["IpdvStdDev"] = Def("deviation", "signed", 3)
  /\ Definition["SampleVariance"] = Def("variance", "latency", 2)
  /\ Definition["SampleStdDev"] = Def("deviation", "latency", 2)
  /\ Definition["CoefficientOfVariation"] = Def("ratio", "latency", 2)
  /\ Definition["MeanAbsoluteDeviation"] = Def("mean", "latency", 1)
  /\ Definition["MedianAbsoluteDeviation"] = Def("median", "latency", 1)
  /\ Definition["PeakToPeak"] = Def("span", "latency", 1)
  /\ Definition["InterquartileRange"] = Def("span", "latency", 2)
  /\ Definition["LatencyMean"] = Def("mean", "latency", 1)
  /\ Definition["LatencyP50"] = Def("p50", "latency", 1)
  /\ Definition["LatencyP95"] = Def("p95", "latency", 1)
  /\ Definition["LatencyP99"] = Def("p99", "latency", 1)
BY DEF MetricKey, Definition

Terms(key, xs) ==
  CASE Definition[key].input = "latency"  -> xs
    [] Definition[key].input = "absolute" -> AbsoluteDeltas(xs)
    [] Definition[key].input = "signed"   -> SignedDeltas(xs)

(* What makes the formula of a metric one of the readings.                   *)
Meaningful(key, xs) ==
  /\ Len(xs) >= Definition[key].min_samples
  /\ Definition[key].input = "absolute" => Negatable(xs)
  /\ key = "PeakToPeak" => Spannable(xs)
  /\ key = "CoefficientOfVariation" => Sum(xs) > 0

LEMMA QuantilesAlike ==
  ASSUME NEW n \in Nat \ {0}, NEW s \in [1..n -> Int]
  PROVE  /\ Alike(Estimate("median", s), Percentile(s, 50))
         /\ Alike(Estimate("p50", s), Percentile(s, 50))
         /\ Alike(Estimate("p95", s), Percentile(s, 95))
         /\ Alike(Estimate("p99", s), Percentile(s, 99))
<1>1. Alike(QuantileOf(s, <<1, 2>>), Percentile(s, 50))
  BY QuantileIs
<1>2. Alike(QuantileOf(s, <<19, 20>>), Percentile(s, 95))
  BY QuantileIs
<1>3. Alike(QuantileOf(s, <<99, 100>>), Percentile(s, 99))
  BY QuantileIs
<1> QED
  BY <1>1, <1>2, <1>3 DEF Estimate

LEMMA MeansAlike ==
  ASSUME NEW n \in Nat \ {0}, NEW s \in [1..n -> Int]
  PROVE  Estimate("mean", s) = Fraction(Sum(s), n) /\ Alike(Estimate("mean", s), Mean(s))
<1>1. Len(s) = n /\ Sum(s) \in Int
  BY SumType
<1>2. Estimate("mean", s) = Fraction(Sum(s), n) /\ Mean(s) = Fraction(Sum(s), n)
  BY <1>1 DEF Estimate, MeanOf, Mean
<1>3. Alike(Fraction(Sum(s), n), Fraction(Sum(s), n))
  BY <1>1, AlikeFractions
<1> QED
  BY <1>2, <1>3

(* The metrics over the differences of neighbours.                           *)
LEMMA DifferencesAlike ==
  ASSUME NEW n \in Nat, NEW s \in [1..n -> Int], NEW key \in MetricKey,
         Definition[key].input # "latency", Meaningful(key, s)
  PROVE  Alike(Estimate(Definition[key].estimator, Terms(key, s)), Formula(key, s))
<1> DEFINE m == n - 1
<1>1. Len(s) = n
  OBVIOUS
<1>2. CASE Definition[key].input = "absolute"
  <2>1. key \in {"AbsoluteDeltaMean", "AbsoluteDeltaMedian", "AbsoluteDeltaP95",
                 "AbsoluteDeltaMax", "AbsoluteDeltaEwma16"}
    BY <1>2, TableIs DEF Def
  <2>2. n >= 2 /\ Negatable(s)
    BY <1>1, <1>2, <2>1, TableIs DEF Def, Meaningful
  <2>3. /\ m \in Nat \ {0} /\ Jumps(s) \in [1..m -> Int] /\ Len(Jumps(s)) = m
        /\ Terms(key, s) = Jumps(s)
    BY <1>2, <2>2, JumpsAre DEF Terms
  <2> DEFINE t == Jumps(s)
  <2> HIDE DEF m, t
  <2>4. CASE key = "AbsoluteDeltaMean"
    <3>1. Formula(key, s) = Mean(t) /\ Definition[key].estimator = "mean"
      BY <2>4, TableIs DEF Formula, Def, t
    <3> QED
      BY <2>3, <3>1, MeansAlike DEF t
  <2>5. CASE key = "AbsoluteDeltaMedian"
    <3>1. Formula(key, s) = Percentile(t, 50) /\ Definition[key].estimator = "median"
      BY <2>5, TableIs DEF Formula, Def, t
    <3> QED
      BY <2>3, <3>1, QuantilesAlike DEF t
  <2>6. CASE key = "AbsoluteDeltaP95"
    <3>1. Formula(key, s) = Percentile(t, 95) /\ Definition[key].estimator = "p95"
      BY <2>6, TableIs DEF Formula, Def, t
    <3> QED
      BY <2>3, <3>1, QuantilesAlike DEF t
  <2>7. CASE key = "AbsoluteDeltaMax"
    <3>1. /\ Formula(key, s) = Fraction(Ranked(t, n - 1), 1)
          /\ Definition[key].estimator = "maximum"
      BY <1>1, <2>7, TableIs DEF Formula, Def, t
    <3>2. MaximumOf(t) \in Int /\ MaximumOf(t) = Ranked(t, m)
      BY <2>3, ExtremesAre DEF t
    <3>3. Estimate("maximum", t) = Fraction(MaximumOf(t), 1)
      BY DEF Estimate
    <3>4. Alike(Fraction(MaximumOf(t), 1), Fraction(MaximumOf(t), 1))
      BY <3>2, AlikeFractions
    <3> QED
      BY <2>3, <3>1, <3>2, <3>3, <3>4 DEF m, t
  <2>8. CASE key = "AbsoluteDeltaEwma16"
    <3>1. Formula(key, s) = Smoothed(t) /\ Definition[key].estimator = "ewma16"
      BY <2>8, TableIs DEF Formula, Def, t
    <3>2. Ewma16Of(t) = Smoothed(t)
      BY <2>3, SmoothedIs DEF t
    <3>3. PICK v \in Int, d \in Nat \ {0} : Smoothed(t) = Fraction(v, d)
      BY <2>3, SmoothedIs DEF t
    <3>4. Estimate("ewma16", t) = Fraction(v, d)
      BY <3>2, <3>3 DEF Estimate
    <3>5. Alike(Fraction(v, d), Fraction(v, d))
      BY AlikeFractions
    <3> QED
      BY <2>3, <3>1, <3>3, <3>4, <3>5 DEF t
  <2> QED
    BY <2>1, <2>4, <2>5, <2>6, <2>7, <2>8
<1>3. CASE Definition[key].input = "signed"
  <2>1. key \in {"IpdvMean", "IpdvStdDev"}
    BY <1>3, TableIs DEF Def
  <2>2. n >= 2 /\ (key = "IpdvStdDev" => n >= 3)
    BY <1>1, <2>1, TableIs DEF Def, Meaningful
  <2> DEFINE t == Steps(s)
  <2>3. /\ m \in Nat \ {0} /\ t \in [1..m -> Int] /\ Len(t) = m
        /\ Terms(key, s) = t /\ Sum(t) = s[n] - s[1]
    <3>1. SignedDeltas(s) = Steps(s)
      BY DEF SignedDeltas, Steps
    <3>2. Terms(key, s) = SignedDeltas(s)
      BY <1>3 DEF Terms
    <3> QED
      BY <2>2, <3>1, <3>2, StepsAddUp
  <2> HIDE DEF m, t
  <2>4. CASE key = "IpdvMean"
    <3>1. /\ Formula(key, s) = Fraction(s[n] - s[1], m)
          /\ Definition[key].estimator = "mean"
      BY <1>1, <2>4, TableIs DEF Formula, Def, m
    <3>2. Estimate("mean", t) = Fraction(Sum(t), m) /\ Alike(Estimate("mean", t), Mean(t))
      BY <2>3, MeansAlike
    <3>3. Alike(Fraction(Sum(t), m), Fraction(Sum(t), m))
      BY <2>3, SumType, AlikeFractions
    <3> QED
      BY <2>3, <3>1, <3>2, <3>3
  <2>5. CASE key = "IpdvStdDev"
    <3>1. Formula(key, s) = Root(Variance(t)) /\ Definition[key].estimator = "deviation"
      BY <2>5, TableIs DEF Formula, Def, t
    <3>2. m \in Nat /\ m >= 2
      BY <2>2, <2>5 DEF m
    <3>3. Alike(Root(SampleVarianceOf(t)), Root(Variance(t)))
      BY <2>3, <3>2, VariancesAlike
    <3> QED
      BY <2>3, <3>1, <3>3 DEF Estimate
  <2> QED
    BY <2>1, <2>4, <2>5
<1>4. Definition[key].input \in {"absolute", "signed"}
  BY TableIs DEF Def
<1> QED
  BY <1>2, <1>3, <1>4

(* Every metric but the three whose formula it does not follow.              *)
LEMMA MetricIs ==
  ASSUME NEW n \in Nat, NEW s \in [1..n -> Int], NEW key \in MetricKey \ Misdeclared,
         Meaningful(key, s)
  PROVE  Alike(Estimate(Definition[key].estimator, Terms(key, s)), Formula(key, s))
<1>1. CASE Definition[key].input # "latency"
  BY <1>1, DifferencesAlike
<1>2. CASE Definition[key].input = "latency"
  <2>1. Len(s) = n /\ Terms(key, s) = s
    BY <1>2 DEF Terms
  <2>2. key \in {"SampleVariance", "SampleStdDev", "CoefficientOfVariation", "PeakToPeak",
                 "LatencyMean", "LatencyP50", "LatencyP95", "LatencyP99"}
    BY <1>2, TableIs DEF Def, Misdeclared
  <2>3. n \in Nat \ {0} /\ (key \in {"SampleVariance", "SampleStdDev", "CoefficientOfVariation"} => n >= 2)
    BY <2>1, <2>2, TableIs DEF Def, Meaningful
  <2>4. CASE key = "SampleVariance"
    <3>1. Formula(key, s) = Variance(s) /\ Definition[key].estimator = "variance"
      BY <2>4, TableIs DEF Formula, Def
    <3>2. Estimate("variance", s) = SampleVarianceOf(s)
      BY DEF Estimate
    <3> QED
      BY <2>1, <2>3, <2>4, <3>1, <3>2, VariancesAlike
  <2>5. CASE key = "SampleStdDev"
    <3>1. Formula(key, s) = Root(Variance(s)) /\ Definition[key].estimator = "deviation"
      BY <2>5, TableIs DEF Formula, Def
    <3>2. Estimate("deviation", s) = Root(SampleVarianceOf(s))
      BY DEF Estimate
    <3> QED
      BY <2>1, <2>3, <2>5, <3>1, <3>2, VariancesAlike
  <2>6. CASE key = "CoefficientOfVariation"
    <3>1. Definition[key].estimator = "ratio" /\ Sum(s) > 0
      BY <2>6, TableIs DEF Def, Meaningful
    <3> QED
      BY <2>1, <2>3, <2>6, <3>1, RatiosAlike
  <2>7. CASE key = "PeakToPeak"
    <3>1. Formula(key, s) = Fraction(Spread(s), 1) /\ Definition[key].estimator = "span"
      BY <2>7, TableIs DEF Formula, Def
    <3>2. Estimate("span", s) = PeakToPeakOf(s) /\ Spannable(s)
      BY <2>7 DEF Estimate, Meaningful
    <3> QED
      BY <2>1, <2>3, <3>1, <3>2, SpanIs
  <2>8. CASE key = "LatencyMean"
    <3>1. Formula(key, s) = Mean(s) /\ Definition[key].estimator = "mean"
      BY <2>8, TableIs DEF Formula, Def
    <3> QED
      BY <2>1, <2>3, <3>1, MeansAlike
  <2>9. CASE key = "LatencyP50"
    <3>1. Formula(key, s) = Percentile(s, 50) /\ Definition[key].estimator = "p50"
      BY <2>9, TableIs DEF Formula, Def
    <3> QED
      BY <2>1, <2>3, <3>1, QuantilesAlike
  <2>10. CASE key = "LatencyP95"
    <3>1. Formula(key, s) = Percentile(s, 95) /\ Definition[key].estimator = "p95"
      BY <2>10, TableIs DEF Formula, Def
    <3> QED
      BY <2>1, <2>3, <3>1, QuantilesAlike
  <2>11. CASE key = "LatencyP99"
    <3>1. Formula(key, s) = Percentile(s, 99) /\ Definition[key].estimator = "p99"
      BY <2>11, TableIs DEF Formula, Def
    <3> QED
      BY <2>1, <2>3, <3>1, QuantilesAlike
  <2> QED
    BY <2>2, <2>4, <2>5, <2>6, <2>7, <2>8, <2>9, <2>10, <2>11
<1> QED
  BY <1>1, <1>2

(* When a metric has a value, and which.                                     *)
Measurable(key, xs) ==
  /\ Len(xs) >= Definition[key].min_samples
  /\ Definition[key].input # "latency" => \A i \in DOMAIN Steps(xs) : Fits(Steps(xs)[i])
  /\ key = "CoefficientOfVariation" => Sum(xs) > 0

LEMMA ComputeIs ==
  ASSUME NEW key \in MetricKey, NEW xs \in Seq(Int)
  PROVE  /\ Compute(key, xs).code = "ok" <=> Measurable(key, xs)
         /\ Measurable(key, xs) =>
              Compute(key, xs) =
                Computed(Estimate(Definition[key].estimator, Terms(key, xs)),
                         Len(Terms(key, xs)))
<1> DEFINE d == Definition[key]
           n == Len(xs)
           overflow == \E i \in 1..(n - 1) : ~Fits(SignedDeltas(xs)[i])
           value == Computed(Estimate(d.estimator, Terms(key, xs)), Len(Terms(key, xs)))
<1>1. n \in Nat /\ xs \in [1..n -> Int] /\ (xs = <<>> <=> n = 0)
  BY EmptySeq
<1>2. d.min_samples \in Nat \ {0} /\ (d.estimator = "ratio" <=> key = "CoefficientOfVariation")
  BY TableIs DEF Def
<1>3. SignedDeltas(xs) = Steps(xs) /\ DOMAIN Steps(xs) = 1..(n - 1)
  BY DEF SignedDeltas, Steps
<1>4. Compute(key, xs) =
        CASE xs = <<>> -> Failed("no_evidence")
          [] n \in 1..(d.min_samples - 1) -> Failed("insufficient_evidence")
          [] OTHER ->
               IF d.input # "latency" /\ overflow THEN Failed("overflow")
               ELSE IF d.estimator = "ratio" /\ Sum(xs) <= 0 THEN Failed("unsupported")
               ELSE value
  BY DEF Compute, Terms
<1>5. value.code = "ok" /\ \A c : Failed(c).code = c
  BY DEF Computed, Failed
<1>6. Sum(xs) \in Int
  BY <1>1, SumType
<1>7. overflow <=> ~\A i \in DOMAIN Steps(xs) : Fits(Steps(xs)[i])
  BY <1>3
<1>8. Measurable(key, xs) <=>
        /\ n >= d.min_samples
        /\ d.input # "latency" => ~overflow
        /\ key = "CoefficientOfVariation" => Sum(xs) > 0
  BY <1>7 DEF Measurable
<1> HIDE DEF d, n, overflow, value
<1>9. CASE n < d.min_samples
  <2>1. xs = <<>> \/ (xs # <<>> /\ n \in 1..(d.min_samples - 1))
    BY <1>1, <1>2, <1>9
  <2>2. Compute(key, xs).code \in {"no_evidence", "insufficient_evidence"}
    BY <1>1, <1>4, <1>5, <2>1
  <2>3. ~Measurable(key, xs)
    BY <1>1, <1>2, <1>8, <1>9
  <2> QED
    BY <2>2, <2>3
<1>10. CASE n >= d.min_samples
  <2>1. xs # <<>> /\ n \notin 1..(d.min_samples - 1)
    BY <1>1, <1>2, <1>10
  <2>2. Compute(key, xs) =
          IF d.input # "latency" /\ overflow THEN Failed("overflow")
          ELSE IF d.estimator = "ratio" /\ Sum(xs) <= 0 THEN Failed("unsupported")
          ELSE value
    BY <1>4, <2>1
  <2>3. (d.input # "latency" /\ overflow) \/ (d.estimator = "ratio" /\ Sum(xs) <= 0)
          => Compute(key, xs).code # "ok" /\ ~Measurable(key, xs)
    BY <1>2, <1>5, <1>6, <1>8, <2>2
  <2>4. ~(d.input # "latency" /\ overflow) /\ ~(d.estimator = "ratio" /\ Sum(xs) <= 0)
          => Compute(key, xs) = value /\ Measurable(key, xs)
    BY <1>2, <1>6, <1>8, <1>10, <2>2
  <2> QED
    BY <1>5, <2>3, <2>4 DEF value, d
<1> QED
  BY <1>1, <1>2, <1>9, <1>10

(* How many terms it is made of. *)
LEMMA TermsCounted ==
  ASSUME NEW key \in MetricKey, NEW n \in Nat \ {0}, NEW xs \in [1..n -> Int]
  PROVE  Len(Terms(key, xs)) = IF Definition[key].input = "latency" THEN n ELSE n - 1
<1>1. Len(xs) = n /\ Definition[key].input \in {"latency", "absolute", "signed"} /\ n - 1 \in Nat
  BY TableIs DEF Def
<1>2. DOMAIN SignedDeltas(xs) = 1..(n - 1) /\ DOMAIN AbsoluteDeltas(xs) = 1..(n - 1)
  BY <1>1 DEF SignedDeltas, AbsoluteDeltas
<1>3. Len(SignedDeltas(xs)) = n - 1 /\ Len(AbsoluteDeltas(xs)) = n - 1
  BY <1>1, <1>2
<1> QED
  BY <1>1, <1>3 DEF Terms

----------------------------------------------------------------------------
(* Windows.  One that holds samples of S, none of them twice.                *)
Holding(S) ==
  {win \in [samples : Seq(S), newest : Int \cup {NoTick}] : Once(win.samples)}

Bounding(w) == w.capacity \in Nat \ {0}
HasRoom(S, w) == Cardinality(S) <= w.capacity
Stamped(S) == \A x \in S : x.observed \in Int

(* A window that has the room for all of S keeps what it is given.           *)
LEMMA AddedIs ==
  ASSUME NEW S, IsFiniteSet(S), Stamped(S),
         NEW win \in Holding(S), NEW x \in S, NEW w, Bounding(w)
  PROVE  /\ AddSample(win, x, w) \in Holding(S)
         /\ HasRoom(S, w) =>
              Range(AddSample(win, x, w).samples) = Range(win.samples) \cup {x}
<1> DEFINE s == win.samples
           all == Append(s, x)
           added == AddSample(win, x, w)
<1>1. s \in Seq(S) /\ Once(s) /\ win.newest \in Int \cup {NoTick}
  BY DEF Holding
<1>2. CASE x \in Range(s)
  <2>1. added = win
    BY <1>2 DEF AddSample
  <2> QED
    BY <1>2, <2>1
<1>3. CASE x \notin Range(s)
  <2> DEFINE left == IF Len(all) > w.capacity THEN Tail(all) ELSE all
             newest == IF win.newest # NoTick /\ x.observed < win.newest
                       THEN win.newest ELSE x.observed
  <2>1. added = [samples |-> left, newest |-> newest]
    BY <1>3 DEF AddSample
  <2>2. newest \in Int \cup {NoTick}
    BY <1>1 DEF Stamped
  <2> HIDE DEF s, newest, added
  <2>3. /\ all \in Seq(S) /\ Len(s) \in Nat /\ Len(all) = Len(s) + 1
        /\ DOMAIN all = 1..(Len(s) + 1) /\ DOMAIN s = 1..Len(s)
        /\ \A i \in DOMAIN s : all[i] = s[i]
        /\ all[Len(s) + 1] = x
    BY <1>1
  <2> HIDE DEF all
  <2>4. Range(all) = Range(s) \cup {x}
    <3>1. \A i \in DOMAIN all : i \in DOMAIN s \/ i = Len(s) + 1
      BY <2>3
    <3>2. \A i \in DOMAIN s : i \in DOMAIN all
      BY <2>3
    <3>3. Len(s) + 1 \in DOMAIN all
      BY <2>3
    <3> QED
      BY <2>3, <3>1, <3>2, <3>3 DEF Range
  <2>5. Once(all)
    <3>1. ASSUME NEW i \in DOMAIN all, NEW j \in DOMAIN all, all[i] = all[j] PROVE i = j
      <4>1. i \in DOMAIN s \/ i = Len(s) + 1
        BY <2>3
      <4>2. j \in DOMAIN s \/ j = Len(s) + 1
        BY <2>3
      <4>3. \A k \in DOMAIN s : s[k] # x
        BY <1>3 DEF Range
      <4> QED
        BY <1>1, <2>3, <3>1, <4>1, <4>2, <4>3 DEF Once
    <3> QED
      BY <3>1 DEF Once
  <2> USE DEF Bounding
  <2>6. left \in Seq(S) /\ Once(left)
    <3>1. CASE Len(all) > w.capacity
      <4>1. /\ Tail(all) \in Seq(S) /\ Len(Tail(all)) = Len(s)
            /\ \A i \in 1..Len(s) : Tail(all)[i] = all[i + 1]
        BY <2>3
      <4>2. DOMAIN Tail(all) = 1..Len(s) /\ \A i \in 1..Len(s) : i + 1 \in DOMAIN all
        BY <2>3, <4>1
      <4>3. ASSUME NEW i \in 1..Len(s), NEW j \in 1..Len(s), Tail(all)[i] = Tail(all)[j]
            PROVE  i = j
        <5>1. i + 1 = j + 1
          BY <2>5, <4>1, <4>2, <4>3 DEF Once
        <5> QED
          BY <5>1
      <4> QED
        BY <3>1, <4>1, <4>2, <4>3 DEF Once
    <3>2. CASE ~(Len(all) > w.capacity)
      BY <2>3, <2>5, <3>2
    <3> QED
      BY <3>1, <3>2
  <2>7. ASSUME HasRoom(S, w) PROVE left = all
    <3>1. all \in Injection(1..Len(all), S)
      <4>1. DOMAIN all = 1..Len(all)
        BY <2>3
      <4> QED
        BY <2>3, <2>5, <4>1 DEF Once, Injection, IsInjective
    <3>2. IsFiniteSet(1..Len(all)) /\ Cardinality(1..Len(all)) = Len(all)
      <4> DEFINE m == Len(all)
      <4>1. m \in Nat
        BY <2>3
      <4> HIDE DEF m
      <4>2. IsFiniteSet(1..m) /\ Cardinality(1..m) = m
        BY <4>1, FS_Interval
      <4> QED
        BY <4>2 DEF m
    <3>3. Len(all) <= Cardinality(S)
      BY <3>1, <3>2, FS_Injection
    <3>4. Cardinality(S) \in Nat /\ Len(all) \in Nat
      BY <2>3, FS_CardinalityType
    <3> QED
      BY <2>7, <3>3, <3>4 DEF HasRoom, Bounding
  <2> HIDE DEF left
  <2>8. added \in Holding(S)
    BY <2>1, <2>2, <2>6 DEF Holding
  <2>9. added.samples = left
    BY <2>1
  <2> QED
    BY <2>4, <2>7, <2>8, <2>9 DEF s, added
<1> QED
  BY <1>2, <1>3

(* The same of a batch.                                                      *)
LEMMA FilledIs ==
  ASSUME NEW S, IsFiniteSet(S), Stamped(S),
         NEW win \in Holding(S), NEW b \in Seq(S), NEW w, Bounding(w)
  PROVE  /\ Filled(win, b, w) \in Holding(S)
         /\ HasRoom(S, w) =>
              Range(Filled(win, b, w).samples) = Range(win.samples) \cup Range(b)
<1> DEFINE n == Len(b)
           X == Holding(S)
           after[i \in 0..n] == IF i = 0 THEN win ELSE AddSample(after[i - 1], b[i], w)
           step == [i \in 1..n |-> [v \in X |-> AddSample(v, b[i], w)]]
<1>1. n \in Nat /\ DOMAIN b = 1..n /\ \A i \in 1..n : b[i] \in S
  OBVIOUS
<1> HIDE DEF n
<1>2. ASSUME NEW i \in 1..n, NEW v \in X
      PROVE  /\ AddSample(v, b[i], w) \in X
             /\ HasRoom(S, w) =>
                  Range(AddSample(v, b[i], w).samples) = Range(v.samples) \cup {b[i]}
  <2>1. PICK x \in S : x = b[i]
    BY <1>1
  <2>2. v \in Holding(S)
    OBVIOUS
  <2> HIDE DEF X
  <2>3. /\ AddSample(v, x, w) \in Holding(S)
        /\ HasRoom(S, w) =>
             Range(AddSample(v, x, w).samples) = Range(v.samples) \cup {x}
    BY <2>2, AddedIs
  <2> QED
    BY <2>1, <2>3 DEF X
<1>3. \E f : f = [i \in 0..n |-> IF i = 0 THEN win ELSE AddSample(f[i - 1], b[i], w)]
  <2>1. win \in X /\ step \in StepMaps(X, n)
    <3>1. \A i \in 1..n : \A v \in X : AddSample(v, b[i], w) \in X
      BY <1>2
    <3> HIDE DEF X
    <3>2. win \in X
      BY DEF X
    <3> QED
      BY <3>1, <3>2 DEF StepMaps
  <2> HIDE DEF step, X
  <2>2. PICK f \in [0..n -> X] : f[0] = win /\ \A i \in 1..n : f[i] = step[i][f[i - 1]]
    <3>1. Runs(X, win, n, step) # {}
      BY <1>1, <2>1, RunExists
    <3> QED
      BY <3>1 DEF Runs
  <2>3. ASSUME NEW i \in 1..n PROVE step[i][f[i - 1]] = AddSample(f[i - 1], b[i], w)
    <3>1. f[i - 1] \in X
      BY <1>1
    <3> QED
      BY <3>1 DEF step
  <2>4. \A i \in 0..n : i # 0 => i \in 1..n
    BY <1>1
  <2>5. \A i \in 0..n : f[i] = IF i = 0 THEN win ELSE AddSample(f[i - 1], b[i], w)
    BY <2>2, <2>3, <2>4
  <2>6. f = [i \in 0..n |-> IF i = 0 THEN win ELSE AddSample(f[i - 1], b[i], w)]
    BY <2>2, <2>5
  <2> QED
    BY <2>6
<1>4. after = [i \in 0..n |-> IF i = 0 THEN win ELSE AddSample(after[i - 1], b[i], w)]
  BY <1>3
<1>5. Filled(win, b, w) = after[n]
  BY DEF Filled, n
<1> HIDE DEF after, step, X
<1> DEFINE T == {i \in 0..n :
                   /\ after[i] \in X
                   /\ HasRoom(S, w) =>
                        Range(after[i].samples) = Range(win.samples) \cup {b[k] : k \in 1..i}}
<1>6. 0 \in T
  <2>1. after[0] = win /\ 0 \in 0..n
    BY <1>1, <1>4
  <2> QED
    BY <2>1 DEF X
<1>7. ASSUME NEW i \in 1..n, i - 1 \in T PROVE i \in T
  <2>1. after[i] = AddSample(after[i - 1], b[i], w) /\ i \in 0..n
    BY <1>1, <1>4
  <2>2. /\ after[i - 1] \in X
        /\ HasRoom(S, w) =>
             Range(after[i - 1].samples) = Range(win.samples) \cup {b[k] : k \in 1..(i - 1)}
    BY <1>7
  <2>3. {b[k] : k \in 1..i} = {b[k] : k \in 1..(i - 1)} \cup {b[i]}
    <3>1. \A k \in 1..i : k \in 1..(i - 1) \/ k = i
      OBVIOUS
    <3>2. i \in 1..i /\ \A k \in 1..(i - 1) : k \in 1..i
      BY <1>1
    <3> QED
      BY <3>1, <3>2
  <2>4. /\ after[i] \in X
        /\ HasRoom(S, w) =>
             Range(after[i].samples) = Range(after[i - 1].samples) \cup {b[i]}
    BY <1>2, <2>1, <2>2
  <2> QED
    BY <2>1, <2>2, <2>3, <2>4
<1>8. n \in T
  <2> HIDE DEF T
  <2>1. 0..n \subseteq T
    BY <1>1, <1>6, <1>7, AllAlong
  <2> QED
    BY <1>1, <2>1
<1>9. Range(b) = {b[k] : k \in 1..n}
  BY <1>1 DEF Range
<1> QED
  BY <1>5, <1>8, <1>9 DEF X

(* The order samples are listed in is one.                                   *)
LEMMA SampleOrders ==
  ASSUME NEW S, \A x \in S : IsSample(x),
         \A x, y \in S : x # y => SampleLess(x, y) \/ SampleLess(y, x)
  PROVE  Orders({q \in S \X S : SampleLess(q[1], q[2])}, S)
<1> DEFINE R == {q \in S \X S : SampleLess(q[1], q[2])}
           Lower(x, y) ==
             \/ x.observed < y.observed
             \/ x.observed = y.observed /\ x.sequence < y.sequence
             \/ x.observed = y.observed /\ x.sequence = y.sequence /\ x.latency < y.latency
             \/ /\ x.observed = y.observed /\ x.sequence = y.sequence
                /\ x.latency = y.latency /\ x.received < y.received
<1>1. \A x, y \in S : <<x, y>> \in R <=> SampleLess(x, y)
  OBVIOUS
<1> HIDE DEF R
<1>2. ASSUME NEW x \in S, NEW y \in S PROVE SampleLess(x, y) <=> Lower(x, y)
  <2> DEFINE k == <<x.observed, x.sequence, x.latency, x.received>>
             l == <<y.observed, y.sequence, y.latency, y.received>>
  <2>1. SampleLess(x, y) <=> \E i \in 1..4 : k[i] < l[i] /\ \A j \in 1..(i - 1) : k[j] = l[j]
    BY DEF SampleLess
  <2>2. k[1] = x.observed /\ k[2] = x.sequence /\ k[3] = x.latency /\ k[4] = x.received
    OBVIOUS
  <2>3. l[1] = y.observed /\ l[2] = y.sequence /\ l[3] = y.latency /\ l[4] = y.received
    OBVIOUS
  <2> HIDE DEF k, l
  <2>4. (\E i \in 1..4 : k[i] < l[i] /\ \A j \in 1..(i - 1) : k[j] = l[j]) <=>
          \/ k[1] < l[1]
          \/ k[1] = l[1] /\ k[2] < l[2]
          \/ k[1] = l[1] /\ k[2] = l[2] /\ k[3] < l[3]
          \/ k[1] = l[1] /\ k[2] = l[2] /\ k[3] = l[3] /\ k[4] < l[4]
    <3>2. 1..4 = {1, 2, 3, 4}
      OBVIOUS
    <3>3. /\ \A j \in 1..(1 - 1) : k[j] = l[j]
          /\ (\A j \in 1..(2 - 1) : k[j] = l[j]) <=> k[1] = l[1]
          /\ (\A j \in 1..(3 - 1) : k[j] = l[j]) <=> k[1] = l[1] /\ k[2] = l[2]
          /\ (\A j \in 1..(4 - 1) : k[j] = l[j]) <=> k[1] = l[1] /\ k[2] = l[2] /\ k[3] = l[3]
      OBVIOUS
    <3> QED
      BY <3>2, <3>3
  <2> QED
    BY <2>1, <2>2, <2>3, <2>4
<1>3. \A x \in S : /\ x.observed \in Int /\ x.sequence \in Int
                   /\ x.latency \in Int /\ x.received \in Int
  BY DEF IsSample
<1>4. \A x \in S : ~Lower(x, x)
  BY <1>3
<1>5. ASSUME NEW x \in S, NEW y \in S, NEW z \in S, Lower(x, y), Lower(y, z)
      PROVE  Lower(x, z)
  BY <1>3, <1>5
<1> HIDE DEF Lower
<1>6. Orders(R, S)
  BY <1>1, <1>2, <1>4, <1>5 DEF Orders
<1> QED
  BY <1>6 DEF R

----------------------------------------------------------------------------
(* Selections. *)
Sortable(S) ==
  /\ \A x \in S : IsSample(x)
  /\ \A x, y \in S : x # y => SampleLess(x, y) \/ SampleLess(y, x)

(* Sorted samples: the number of those after one is its place from the end.  *)
LEMMA CanonicalIs ==
  ASSUME NEW S, IsFiniteSet(S), Sortable(S)
  PROVE  /\ Canonical(S) \in Seq(S) /\ Once(Canonical(S)) /\ Range(Canonical(S)) = S
         /\ Len(Canonical(S)) = Cardinality(S) /\ Cardinality(S) \in Nat
         /\ Ascending(Canonical(S))
         /\ \A i \in DOMAIN Canonical(S) :
              Cardinality({y \in S : SampleLess(Canonical(S)[i], y)}) = Cardinality(S) - i
<1> DEFINE R == {q \in S \X S : SampleLess(q[1], q[2])}
           c == Canonical(S)
           n == Cardinality(S)
<1>1. \A x, y \in S : <<x, y>> \in R <=> SampleLess(x, y)
  OBVIOUS
<1>2. Orders(R, S)
  BY SampleOrders DEF Sortable
<1>3. c = Listing(S, R)
  BY DEF Canonical
<1> HIDE DEF R, c
<1>4. /\ c \in Seq(S) /\ Len(c) = n /\ n \in Nat /\ Range(c) = S /\ Rising(c, R)
      /\ \A i \in DOMAIN c : Cardinality(Under(c[i], S, R)) = i - 1
  BY <1>2, <1>3, ListingIs
<1> HIDE DEF n
<1>5. DOMAIN c = 1..n /\ \A i \in 1..n : c[i] \in S
  BY <1>4
<1>6. Once(c)
  <2>1. ASSUME NEW i \in DOMAIN c, NEW j \in DOMAIN c, i < j PROVE c[i] # c[j]
    BY <1>2, <1>4, <1>5, <2>1 DEF Rising, Orders
  <2> QED
    BY <1>4, <1>5, <2>1 DEF Once
<1>7. Ascending(c)
  BY <1>1, <1>4, <1>5 DEF Ascending, Rising
<1>8. ASSUME NEW i \in DOMAIN c PROVE Cardinality({y \in S : SampleLess(c[i], y)}) = n - i
  <2> DEFINE U == Under(c[i], S, R)
             V == S \ U
  <2>1. {y \in S : SampleLess(c[i], y)} = V \ {c[i]}
    <3>1. ASSUME NEW y \in S PROVE SampleLess(c[i], y) <=> y \notin U /\ y # c[i]
      <4>1. <<y, c[i]>> \in R <=> y \in U
        BY DEF Under
      <4>2. <<c[i], y>> \in R <=> SampleLess(c[i], y)
        BY <1>1, <1>5
      <4> QED
        BY <1>2, <1>5, <4>1, <4>2 DEF Orders
    <3> QED
      BY <3>1
  <2>2. U \in SUBSET S /\ c[i] \in V
    BY <1>2, <1>5 DEF Under, Orders
  <2>3. IsFiniteSet(V) /\ Cardinality(V) = n - Cardinality(S \cap U)
    BY FS_Difference DEF n
  <2>4. S \cap U = U
    BY <2>2
  <2>5. Cardinality(V \ {c[i]}) = Cardinality(V) - 1
    BY <2>2, <2>3, FS_RemoveElement
  <2>6. Cardinality(U) = i - 1 /\ i \in Int
    BY <1>4, <1>5
  <2>7. Cardinality({y \in S : SampleLess(c[i], y)}) = Cardinality(V) - 1
    <3> HIDE DEF V
    <3> QED
      BY <2>1, <2>5
  <2>8. Cardinality(V) = n - Cardinality(U)
    <3> HIDE DEF U, V
    <3> QED
      BY <2>3, <2>4
  <2> HIDE DEF U, V
  <2> QED
    BY <1>4, <2>6, <2>7, <2>8
<1> QED
  BY <1>4, <1>6, <1>7, <1>8 DEF c, n

(* An order of samples is one of their instants. *)
LEMMA LessIsNotLater ==
  ASSUME NEW x, NEW y, IsSample(x), IsSample(y), SampleLess(x, y)
  PROVE  x.observed <= y.observed
<1>1. PICK i \in 1..4 :
        LET k == <<x.observed, x.sequence, x.latency, x.received>>
            l == <<y.observed, y.sequence, y.latency, y.received>>
        IN k[i] < l[i] /\ \A j \in 1..(i - 1) : k[j] = l[j]
  BY DEF SampleLess
<1>2. x.observed \in Int /\ y.observed \in Int
  BY DEF IsSample
<1>3. CASE i = 1
  BY <1>1, <1>2, <1>3
<1>4. CASE i # 1
  <2>1. 1 \in 1..(i - 1)
    BY <1>4
  <2>2. x.observed = y.observed
    BY <1>1, <2>1
  <2> QED
    BY <1>2, <2>2
<1> QED
  BY <1>3, <1>4

(* The remainders of a duration. *)
Rest(d) == [a \in Nat |-> a % d]

LEMMA DivisionExists ==
  ASSUME NEW d \in Nat \ {0}, NEW a \in Nat
  PROVE  \E k \in 0..a, r \in 0..(d - 1) : a = k * d + r
<1> DEFINE T == {b \in Nat : \E k \in 0..b, r \in 0..(d - 1) : b = k * d + r}
<1>1. 0 \in T
  <2>1. 0 = 0 * d + 0 /\ 0 \in 0..0 /\ 0 \in 0..(d - 1)
    OBVIOUS
  <2> QED
    BY <2>1
<1>2. ASSUME NEW b \in 1..a, b - 1 \in T PROVE b \in T
  <2>1. PICK k \in 0..(b - 1), r \in 0..(d - 1) : b - 1 = k * d + r
    BY <1>2
  <2>2. (k + 1) * d = k * d + d /\ k * d \in Int
    OBVIOUS
  <2>3. CASE r + 1 < d
    <3>1. r + 1 \in 0..(d - 1) /\ b = k * d + (r + 1) /\ k \in 0..b
      BY <2>1, <2>2, <2>3
    <3> QED
      BY <3>1
  <2>4. CASE ~(r + 1 < d)
    <3>1. 0 \in 0..(d - 1) /\ b = (k + 1) * d + 0 /\ k + 1 \in 0..b
      BY <2>1, <2>2, <2>4
    <3> QED
      BY <3>1
  <2> QED
    BY <2>3, <2>4
<1>3. 0..a \subseteq T
  <2> HIDE DEF T
  <2> QED
    BY <1>1, <1>2, AllAlong
<1> QED
  BY <1>3

LEMMA RestIs ==
  ASSUME NEW d \in Nat \ {0}, NEW a \in Nat, NEW k \in Nat, NEW r \in 0..(d - 1),
         a = k * d + r
  PROVE  Rest(d)[a] = r
<1>1. a % d = r
  OBVIOUS
<1> QED
  BY <1>1 DEF Rest

(* Two instants after an anchor are of the same bucket when they lie between *)
(* the same two multiples of the duration.                                   *)
LEMMA SameMultiple ==
  ASSUME NEW t \in Nat, NEW u \in Nat, NEW d \in Nat \ {0}
  PROVE  /\ t - Rest(d)[t] = u - Rest(d)[u] =>
              \E k \in 0..u : /\ k * d <= t /\ t < (k + 1) * d
                              /\ k * d <= u /\ u < (k + 1) * d
         /\ \A k \in Nat : k * d <= t /\ t < (k + 1) * d /\ k * d <= u /\ u < (k + 1) * d =>
              t - Rest(d)[t] = u - Rest(d)[u]
<1>1. ASSUME NEW a \in Nat, NEW k \in Nat, k * d <= a, a < (k + 1) * d
      PROVE  a - Rest(d)[a] = k * d
  <2> DEFINE kd == k * d
             r == a - kd
  <2>1. (k + 1) * d = kd + d /\ kd \in Nat
    OBVIOUS
  <2>2. kd <= a /\ a < kd + d
    BY <1>1, <2>1
  <2>3. r \in 0..(d - 1) /\ a = kd + r /\ a - r = kd
    <3> HIDE DEF kd
    <3> QED
      BY <2>1, <2>2
  <2>4. Rest(d)[a] = r
    <3> HIDE DEF r
    <3> QED
      BY <2>3, RestIs
  <2> QED
    BY <2>3, <2>4
<1>2. ASSUME t - Rest(d)[t] = u - Rest(d)[u]
      PROVE  \E k \in 0..u : /\ k * d <= t /\ t < (k + 1) * d
                             /\ k * d <= u /\ u < (k + 1) * d
  <2>1. PICK k \in 0..u, r \in 0..(d - 1) : u = k * d + r
    BY DivisionExists
  <2>2. PICK l \in 0..t, s \in 0..(d - 1) : t = l * d + s
    BY DivisionExists
  <2>3. Rest(d)[u] = r /\ Rest(d)[t] = s
    <3>1. u % d = r
      BY <2>1
    <3>2. t % d = s
      BY <2>2
    <3> QED
      BY <3>1, <3>2 DEF Rest
  <2> DEFINE kd == k * d
  <2>4. kd \in Nat /\ (k + 1) * d = kd + d /\ u = kd + r
    BY <2>1
  <2>5. t - s = u - r
    BY <1>2, <2>3
  <2>6. kd <= t /\ t < kd + d /\ kd <= u /\ u < kd + d
    <3> HIDE DEF kd
    <3> QED
      BY <2>4, <2>5
  <2> QED
    BY <2>4, <2>6
<1> QED
  BY <1>1, <1>2

(* A selection holds retained samples, none twice, in canonical order.       *)
LEMMA SelectShape ==
  ASSUME NEW win, IsFiniteSet(Range(win.samples)), Sortable(Range(win.samples)),
         NEW w, ValidWindow(w)
  PROVE  LET selected == Select(win, w) IN
         /\ selected \in Seq(Range(win.samples)) /\ Once(selected) /\ Ascending(selected)
         /\ IsFiniteSet(Range(selected)) /\ Len(selected) = Cardinality(Range(selected))
<1> DEFINE S == Range(win.samples)
           all == Canonical(S)
           n == Len(all)
           sel == Select(win, w)
           newest == all[Len(all)].observed
           near == {x \in Range(all) : Wrapped(newest - x.observed) <= w.duration}
           same == {x \in Range(all) : /\ InReach(x.observed, w)
                                       /\ Bucket(x.observed, w) = Bucket(newest, w)}
<1>1. Ordered(win) = all
  BY DEF Ordered
<1> HIDE DEF S
<1>2. all \in Seq(S) /\ Once(all) /\ Range(all) = S /\ Ascending(all)
  BY CanonicalIs DEF S
<1>3. sel = CASE all = <<>> -> <<>>
              [] all # <<>> /\ w.kind = "count" ->
                   IF Len(all) > w.count THEN SubSeq(all, Len(all) - w.count + 1, Len(all)) ELSE all
              [] all # <<>> /\ w.kind = "time" -> Filtered(all, near)
              [] all # <<>> /\ w.kind = "tumbling" ->
                   IF InReach(newest, w) THEN Filtered(all, same) ELSE Filtered(all, near)
  BY <1>1 DEF Select
<1> HIDE DEF all, sel, near, same, newest
<1>4. w.kind \in {"count", "time", "tumbling"} /\ (w.kind = "count" => w.count \in Nat \ {0})
  BY DEF ValidWindow
<1>5. ASSUME NEW T
      PROVE  /\ Filtered(all, T) \in Seq(S) /\ Once(Filtered(all, T))
             /\ Ascending(Filtered(all, T))
  BY <1>2, FilteredIs
<1>6. n \in Nat /\ DOMAIN all = 1..n
  BY <1>2
<1>7. CASE all = <<>>
  <2>1. sel = <<>>
    BY <1>3, <1>7
  <2>2. <<>> \in Seq(S) /\ DOMAIN <<>> = 1..0
    OBVIOUS
  <2>3. Once(sel) /\ Ascending(sel)
    BY <2>1, <2>2 DEF Once, Ascending
  <2>4. sel \in Seq(S)
    BY <2>1, <2>2
  <2> QED
    BY <2>3, <2>4, OnceCounts DEF sel, S
<1>8. CASE all # <<>> /\ w.kind = "count"
  <2>1. sel = IF n > w.count THEN SubSeq(all, n - w.count + 1, n) ELSE all
    BY <1>3, <1>8
  <2>2. CASE n > w.count
    <3> DEFINE from == n - w.count + 1
    <3>1. from \in 1..n
      BY <1>4, <1>6, <1>8, <2>2
    <3>2. sel = SubSeq(all, from, n)
      BY <2>1, <2>2
    <3> HIDE DEF from
    <3>3. sel \in Seq(S)
      <4> HIDE DEF n
      <4>1. \A i \in from..n : all[i] \in S
        BY <1>2, <1>6, <3>1
      <4> QED
        BY <1>2, <1>6, <3>1, <3>2, <4>1
    <3>4. DOMAIN sel = 1..(n - from + 1) /\ \A i \in 1..(n - from + 1) : sel[i] = all[from + i - 1]
      <4> HIDE DEF n
      <4> QED
        BY <1>2, <1>6, <3>1, <3>2
    <3>5. \A i \in DOMAIN sel : from + i - 1 \in DOMAIN all /\ i \in Int
      BY <1>6, <3>1, <3>4
    <3> HIDE DEF n
    <3>6. Once(sel)
      <4>1. ASSUME NEW i \in DOMAIN sel, NEW j \in DOMAIN sel, sel[i] = sel[j] PROVE i = j
        <5>1. from + i - 1 = from + j - 1
          BY <1>2, <3>4, <3>5, <4>1 DEF Once
        <5> QED
          BY <3>1, <3>5, <5>1
      <4> QED
        BY <4>1 DEF Once
    <3>7. Ascending(sel)
      <4>1. ASSUME NEW i \in DOMAIN sel, NEW j \in DOMAIN sel, i < j PROVE SampleLess(sel[i], sel[j])
        <5>1. from + i - 1 < from + j - 1
          BY <3>1, <3>5, <4>1
        <5> QED
          BY <1>2, <3>4, <3>5, <5>1 DEF Ascending
      <4> QED
        BY <4>1 DEF Ascending
    <3> QED
      BY <3>3, <3>6, <3>7, OnceCounts DEF sel, S
  <2>3. CASE ~(n > w.count)
    <3>1. sel = all
      BY <2>1, <2>3
    <3> QED
      BY <1>2, <3>1, OnceCounts DEF sel, S
  <2> QED
    BY <2>2, <2>3
<1>9. CASE all # <<>> /\ w.kind \in {"time", "tumbling"}
  <2>1. \E T : sel = Filtered(all, T)
    BY <1>3, <1>9
  <2>2. sel \in Seq(S) /\ Once(sel) /\ Ascending(sel)
    BY <1>5, <2>1
  <2> QED
    BY <2>2, OnceCounts DEF sel, S
<1> QED
  BY <1>4, <1>7, <1>8, <1>9

(* When the instants of the samples can be differenced, it is the one that   *)
(* the policy asks for.                                                      *)
LEMMA SelectionIs ==
  ASSUME NEW win, IsFiniteSet(Range(win.samples)), Sortable(Range(win.samples)),
         NEW w, ValidWindow(w), w.kind = "tumbling" => w.anchor \in Nat,
         \A x, y \in Range(win.samples) : Fits(x.observed - y.observed)
  PROVE  Range(Select(win, w)) = Chosen(Range(win.samples), w)
<1> DEFINE S == Range(win.samples)
           all == Canonical(S)
           n == Len(all)
           sel == Select(win, w)
           newest == all[Len(all)].observed
           near == {x \in Range(all) : Wrapped(newest - x.observed) <= w.duration}
           same == {x \in Range(all) : /\ InReach(x.observed, w)
                                       /\ Bucket(x.observed, w) = Bucket(newest, w)}
<1>1. Ordered(win) = all
  BY DEF Ordered
<1>f. \A x, y \in S : Fits(x.observed - y.observed)
  OBVIOUS
<1>w. /\ w.kind \in {"count", "time", "tumbling"}
      /\ w.kind = "count" => w.count \in Nat \ {0}
      /\ w.kind # "count" => w.duration \in Nat \ {0}
      /\ w.kind = "tumbling" => w.anchor \in Nat
  BY DEF ValidWindow
<1> HIDE DEF S
<1>2. /\ all \in Seq(S) /\ Once(all) /\ Range(all) = S /\ Ascending(all)
      /\ n = Cardinality(S) /\ n \in Nat
      /\ \A i \in DOMAIN all : Cardinality({y \in S : SampleLess(all[i], y)}) = n - i
  BY CanonicalIs DEF S
<1>3. sel = CASE all = <<>> -> <<>>
              [] all # <<>> /\ w.kind = "count" ->
                   IF Len(all) > w.count THEN SubSeq(all, Len(all) - w.count + 1, Len(all)) ELSE all
              [] all # <<>> /\ w.kind = "time" -> Filtered(all, near)
              [] all # <<>> /\ w.kind = "tumbling" ->
                   IF InReach(newest, w) THEN Filtered(all, same) ELSE Filtered(all, near)
  BY <1>1 DEF Select
<1>4. \A x \in S : IsSample(x) /\ x.observed \in Int
  BY DEF S, Sortable, IsSample
<1> HIDE DEF all, sel
<1>5. DOMAIN all = 1..n /\ \A i \in 1..n : all[i] \in S
  BY <1>2
<1>6. \A x \in S : \E i \in 1..n : x = all[i]
  BY <1>2, <1>5 DEF Range
<1>7. CASE S = {}
  <2>1. all = <<>>
    BY <1>2, <1>5, <1>7
  <2>2. sel = <<>> /\ Range(<<>>) = {}
    BY <1>3, <2>1 DEF Range
  <2>3. Chosen(S, w) \subseteq S
    BY <1>w DEF Chosen
  <2> QED
    BY <1>7, <2>2, <2>3 DEF sel, S
<1>8. CASE S # {}
  <2>1. n \in 1..n /\ all # <<>>
    BY <1>2, <1>5, <1>6, <1>8
  <2> DEFINE last == all[n]
  <2>2. last \in S /\ newest = last.observed /\ newest \in Int
    BY <1>4, <1>5, <2>1
  <2>3. \A x \in S : x.observed <= newest
    <3> TAKE x \in S
    <3>1. PICK i \in 1..n : x = all[i]
      BY <1>6
    <3>2. CASE i = n
      BY <1>4, <2>2, <3>1, <3>2
    <3>3. CASE i # n
      <4>1. SampleLess(x, last)
        BY <1>2, <1>5, <2>1, <3>1, <3>3 DEF Ascending
      <4> HIDE DEF last
      <4> QED
        BY <1>4, <2>2, <4>1, LessIsNotLater
    <3> QED
      BY <3>2, <3>3
  <2> HIDE DEF newest, last
  <2>4. Newest(S) = {x \in S : x.observed = newest}
    BY <1>4, <2>2, <2>3 DEF Newest
  <2>5. w.kind # "count" => near = {x \in S : \A y \in S : y.observed - x.observed <= w.duration}
    <3> SUFFICES ASSUME w.kind # "count" PROVE near = {x \in S : \A y \in S : y.observed - x.observed <= w.duration}
      OBVIOUS
    <3>1. ASSUME NEW x \in S PROVE Wrapped(newest - x.observed) = newest - x.observed
      <4>1. Fits(newest - x.observed) /\ newest - x.observed \in Int
        BY <1>f, <1>4, <2>2
      <4> QED
        BY <4>1, WrappedFits
    <3>2. ASSUME NEW x \in S
          PROVE  newest - x.observed <= w.duration <=>
                   \A y \in S : y.observed - x.observed <= w.duration
      BY <1>w, <1>4, <2>2, <2>3
    <3>3. near = {x \in S : newest - x.observed <= w.duration}
      <4>1. near = {x \in S : Wrapped(newest - x.observed) <= w.duration}
        BY <1>2
      <4> HIDE DEF near
      <4> QED
        BY <3>1, <4>1
    <3> HIDE DEF near
    <3> QED
      BY <3>2, <3>3
  <2> HIDE DEF near, same
  <2>6. ASSUME NEW T, T \subseteq S PROVE Range(Filtered(all, T)) = T
    <3>1. Range(Filtered(all, T)) = Range(all) \cap T
      BY <1>2, FilteredIs
    <3> QED
      BY <1>2, <2>6, <3>1
  <2>7. CASE w.kind = "count"
    <3>1. Chosen(S, w) = {x \in S : Cardinality({y \in S : SampleLess(x, y)}) < w.count}
      BY <2>7 DEF Chosen
    <3>2. Chosen(S, w) = {all[i] : i \in {i \in 1..n : n - i < w.count}}
      <4>1. \A i \in 1..n : all[i] \in Chosen(S, w) <=> n - i < w.count
        BY <1>2, <1>5, <3>1
      <4>2. Chosen(S, w) \subseteq S
        BY <3>1
      <4> QED
        BY <1>6, <4>1, <4>2
    <3>3. sel = IF n > w.count THEN SubSeq(all, n - w.count + 1, n) ELSE all
      BY <1>3, <2>1, <2>7
    <3>4. CASE n > w.count
      <4> DEFINE from == n - w.count + 1
      <4>1. from \in 1..n /\ \A i \in 1..n : n - i < w.count <=> i >= from
        BY <1>2, <1>w, <2>7, <3>4
      <4>2. sel = SubSeq(all, from, n)
        BY <3>3, <3>4
      <4> HIDE DEF from
      <4>3. DOMAIN sel = 1..(n - from + 1) /\ \A i \in 1..(n - from + 1) : sel[i] = all[from + i - 1]
        <5>0. n \in Nat /\ all \in Seq(S)
          BY <1>2
        <5> HIDE DEF n
        <5> QED
          BY <1>5, <4>1, <4>2, <5>0
      <4>4. n \in Nat
        BY <1>2
      <4> HIDE DEF n
      <4>5. Range(sel) = {all[i] : i \in {i \in 1..n : i >= from}}
        <5>1. \A i \in 1..(n - from + 1) : from + i - 1 \in 1..n /\ from + i - 1 >= from
          BY <4>1, <4>4
        <5>2. \A i \in 1..n : i >= from => i - from + 1 \in 1..(n - from + 1) /\ from + (i - from + 1) - 1 = i
          BY <4>1, <4>4
        <5> QED
          BY <4>3, <5>1, <5>2 DEF Range
      <4>6. {i \in 1..n : i >= from} = {i \in 1..n : n - i < w.count}
        BY <4>1
      <4> QED
        BY <3>2, <4>5, <4>6 DEF sel, S
    <3>5. CASE ~(n > w.count)
      <4>1. sel = all
        BY <3>3, <3>5
      <4>2. \A i \in 1..n : n - i < w.count
        BY <1>2, <1>w, <2>7, <3>5
      <4>3. Chosen(S, w) = S
        BY <1>5, <1>6, <3>2, <4>2
      <4> QED
        BY <1>2, <4>1, <4>3 DEF sel, S
    <3> QED
      BY <3>4, <3>5
  <2>8. CASE w.kind = "tumbling" /\ InReach(newest, w)
    <3>1. sel = Filtered(all, same)
      BY <1>3, <2>1, <2>8
    <3>2. Chosen(S, w) = {x \in S : \E y \in Newest(S) : Buckets(x, w) \cap Buckets(y, w) # {}}
      <4>1. \E x \in Newest(S) : InReach(x.observed, w)
        BY <2>2, <2>4, <2>8
      <4> QED
        BY <2>8, <4>1 DEF Chosen
    <3>3. ASSUME NEW x \in S
          PROVE  (InReach(x.observed, w) /\ Bucket(x.observed, w) = Bucket(newest, w)) <=>
                   Buckets(x, w) \cap Buckets(last, w) # {}
      <4> DEFINE t == x.observed - w.anchor
                 u == newest - w.anchor
                 d == w.duration
      <4>1. d \in Nat \ {0} /\ w.anchor \in Nat
        BY <1>w, <2>8
      <4>2. MaxSpan \in Nat /\ MaxSpan <= MaxInt /\ MaxInt \in Nat
        BY WindowAssumption, CheckedAssumption
      <4>3. u \in Nat /\ u <= MaxSpan /\ t \in Int /\ t <= u
        BY <1>4, <2>2, <2>3, <2>8, <4>1, <4>2 DEF InReach
      <4>4. InReach(x.observed, w) <=> t \in Nat
        BY <1>4, <2>2, <4>1, <4>2, <4>3 DEF InReach
      <4>5. ASSUME NEW z \in S, NEW k \in 0..MaxInt
            PROVE  k \in Buckets(z, w) <=>
                     k * d <= z.observed - w.anchor /\ z.observed - w.anchor < (k + 1) * d
        <5> DEFINE kd == k * d
                   ld == (k + 1) * d
        <5>1. kd \in Int /\ ld \in Int /\ z.observed \in Int
          BY <1>4, <4>1, <4>2
        <5>2. k \in Buckets(z, w) <=> w.anchor + kd <= z.observed /\ z.observed < w.anchor + ld
          BY DEF Buckets
        <5> HIDE DEF kd, ld
        <5>3. k \in Buckets(z, w) <=> kd <= z.observed - w.anchor /\ z.observed - w.anchor < ld
          BY <4>1, <5>1, <5>2
        <5> QED
          BY <5>3 DEF kd, ld
      <4>6. ASSUME NEW k \in 0..MaxInt
            PROVE  k \in Buckets(x, w) \cap Buckets(last, w) <=>
                     k * d <= t /\ t < (k + 1) * d /\ k * d <= u /\ u < (k + 1) * d
        <5>1. k \in Buckets(x, w) <=> k * d <= t /\ t < (k + 1) * d
          BY <4>5
        <5>2. k \in Buckets(last, w) <=> k * d <= u /\ u < (k + 1) * d
          BY <2>2, <4>5
        <5> HIDE DEF t, u, d
        <5> QED
          BY <5>1, <5>2
      <4>7. Buckets(x, w) \cap Buckets(last, w) \subseteq 0..MaxInt
        BY DEF Buckets
      <4>8. t \in Nat =>
              (Bucket(x.observed, w) = Bucket(newest, w) <=> t - Rest(d)[t] = u - Rest(d)[u])
        <5> SUFFICES ASSUME t \in Nat
                     PROVE  Bucket(x.observed, w) = Bucket(newest, w) <=>
                              t - Rest(d)[t] = u - Rest(d)[u]
          OBVIOUS
        <5>1. Bucket(x.observed, w) = t - (t % d) /\ Bucket(newest, w) = u - (u % d)
          BY DEF Bucket
        <5>2. Rest(d)[t] = t % d /\ Rest(d)[u] = u % d
          BY <4>3 DEF Rest
        <5> QED
          BY <5>1, <5>2
      <4> HIDE DEF t, u, d
      <4>9. ASSUME t \in Nat, t - Rest(d)[t] = u - Rest(d)[u]
            PROVE  Buckets(x, w) \cap Buckets(last, w) # {}
        <5>1. PICK k \in 0..u : /\ k * d <= t /\ t < (k + 1) * d
                                /\ k * d <= u /\ u < (k + 1) * d
          BY <4>1, <4>3, <4>9, SameMultiple
        <5>2. k \in 0..MaxInt
          BY <4>2, <4>3
        <5>3. k \in Buckets(x, w) \cap Buckets(last, w)
          BY <4>6, <5>1, <5>2
        <5> QED
          BY <5>3
      <4>10. ASSUME Buckets(x, w) \cap Buckets(last, w) # {}
             PROVE  t \in Nat /\ t - Rest(d)[t] = u - Rest(d)[u]
        <5>1. PICK k \in 0..MaxInt : k \in Buckets(x, w) \cap Buckets(last, w)
          BY <4>7, <4>10
        <5>2. k * d <= t /\ t < (k + 1) * d /\ k * d <= u /\ u < (k + 1) * d
          BY <4>6, <5>1
        <5>3. k \in Nat /\ k * d \in Nat
          BY <4>1, <4>2
        <5>4. t \in Nat
          <6> DEFINE kd == k * d
          <6>1. kd \in Nat /\ kd <= t
            BY <5>2, <5>3
          <6> HIDE DEF kd
          <6> QED
            BY <4>3, <6>1
        <5> QED
          BY <4>1, <4>3, <5>2, <5>3, <5>4, SameMultiple
      <4> QED
        BY <4>4, <4>8, <4>9, <4>10
    <3>4. ASSUME NEW y \in Newest(S) PROVE Buckets(y, w) = Buckets(last, w)
      BY <2>2, <2>4 DEF Buckets
    <3>5. last \in Newest(S)
      BY <2>2, <2>4
    <3>6. same = {x \in S : InReach(x.observed, w) /\ Bucket(x.observed, w) = Bucket(newest, w)}
      BY <1>2 DEF same
    <3>7. same = Chosen(S, w)
      BY <3>2, <3>3, <3>4, <3>5, <3>6
    <3>8. same \subseteq S
      BY <3>6
    <3> QED
      BY <2>6, <3>1, <3>7, <3>8 DEF sel, S
  <2>9. CASE w.kind = "time" \/ (w.kind = "tumbling" /\ ~InReach(newest, w))
    <3>1. sel = Filtered(all, near)
      BY <1>3, <2>1, <2>9
    <3>2. Chosen(S, w) = {x \in S : \A y \in S : y.observed - x.observed <= w.duration}
      <4>1. ~(\E x \in Newest(S) : InReach(x.observed, w)) \/ w.kind = "time"
        BY <2>4, <2>9
      <4> QED
        BY <2>9, <4>1 DEF Chosen
    <3>3. near = Chosen(S, w) /\ near \subseteq S
      BY <2>5, <2>9, <3>2
    <3> QED
      BY <2>6, <3>1, <3>3 DEF sel, S
  <2> QED
    BY <1>w, <2>7, <2>8, <2>9
<1> QED
  BY <1>7, <1>8

----------------------------------------------------------------------------
(* The state.  A window holds samples its generation was offered, all of     *)
(* them when any policy would have had room; a baseline has a value only for *)
(* metrics that enough observations counted for.                             *)
Kept(o) ==
  /\ IsFiniteSet(offered[o]) /\ offered[o] \subseteq Storable(clock)
  /\ windows[o] \in Holding(offered[o])
  /\ (\A w \in Windows : HasRoom(offered[o], w)) => Range(windows[o].samples) = offered[o]

Measured(b) ==
  \A k \in DOMAIN b.metrics : Cardinality(b.taken) >= Definition[k].min_samples

IInv ==
  /\ TypeOK /\ IsFiniteSet(baselines)
  /\ DOMAIN windows = Generations /\ DOMAIN offered = Generations
  /\ \A o \in Generations : Kept(o)
  /\ \A b \in baselines : Measured(b)

LEMMA StorableIs ==
  ASSUME NEW d \in Clocks, NEW S, S \subseteq Storable(d)
  PROVE  Sortable(S) /\ Stamped(S)
<1>1. \A x \in Storable(d) : IsSample(x)
  BY AnalysisAssumption DEF Storable
<1>2. \A x, y \in Storable(d) : x # y => SampleLess(x, y) \/ SampleLess(y, x)
  BY AnalysisAssumption
<1> QED
  BY <1>1, <1>2 DEF Sortable, Stamped, IsSample

LEMMA PolicyIs ==
  ASSUME NEW w \in Windows
  PROVE  /\ ValidWindow(w) /\ Bounding(w)
         /\ w.kind = "tumbling" => w.anchor \in Nat
BY AnalysisAssumption DEF ValidWindow, Bounding

(* What a window of the state holds. *)
LEMMA KeptIs ==
  ASSUME IInv, NEW o \in Generations
  PROVE  LET S == Range(windows[o].samples) IN
         /\ S \subseteq offered[o] /\ IsFiniteSet(S) /\ Sortable(S)
<1>1. clock \in Clocks
  BY DEF IInv, TypeOK
<1>2. Kept(o)
  BY DEF IInv
<1>3. windows[o].samples \in Seq(offered[o]) /\ Once(windows[o].samples)
  BY <1>2 DEF Kept, Holding
<1>4. /\ Range(windows[o].samples) \subseteq offered[o]
      /\ IsFiniteSet(Range(windows[o].samples))
  BY <1>3, OnceCounts
<1>5. Range(windows[o].samples) \subseteq Storable(clock)
  BY <1>2, <1>4 DEF Kept
<1> QED
  BY <1>1, <1>4, <1>5, StorableIs

(* How many readings a metric was computed from. *)
LEMMA ComputedFrom ==
  ASSUME NEW key \in MetricKey, NEW xs, NEW Y, xs \in Seq(Y), Compute(key, xs).code = "ok"
  PROVE  Len(xs) >= Definition[key].min_samples
<1> DEFINE least == Definition[key].min_samples
<1>1. least \in 1..3
  BY DEF MetricKey, Definition, Def
<1>2. Len(xs) \in Nat /\ (Len(xs) = 0 => xs = <<>>)
  OBVIOUS
<1>3. xs # <<>>
  <2>1. xs = <<>> => Compute(key, xs) = Failed("no_evidence")
    BY DEF Compute
  <2> QED
    BY <2>1 DEF Failed
<1>4. Len(xs) \notin 1..(least - 1)
  <2>1. Len(xs) \in 1..(least - 1) => Compute(key, xs) = Failed("insufficient_evidence")
    BY <1>3 DEF Compute
  <2> QED
    BY <2>1 DEF Failed
<1> HIDE DEF least
<1>5. Len(xs) >= least
  BY <1>1, <1>2, <1>3, <1>4
<1> QED
  BY <1>5 DEF least

(* A selection is finite, and its fresh samples are as many as its fresh     *)
(* places.                                                                   *)
LEMMA FreshCounted ==
  ASSUME IInv, NEW o \in Generations, NEW at
  PROVE  LET selected == Select(windows[o], window)
             I == {i \in DOMAIN selected : FreshAt(selected[i], at)}
         IN /\ selected \in Seq(Range(windows[o].samples)) /\ Once(selected)
            /\ IsFiniteSet(Range(selected)) /\ IsFiniteSet(I) /\ I \subseteq Int
            /\ Fresh(o, at) \subseteq Range(selected)
            /\ Cardinality(Fresh(o, at)) = Cardinality(I)
<1> DEFINE S == Range(windows[o].samples)
           selected == Select(windows[o], window)
           I == {i \in DOMAIN selected : FreshAt(selected[i], at)}
           F == Fresh(o, at)
<1>1. window \in Windows
  BY DEF IInv, TypeOK
<1>2. /\ selected \in Seq(S) /\ Once(selected)
      /\ IsFiniteSet(Range(selected)) /\ Len(selected) = Cardinality(Range(selected))
  BY <1>1, KeptIs, PolicyIs, SelectShape
<1>3. F = {x \in Range(selected) : FreshAt(x, at)}
  BY DEF Fresh
<1> HIDE DEF selected
<1>4. IsFiniteSet(I) /\ I \subseteq Int
  <2>1. Len(selected) \in Nat /\ DOMAIN selected = 1..Len(selected)
    BY <1>2
  <2>2. IsFiniteSet(DOMAIN selected)
    BY <2>1, FS_Interval
  <2>3. I \in SUBSET DOMAIN selected
    OBVIOUS
  <2>4. IsFiniteSet(I)
    BY <2>2, <2>3, FS_Subset
  <2> QED
    BY <2>1, <2>3, <2>4
<1>5. Cardinality(F) = Cardinality(I)
  <2> DEFINE f == [i \in I |-> selected[i]]
  <2>1. \A i \in I : selected[i] \in F
    BY <1>3 DEF Range
  <2>2. \A x \in F : \E i \in I : selected[i] = x
    BY <1>3 DEF Range
  <2>3. \A i, j \in I : selected[i] = selected[j] => i = j
    BY <1>2 DEF Once
  <2> HIDE DEF I, F
  <2>4. f \in Bijection(I, F)
    BY <2>1, <2>2, <2>3 DEF Bijection, Injection, Surjection, IsInjective
  <2> QED
    BY <1>4, <2>4, FS_Bijection DEF ExistsBijection
<1> QED
  BY <1>2, <1>3, <1>4, <1>5 DEF selected

(* A summary has a value only for metrics that enough fresh samples count    *)
(* for.                                                                      *)
LEMMA SummaryFrom ==
  ASSUME IInv, NEW o \in Generations, NEW at, NEW k \in DOMAIN Summary(o, at).metrics
  PROVE  Cardinality(Fresh(o, at)) >= Definition[k].min_samples
<1> DEFINE S == Range(windows[o].samples)
           selected == Select(windows[o], window)
           states == [i \in DOMAIN selected |-> AssessSample(selected[i], clock, at, freshness)]
           I == {i \in DOMAIN selected : states[i] = "fresh"}
           fresh == Increasing(I)
           latencies == [j \in DOMAIN fresh |-> selected[fresh[j]].latency]
           F == Fresh(o, at)
<1>1. /\ selected \in Seq(S) /\ IsFiniteSet(I) /\ I \subseteq Int
      /\ Cardinality(F) = Cardinality(I)
  <2> DEFINE J == {i \in DOMAIN selected : FreshAt(selected[i], at)}
  <2>1. I = J
    BY DEF FreshAt
  <2>2. /\ selected \in Seq(S) /\ IsFiniteSet(J) /\ J \subseteq Int
        /\ Cardinality(F) = Cardinality(J)
    BY FreshCounted
  <2> HIDE DEF I, J, F, selected
  <2> QED
    BY <2>1, <2>2
<1>2. Summary(o, at).metrics = ComputeAll(MetricsAsked, latencies)
  BY DEF Summary, SummaryOf, WithLevel
<1> HIDE DEF selected, states, I, F
<1>3. fresh \in Seq(I) /\ Len(fresh) = Cardinality(I)
  BY <1>1, IncreasingIs
<1> HIDE DEF fresh
<1>4. latencies \in Seq({selected[i].latency : i \in I}) /\ Len(latencies) = Cardinality(I)
  <2> DEFINE Y == {selected[i].latency : i \in I}
  <2>1. DOMAIN fresh = 1..Len(fresh) /\ Len(fresh) \in Nat /\ \A j \in DOMAIN fresh : fresh[j] \in I
    BY <1>3
  <2>2. latencies \in [1..Len(fresh) -> Y]
    BY <2>1
  <2> HIDE DEF latencies, Y
  <2>3. latencies \in Seq(Y) /\ Len(latencies) = Len(fresh)
    BY <2>1, <2>2
  <2> QED
    BY <1>3, <2>3 DEF Y
<1> HIDE DEF latencies
<1>5. k \in MetricsAsked /\ Compute(k, latencies).code = "ok"
  <2> DEFINE results == [q \in MetricsAsked |-> Compute(q, latencies)]
  <2>1. DOMAIN ComputeAll(MetricsAsked, latencies) = {q \in DOMAIN results : results[q].code = "ok"}
    BY DEF ComputeAll, Succeeded
  <2> QED
    BY <1>2, <2>1
<1>6. k \in MetricKey
  BY <1>5, AnalysisAssumption DEF MetricsAsked, DefaultMetrics
<1>7. Len(latencies) >= Definition[k].min_samples
  BY <1>4, <1>5, <1>6, ComputedFrom
<1> QED
  BY <1>1, <1>4, <1>7 DEF F

----------------------------------------------------------------------------
(* The steps. *)
LEMMA InitIInv == Init => IInv
<1> SUFFICES ASSUME Init PROVE IInv
  OBVIOUS
<1>1. IsFiniteSet({}) /\ Cardinality({}) = 0
  BY FS_EmptySet
<1>2. TypeOK
  <2>1. ClockTypeOK
    <3>1. clock \in Domains
      BY AnalysisAssumption DEF Init
    <3> QED
      BY <3>1, ClockAssumption DEF Init, ClockTypeOK
  <2>2. ordinal \in Generations
    BY AnalysisAssumption DEF Init, Generations
  <2>3. \A o \in Generations : Range(windows[o].samples) \subseteq offered[o]
    BY DEF Init, NewWindow, Range
  <2>4. Cardinality(baselines) <= MaxBaselines
    BY <1>1, AnalysisAssumption DEF Init
  <2> QED
    BY <2>1, <2>2, <2>3, <2>4 DEF Init, TypeOK
<1>3. ASSUME NEW o \in Generations PROVE Kept(o)
  <2>1. windows[o] = [samples |-> <<>>, newest |-> NoTick] /\ offered[o] = {}
    BY DEF Init, NewWindow
  <2>2. <<>> \in Seq({}) /\ Once(<<>>) /\ Range(<<>>) = {}
    BY DEF Once, Range
  <2>3. windows[o] \in Holding(offered[o])
    BY <2>1, <2>2 DEF Holding
  <2> QED
    BY <1>1, <2>1, <2>2, <2>3 DEF Kept
<1> QED
  BY <1>1, <1>2, <1>3 DEF Init, IInv

(* A step that touches no window. *)
LEMMA Unfilled ==
  ASSUME IInv, ClockTypeOK', UNCHANGED <<clock, freshness, window, windows, offered>>,
         ordinal' \in Generations, IsFiniteSet(baselines'),
         Cardinality(baselines') <= MaxBaselines, \A b \in baselines' : Measured(b)
  PROVE  IInv'
<1>1. TypeOK'
  BY DEF IInv, TypeOK, Generations
<1>2. \A o \in Generations : Kept(o)'
  BY DEF IInv, Kept
<1>3. \A b \in baselines' : Measured(b)'
  BY DEF Measured
<1> QED
  BY <1>1, <1>2, <1>3 DEF IInv, Generations

LEMMA ClockStep ==
  IInv /\ ((\E d \in Domains : Register(d)) \/ \E e \in Offers : Declare(e)) => IInv'
<1> SUFFICES ASSUME IInv, (\E d \in Domains : Register(d)) \/ \E e \in Offers : Declare(e)
             PROVE  IInv'
  OBVIOUS
<1>1. ClockTypeOK'
  BY ClockAssumption DEF IInv, TypeOK, ClockTypeOK, Register, RegisterDomain, Declare, DeclareEquivalence
<1>2. UNCHANGED <<policies, ordinal, windows, offered, baselines>>
  BY DEF Register, Declare
<1> QED
  BY <1>1, <1>2, Unfilled DEF policies, IInv, TypeOK

LEMMA RouteStep == IInv /\ ChangeRoute => IInv'
<1> SUFFICES ASSUME IInv, ChangeRoute PROVE IInv'
  OBVIOUS
<1>1. UNCHANGED <<clockVars, policies, windows, offered, baselines>>
  BY DEF ChangeRoute
<1>2. ordinal' \in Generations
  BY AnalysisAssumption DEF IInv, TypeOK, ChangeRoute, Generations
<1>3. ClockTypeOK'
  BY <1>1 DEF IInv, TypeOK, ClockTypeOK, clockVars
<1> QED
  BY <1>1, <1>2, <1>3, Unfilled DEF policies, IInv, TypeOK

LEMMA CaptureStep ==
  ASSUME IInv, NEW o \in Generations, NEW at \in CaptureAt, Capture(o, at)
  PROVE  IInv'
<1> DEFINE b == MakeBaseline(o, window, Summary(o, at).metrics, Fresh(o, at))
<1>1. /\ baselines' = baselines \cup {b} /\ Cardinality(baselines) < MaxBaselines
      /\ UNCHANGED <<clockVars, policies, ordinal, windows, offered>>
  BY DEF Capture
<1>2. Measured(b)
  <2>1. b.metrics = Summary(o, at).metrics /\ b.taken = Fresh(o, at)
    BY DEF MakeBaseline
  <2> HIDE DEF b
  <2> QED
    BY <2>1, SummaryFrom DEF Measured
<1> HIDE DEF b
<1>3. IsFiniteSet(baselines') /\ Cardinality(baselines') <= MaxBaselines
  <2>1. IsFiniteSet(baselines) /\ Cardinality(baselines) \in Nat
    BY FS_CardinalityType DEF IInv
  <2>2. /\ IsFiniteSet(baselines \cup {b})
        /\ Cardinality(baselines \cup {b}) =
             IF b \in baselines THEN Cardinality(baselines) ELSE Cardinality(baselines) + 1
    BY <2>1, FS_AddElement
  <2> QED
    BY <1>1, <2>1, <2>2, AnalysisAssumption
<1>4. \A c \in baselines' : Measured(c)
  BY <1>1, <1>2 DEF IInv
<1>5. ClockTypeOK' /\ ordinal' \in Generations
  BY <1>1 DEF IInv, TypeOK, ClockTypeOK, clockVars
<1> QED
  BY <1>1, <1>3, <1>4, <1>5, Unfilled DEF policies

(* A window keeps its place when its generation is offered more. *)
LEMMA HoldingMore ==
  ASSUME NEW S, NEW T, S \subseteq T, NEW win \in Holding(S)
  PROVE  win \in Holding(T)
<1>1. Seq(S) \subseteq Seq(T)
  OBVIOUS
<1> QED
  BY <1>1 DEF Holding

LEMMA IngestStep ==
  ASSUME IInv, NEW b \in Batches, Ingest(b)
  PROVE  IInv'
<1> DEFINE old == offered[ordinal]
           new == old \cup Range(b.samples)
           win == windows[ordinal]
           filled == Filled(win, b.samples, window)
<1>1. /\ windows' = [windows EXCEPT ![ordinal] = filled]
      /\ offered' = [offered EXCEPT ![ordinal] = new]
      /\ Permitted(b, clock)
      /\ UNCHANGED <<clockVars, policies, ordinal, baselines>>
  BY DEF Ingest
<1>2. /\ ordinal \in Generations /\ clock \in Clocks /\ window \in Windows
      /\ DOMAIN windows = Generations /\ DOMAIN offered = Generations
  BY DEF IInv, TypeOK
<1>3. Kept(ordinal)
  BY <1>2 DEF IInv
<1>4. /\ IsFiniteSet(old) /\ old \subseteq Storable(clock) /\ win \in Holding(old)
      /\ (\A w \in Windows : HasRoom(old, w)) => Range(win.samples) = old
  BY <1>3 DEF Kept
<1>5. b.samples \in Seq(Range(b.samples))
  BY AnalysisAssumption
<1>6. IsFiniteSet(Range(b.samples))
  BY <1>5, RangeFinite
<1>7. Range(b.samples) \subseteq Storable(clock)
  BY <1>1 DEF Storable
<1>8. IsFiniteSet(new) /\ new \subseteq Storable(clock)
  BY <1>4, <1>6, <1>7, FS_Union
<1>9. win \in Holding(new)
  BY <1>4, HoldingMore
<1>10. b.samples \in Seq(new)
  <2>1. Seq(Range(b.samples)) \subseteq Seq(new)
    OBVIOUS
  <2> QED
    BY <1>5, <2>1
<1>11. Stamped(new)
  BY <1>2, <1>8, StorableIs
<1>12. Bounding(window)
  BY <1>2, PolicyIs
<1> HIDE DEF new, old, win
<1>13. /\ filled \in Holding(new)
       /\ HasRoom(new, window) => Range(filled.samples) = Range(win.samples) \cup Range(b.samples)
  BY <1>8, <1>9, <1>10, <1>11, <1>12, FilledIs
<1> HIDE DEF filled
<1>14. ASSUME \A w \in Windows : HasRoom(new, w) PROVE Range(filled.samples) = new
  <2>1. Cardinality(old) <= Cardinality(new) /\ Cardinality(old) \in Nat /\ Cardinality(new) \in Nat
    <3>1. old \in SUBSET new
      BY DEF new
    <3> QED
      BY <1>4, <1>8, <3>1, FS_Subset, FS_CardinalityType
  <2>2. ASSUME NEW w \in Windows PROVE HasRoom(old, w)
    <3>1. Cardinality(new) <= w.capacity /\ w.capacity \in Nat
      BY <1>14, PolicyIs DEF HasRoom, Bounding
    <3> QED
      BY <2>1, <3>1 DEF HasRoom
  <2>3. Range(win.samples) = old
    BY <1>4, <2>2
  <2> QED
    BY <1>2, <1>13, <1>14, <2>3 DEF new
<1>15. windows'[ordinal] = filled /\ offered'[ordinal] = new
  BY <1>1, <1>2
<1>16. \A o \in Generations \ {ordinal} : windows'[o] = windows[o] /\ offered'[o] = offered[o]
  BY <1>1, <1>2
<1>17. clock' = clock /\ freshness' = freshness /\ window' = window
  BY <1>1 DEF policies
<1>18. ASSUME NEW o \in Generations PROVE Kept(o)'
  <2>1. CASE o = ordinal
    BY <1>8, <1>13, <1>14, <1>15, <1>17, <2>1 DEF Kept
  <2>2. CASE o # ordinal
    <3>1. Kept(o)
      BY DEF IInv
    <3> QED
      BY <1>16, <1>17, <2>2, <3>1 DEF Kept
  <2> QED
    BY <2>1, <2>2
<1>19. \A o \in Generations : Range(windows'[o].samples) \subseteq offered'[o]
  <2>1. ASSUME NEW o \in Generations PROVE Range(windows'[o].samples) \subseteq offered'[o]
    <3>1. windows'[o] \in Holding(offered'[o])
      BY <1>18 DEF Kept
    <3>2. windows'[o].samples \in Seq(offered'[o]) /\ Once(windows'[o].samples)
      BY <3>1 DEF Holding
    <3> QED
      BY <3>2, OnceCounts
  <2> QED
    BY <2>1
<1>20. TypeOK'
  BY <1>1, <1>2, <1>17, <1>19 DEF IInv, TypeOK, ClockTypeOK, clockVars, Generations
<1>21. DOMAIN windows' = Generations /\ DOMAIN offered' = Generations
  BY <1>1, <1>2
<1>22. baselines' = baselines /\ \A c \in baselines : Measured(c)'
  BY <1>1 DEF IInv, Measured
<1> QED
  BY <1>18, <1>20, <1>21, <1>22 DEF IInv, Generations

LEMMA ReconfigureStep ==
  ASSUME IInv, NEW w \in Windows, Reconfigure(w)
  PROVE  IInv'
<1>1. /\ window' = w /\ UNCHANGED <<clockVars, clock, freshness, ordinal, offered, baselines>>
      /\ windows' = [o \in Generations |-> Filled(NewWindow, Ordered(windows[o]), w)]
  BY DEF Reconfigure
<1>2. clock \in Clocks
  BY DEF IInv, TypeOK
<1>3. ASSUME NEW o \in Generations
      PROVE  /\ Kept(o)' /\ Range(windows'[o].samples) \subseteq offered'[o]
  <2> DEFINE S == offered[o]
             R == Range(windows[o].samples)
             batch == Ordered(windows[o])
             filled == Filled(NewWindow, batch, w)
  <2>1. Kept(o)
    BY DEF IInv
  <2>2. IsFiniteSet(S) /\ S \subseteq Storable(clock)
    BY <2>1 DEF Kept
  <2>3. R \subseteq S /\ IsFiniteSet(R) /\ Sortable(R)
    BY KeptIs
  <2>4. batch \in Seq(S) /\ Range(batch) = R
    <3>1. Canonical(R) \in Seq(R) /\ Range(Canonical(R)) = R
      BY <2>3, CanonicalIs
    <3>2. batch = Canonical(R)
      BY DEF Ordered
    <3> HIDE DEF batch, R, S
    <3>3. Seq(R) \subseteq Seq(S)
      BY <2>3
    <3> QED
      BY <3>1, <3>2, <3>3
  <2>5. NewWindow \in Holding(S) /\ Range(NewWindow.samples) = {}
    <3>1. <<>> \in Seq(S) /\ Once(<<>>) /\ Range(<<>>) = {}
      BY DEF Once, Range
    <3> QED
      BY <3>1 DEF NewWindow, Holding
  <2>6. Stamped(S) /\ Bounding(w)
    BY <1>2, <2>2, StorableIs, PolicyIs
  <2> HIDE DEF batch
  <2>7. /\ filled \in Holding(S)
        /\ HasRoom(S, w) => Range(filled.samples) = Range(NewWindow.samples) \cup Range(batch)
    <3> DEFINE win == NewWindow
    <3>1. win \in Holding(S)
      BY <2>5
    <3> HIDE DEF S, win
    <3>2. /\ Filled(win, batch, w) \in Holding(S)
          /\ HasRoom(S, w) => Range(Filled(win, batch, w).samples) = Range(win.samples) \cup Range(batch)
      BY <2>2, <2>4, <2>6, <3>1, FilledIs
    <3> QED
      BY <3>2 DEF win
  <2>8. windows'[o] = filled /\ offered'[o] = S /\ clock' = clock
    BY <1>1 DEF batch
  <2> HIDE DEF filled
  <2>9. (\A v \in Windows : HasRoom(S, v)) => R = S
    BY <2>1 DEF Kept
  <2>10. (\A v \in Windows : HasRoom(S, v)) => Range(filled.samples) = S
    <3> HIDE DEF R, S
    <3> QED
      BY <2>4, <2>5, <2>7, <2>9
  <2>11. Kept(o)'
    BY <2>2, <2>7, <2>8, <2>10 DEF Kept
  <2>12. filled.samples \in Seq(S) /\ Once(filled.samples)
    BY <2>7 DEF Holding
  <2>13. Range(filled.samples) \subseteq S
    BY <2>12, OnceCounts
  <2> QED
    BY <2>8, <2>11, <2>13
<1>4. TypeOK'
  BY <1>1, <1>3 DEF IInv, TypeOK, ClockTypeOK, clockVars, Generations
<1>5. DOMAIN windows' = Generations /\ DOMAIN offered' = Generations
  BY <1>1 DEF IInv
<1>6. baselines' = baselines /\ \A c \in baselines : Measured(c)'
  BY <1>1 DEF IInv, Measured
<1> QED
  BY <1>3, <1>4, <1>5, <1>6 DEF IInv, Generations

LEMMA StutterStep == IInv /\ UNCHANGED vars => IInv'
<1> SUFFICES ASSUME IInv, UNCHANGED vars PROVE IInv'
  OBVIOUS
<1>1. ClockTypeOK' /\ ordinal' \in Generations
  BY DEF IInv, TypeOK, ClockTypeOK, vars, clockVars
<1> QED
  BY <1>1, Unfilled DEF vars, policies, IInv, TypeOK

LEMMA InvStep == IInv /\ [Next]_vars => IInv'
<1> SUFFICES ASSUME IInv, [Next]_vars PROVE IInv'
  OBVIOUS
<1>1. CASE (\E d \in Domains : Register(d)) \/ \E e \in Offers : Declare(e)
  BY <1>1, ClockStep
<1>2. CASE \E b \in Batches : Ingest(b)
  BY <1>2, IngestStep
<1>3. CASE ChangeRoute
  BY <1>3, RouteStep
<1>4. CASE \E o \in Generations, at \in CaptureAt : Capture(o, at)
  BY <1>4, CaptureStep
<1>5. CASE \E w \in Windows : Reconfigure(w)
  BY <1>5, ReconfigureStep
<1>6. CASE UNCHANGED vars
  BY <1>6, StutterStep
<1> QED
  BY <1>1, <1>2, <1>3, <1>4, <1>5, <1>6 DEF Next

(* In every reachable state a window holds what the windows' policies let it *)
(* hold, and a baseline only values that were measured, after any steps      *)
(* (ingest, capture_baseline, a restart under another policy).               *)
THEOREM Invariance == Spec => []IInv
<1> QED
  BY InitIInv, InvStep, PTL DEF Spec

----------------------------------------------------------------------------
(* Windows hold only what was offered to them, and baselines_ never outgrows *)
(* its bound (store_samples, capture_baseline_locked).                       *)
THEOREM TypeCorrect == Spec => []TypeOK
<1>1. IInv => TypeOK
  BY DEF IInv
<1> QED
  BY <1>1, Invariance, PTL

(* A selection is what its policy says, for samples in any order             *)
(* (SampleWindow::select).                                                   *)
THEOREM SelectionsFollowPolicy == Spec => []SelectionAsDeclared
<1>1. IInv => SelectionAsDeclared
  <2> SUFFICES ASSUME IInv, NEW o \in Generations,
                      \A x, y \in Range(windows[o].samples) : Fits(x.observed - y.observed)
               PROVE  LET selected == Select(windows[o], window)
                          chosen == Chosen(Range(windows[o].samples), window)
                      IN /\ Range(selected) = chosen /\ Len(selected) = Cardinality(chosen)
                         /\ \A i, j \in DOMAIN selected : i < j => SampleLess(selected[i], selected[j])
    BY DEF SelectionAsDeclared
  <2>1. window \in Windows
    BY DEF IInv, TypeOK
  <2>2. /\ Once(Select(windows[o], window)) /\ Ascending(Select(windows[o], window))
        /\ Len(Select(windows[o], window)) = Cardinality(Range(Select(windows[o], window)))
    BY <2>1, KeptIs, PolicyIs, SelectShape
  <2>3. Range(Select(windows[o], window)) = Chosen(Range(windows[o].samples), window)
    BY <2>1, KeptIs, PolicyIs, SelectionIs
  <2> QED
    BY <2>2, <2>3 DEF Ascending
<1> QED
  BY <1>1, Invariance, PTL

(* As long as any policy would have had room for every observation, a        *)
(* selection does not depend on the order they came in nor on what policies  *)
(* were in force (SampleWindow::add, select).                                *)
THEOREM OrderOfArrivalIrrelevant == Spec => []OrderIndependent
<1>1. IInv => OrderIndependent
  <2> SUFFICES ASSUME IInv, NEW o \in Generations,
                      \A w \in Windows : HasRoom(offered[o], w)
               PROVE  Select(windows[o], window) =
                        Select(Filled(NewWindow, Canonical(offered[o]), window), window)
    BY DEF OrderIndependent, HasRoom
  <2> DEFINE S == offered[o]
             batch == Canonical(S)
             win == NewWindow
             inOrder == Filled(win, batch, window)
  <2>1. window \in Windows /\ clock \in Clocks
    BY DEF IInv, TypeOK
  <2>2. \A w \in Windows : HasRoom(S, w)
    OBVIOUS
  <2>3. IsFiniteSet(S) /\ S \subseteq Storable(clock) /\ Range(windows[o].samples) = S
    BY <2>2 DEF IInv, Kept
  <2>4. win \in Holding(S) /\ Range(win.samples) = {}
    <3>1. <<>> \in Seq(S) /\ Once(<<>>) /\ Range(<<>>) = {}
      BY DEF Once, Range
    <3> QED
      BY <3>1 DEF NewWindow, Holding
  <2> HIDE DEF S, win
  <2>5. Sortable(S) /\ Stamped(S)
    BY <2>1, <2>3, StorableIs
  <2>6. batch \in Seq(S) /\ Range(batch) = S
    BY <2>3, <2>5, CanonicalIs
  <2> HIDE DEF batch
  <2>7. Bounding(window) /\ HasRoom(S, window)
    BY <2>1, <2>2, PolicyIs
  <2>8. Range(inOrder.samples) = Range(win.samples) \cup Range(batch)
    <3>1. /\ inOrder \in Holding(S)
          /\ HasRoom(S, window) => Range(inOrder.samples) = Range(win.samples) \cup Range(batch)
      <4>1. IsFiniteSet(S) /\ Stamped(S) /\ win \in Holding(S) /\ batch \in Seq(S) /\ Bounding(window)
        BY <2>3, <2>4, <2>5, <2>6, <2>7
      <4> QED
        BY <4>1, FilledIs
    <3> QED
      BY <2>7, <3>1
  <2>9. Range(inOrder.samples) = Range(windows[o].samples)
    BY <2>3, <2>4, <2>6, <2>8
  <2>10. Ordered(inOrder) = Ordered(windows[o])
    BY <2>9 DEF Ordered
  <2> HIDE DEF inOrder
  <2>11. Select(inOrder, window) = Select(windows[o], window)
    BY <2>10 DEF Select
  <2> QED
    BY <2>11 DEF inOrder, batch, win, S
<1> QED
  BY <1>1, Invariance, PTL

(* A change is reported only between measurements of one generation under    *)
(* one window policy, each over enough observations that counted             *)
(* (compare_to_baseline, capture_baseline_locked).                           *)
THEOREM ComparisonsAreGrounded == Spec => []ComparisonGrounded
<1>1. IInv => ComparisonGrounded
  <2> SUFFICES ASSUME IInv, NEW b \in baselines, NEW o \in Generations, NEW at \in Instants,
                      NEW k \in DOMAIN Comparison(b, o, at),
                      Comparison(b, o, at)[k].verdict = "comparable"
               PROVE  /\ o = b.ordinal /\ window = b.window
                      /\ Cardinality(b.taken) >= Definition[k].min_samples
                      /\ Cardinality(Fresh(o, at)) >= Definition[k].min_samples
    BY DEF ComparisonGrounded, GroundedComparison
  <2> DEFINE current == Summary(o, at)
             c == Comparison(b, o, at)
  <2>1. k \in DOMAIN b.metrics /\ DOMAIN c = DOMAIN b.metrics
    BY DEF Comparison, Compare
  <2>2. c[k] = IF b.ordinal # o \/ b.window # window THEN Refused("incomparable")
               ELSE IF k \notin DOMAIN current.metrics THEN Refused("missing")
               ELSE IF ~AdmitsPositive(current.evidence)
                    THEN Refused(VerdictFor[Dominant(current.evidence)])
               ELSE [verdict |-> "comparable",
                     delta |-> <<b.metrics[k].value, current.metrics[k].value>>]
    BY <2>1 DEF Comparison, Compare
  <2> HIDE DEF current, c
  <2>3. c[k].verdict = "comparable"
    BY DEF c
  <2>4. Refused("incomparable").verdict # "comparable" /\ Refused("missing").verdict # "comparable"
    BY DEF Refused
  <2>5. b.ordinal = o /\ b.window = window /\ k \in DOMAIN current.metrics
    BY <2>2, <2>3, <2>4
  <2>6. Cardinality(b.taken) >= Definition[k].min_samples
    BY <2>1 DEF IInv, Measured
  <2>7. Cardinality(Fresh(o, at)) >= Definition[k].min_samples
    BY <2>5, SummaryFrom DEF current
  <2> QED
    BY <2>5, <2>6, <2>7
<1> QED
  BY <1>1, Invariance, PTL

(* What a step leaves alone. *)
LEMMA ClocksGrow ==
  IInv /\ [Next]_vars => domains \subseteq domains' /\ clock' = clock /\ freshness' = freshness
<1> SUFFICES ASSUME IInv, [Next]_vars
             PROVE  domains \subseteq domains' /\ clock' = clock /\ freshness' = freshness
  OBVIOUS
<1>1. CASE (\E d \in Domains : Register(d)) \/ \E e \in Offers : Declare(e)
  BY <1>1 DEF Register, RegisterDomain, Declare, DeclareEquivalence, policies
<1>2. CASE \E b \in Batches : Ingest(b)
  BY <1>2 DEF Ingest, policies, clockVars
<1>3. CASE ChangeRoute
  BY <1>3 DEF ChangeRoute, policies, clockVars
<1>4. CASE \E o \in Generations, at \in CaptureAt : Capture(o, at)
  BY <1>4 DEF Capture, policies, clockVars
<1>5. CASE \E w \in Windows : Reconfigure(w)
  BY <1>5 DEF Reconfigure, clockVars
<1>6. CASE UNCHANGED vars
  BY <1>6 DEF vars, policies, clockVars
<1> QED
  BY <1>1, <1>2, <1>3, <1>4, <1>5, <1>6 DEF Next

(* Evidence does not come back to life: what is stale or expired at an       *)
(* instant is not fresh at a later one, whatever happens to the clocks in    *)
(* between (assess_sample over ClockModel::assess).                          *)
THEOREM EvidenceAges == Spec => NeverRefreshed
<1> DEFINE Aged ==
      <<clockVars, windows>>' # <<clockVars, windows>> =>
        \A x \in UNION {Range(windows'[o].samples) : o \in Generations} :
          \A at1, at2 \in Instants :
            /\ at1 <= at2 /\ Fits(at2 - x.observed)
            /\ Past(x, at1)
            => ~FreshAt(x, at2)'
<1>1. IInv /\ [Next]_vars => [Aged]_vars
  <2> SUFFICES ASSUME IInv, [Next]_vars,
                      NEW o \in Generations, NEW x \in Range(windows'[o].samples),
                      NEW at1 \in Instants, NEW at2 \in Instants,
                      at1 <= at2, Fits(at2 - x.observed), Past(x, at1), FreshAt(x, at2)'
               PROVE  FALSE
    OBVIOUS
  <2> DEFINE p == freshness
             c1 == Comparability(clock, Local, at1)
             c2 == Comparability(clock, Local, at2)'
  <2>1. domains \subseteq domains' /\ clock' = clock /\ freshness' = freshness
    BY ClocksGrow
  <2>2. x.observed \in Int /\ x.received \in Int
    <3>1. Kept(o)' /\ clock' \in Clocks
      BY InvStep DEF IInv, TypeOK, Generations
    <3>2. windows'[o].samples \in Seq(offered'[o]) /\ offered'[o] \subseteq Storable(clock')
      BY <3>1 DEF Kept, Holding
    <3>3. x \in offered'[o]
      BY <3>2 DEF Range
    <3> QED
      BY <3>1, <3>2, <3>3, AnalysisAssumption DEF Storable, IsSample
  <2>3. at1 \in Int /\ at2 \in Int
    BY AnalysisAssumption
  <2>4. /\ p.max_ingest \in Int /\ p.expiry_ingest \in Int /\ p.expiry_ingest >= p.max_ingest
        /\ p.max_observation \in Int /\ p.expiry_observation \in Int
        /\ p.expiry_observation >= p.max_observation
    BY AnalysisAssumption DEF IInv, TypeOK, ValidFreshness
  <2>5. c1 = "comparable" => c2 \in {"comparable", "incomparable"}
    BY <2>1 DEF Comparability
  <2>6. \/ at1 - x.received > p.max_ingest
        \/ c1 = "comparable" /\ at1 - x.observed > p.max_observation
    <3> HIDE DEF c1
    <3> QED
      BY <2>2, <2>3, <2>4 DEF Past, AssessSample, c1
  <2>7. /\ Fits(at2 - x.received) /\ at2 - x.received <= p.max_ingest
        /\ c2 = "comparable" => at2 - x.observed <= p.max_observation
        /\ c2 # "incomparable"
    <3>1. AssessSample(x, clock, at2, freshness)' = "fresh"
      BY DEF FreshAt
    <3> QED
      BY <2>1, <2>2, <2>3, <2>4, <3>1 DEF AssessSample
  <2> HIDE DEF c1, c2, p
  <2> QED
    BY <2>2, <2>3, <2>4, <2>5, <2>6, <2>7
<1> QED
  BY <1>1, Invariance, PTL DEF Spec, NeverRefreshed

----------------------------------------------------------------------------
(* What counts as evidence.  The clocks of the series and of the engine are  *)
(* known, or a sample of a strange clock could be fresh.                     *)
Registered == {Local, clock} \subseteq domains

LEMMA ClocksKnown == Spec => []Registered
<1>1. Init => Registered
  BY DEF Init, Registered
<1>2. IInv /\ Registered /\ [Next]_vars => Registered'
  BY ClocksGrow DEF Registered
<1> QED
  BY <1>1, <1>2, Invariance, PTL DEF Spec

LEMMA SampleIs ==
  ASSUME IInv, NEW o \in Generations, NEW x \in Range(windows[o].samples)
  PROVE  IsSample(x)
<1>1. Kept(o) /\ clock \in Clocks
  BY DEF IInv, TypeOK
<1>2. x \in Storable(clock)
  BY <1>1, KeptIs DEF Kept
<1> QED
  BY <1>1, <1>2, AnalysisAssumption DEF Storable

(* A clock that is comparable with the engine's can be dated. *)
LEMMA Datable ==
  ASSUME IInv, NEW at \in Instants, Comparability(clock, Local, at) = "comparable"
  PROVE  Dated(at)
<1>1. at \in Int /\ equivalences \subseteq Equivalence
  BY AnalysisAssumption DEF IInv, TypeOK, ClockTypeOK
<1>2. CASE clock = Local
  BY <1>2 DEF Dated
<1>3. CASE clock # Local
  <2>1. /\ Convertible => HasRate(clock)
        /\ Declared(clock, Local, at) # {}
    BY <1>3, ClockAssumption DEF Comparability
  <2>2. PICK e \in equivalences :
          Between(e, clock, Local) /\ ~Expired(e, at) /\ e.authority >= MinAuthority
    BY <2>1 DEF Declared
  <2>3. e.until = Forever \/ at <= e.until
    <3>1. e.until \in Nat \cup {Forever}
      BY <1>1 DEF Equivalence
    <3> QED
      BY <1>1, <2>2, <3>1 DEF Expired
  <2> QED
    BY <2>1, <2>2, <2>3 DEF Dated, Between
<1> QED
  BY <1>2, <1>3

LEMMA RateIs == ASSUME NEW d \in Domains PROVE Rate(d) \in Nat
BY ClockAssumption DEF Rate

(* Scaling up the reading of a clock does not lower it. *)
LEMMA ScaledUp ==
  ASSUME NEW a \in Nat, NEW r \in Nat, r # 0
  PROVE  a * r \in Nat /\ a * r >= a
<1>1. PICK q \in Nat : r = q + 1
  <2>1. r - 1 \in Nat /\ r = (r - 1) + 1
    OBVIOUS
  <2> QED
    BY <2>1
<1>2. a * q \in Nat /\ a * (q + 1) = a * q + a
  OBVIOUS
<1> QED
  BY <1>1, <1>2

LEMMA FreshMayCount ==
  ASSUME IInv, Registered, NEW o \in Generations, NEW x \in Range(windows[o].samples),
         NEW at \in Instants, FreshAt(x, at)
  PROVE  Admissible(x, at)
<1> DEFINE p == freshness
           c == Comparability(clock, Local, at)
           r == Rate(clock)
           age == at - x.observed * r
           plain == at - x.observed
<1>1. x.observed \in Int /\ x.received \in Int /\ at \in Int /\ r \in Nat
  <2>1. clock \in Domains
    BY AnalysisAssumption DEF IInv, TypeOK
  <2> QED
    BY <2>1, SampleIs, RateIs, AnalysisAssumption DEF IsSample
<1>2. /\ p.max_ingest \in Int /\ p.expiry_ingest \in Int /\ p.expiry_ingest >= p.max_ingest
      /\ p.max_observation \in Int /\ p.expiry_observation \in Int
      /\ p.expiry_observation >= p.max_observation
      /\ p.future \in Int /\ p.require_observation \in BOOLEAN
  BY AnalysisAssumption DEF IInv, TypeOK, ValidFreshness
<1>3. c \in {"comparable", "incomparable"}
  BY DEF Comparability, Registered
<1>4. /\ at - x.received <= p.max_ingest /\ c = "comparable"
      /\ \/ Fits(plain) /\ plain <= p.max_observation /\ plain >= -p.future
         \/ ~Fits(plain) /\ ~p.require_observation
  <2> HIDE DEF c
  <2>1. AssessSample(x, clock, at, freshness) = "fresh"
    BY DEF FreshAt
  <2> QED
    BY <1>1, <1>2, <1>3, <2>1 DEF AssessSample, c
<1>5. Dated(at)
  BY <1>4, Datable
<1>6. r = 1 => age = plain
  BY <1>1
<1>7. r # 0 /\ x.observed >= 0 => age <= plain
  <2> HAVE r # 0 /\ x.observed >= 0
  <2> DEFINE a == x.observed
  <2>1. a \in Nat
    BY <1>1
  <2>2. a * r \in Nat /\ a * r >= a
    BY <1>1, <2>1, ScaledUp
  <2> DEFINE m == a * r
  <2> HIDE DEF m
  <2>3. at - m <= at - a
    BY <1>1, <2>1, <2>2 DEF m
  <2> QED
    BY <2>3 DEF m
<1>8. age \in Int
  BY <1>1
<1> HIDE DEF c
<1>9. \/ /\ r = 1 => age \in -p.future .. p.max_observation
         /\ HasRate(clock) /\ x.observed >= 0 => age <= p.max_observation
      \/ ~p.require_observation /\ ~Fits(plain)
  <2>1. HasRate(clock) <=> r # 0
    BY DEF HasRate
  <2> HIDE DEF r
  <2>2. plain \in Int
    BY <1>1
  <2> HIDE DEF age
  <2>3. ASSUME Fits(plain), plain <= p.max_observation, plain >= -p.future
        PROVE  /\ r = 1 => age \in -p.future .. p.max_observation
               /\ HasRate(clock) /\ x.observed >= 0 => age <= p.max_observation
    <3> HIDE DEF plain
    <3> QED
      BY <1>2, <1>6, <1>7, <1>8, <2>1, <2>2, <2>3
  <2> QED
    BY <1>4, <2>3
<1> QED
  BY <1>4, <1>5, <1>9 DEF Admissible

(* What classify asks before it says anything positive. *)
LEMMA LevelNeeds ==
  ASSUME NEW evidence, evidence["fresh"] \in Nat, NEW metrics, NEW current, NEW p,
         p.min_fresh \in Nat, Level(evidence, metrics, current, p) \in Positive
  PROVE  current /\ evidence["fresh"] >= p.min_fresh
<1>1. current /\ ~(evidence["fresh"] < p.min_fresh)
  BY DEF Level, Positive
<1> QED
  BY <1>1

(* No verdict without evidence: a positive level rests on enough selected    *)
(* samples of the open generation that are young and of a clock that can be  *)
(* dated (summarize_locked, assess_sample, classify).                        *)
THEOREM VerdictsNeedEvidence == Spec => []VerdictNeedsEvidence
<1>1. IInv /\ Registered => VerdictNeedsEvidence
  <2> SUFFICES ASSUME IInv, Registered, NEW o \in Generations, NEW at \in Instants,
                      Summary(o, at).level \in Positive
               PROVE  /\ o = ordinal
                      /\ Cardinality({x \in Range(Select(windows[o], window)) :
                                        Admissible(x, at)}) >= Policy.min_fresh
    BY DEF VerdictNeedsEvidence
  <2> DEFINE selected == Select(windows[o], window)
             states == [i \in DOMAIN selected |-> AssessSample(selected[i], clock, at, freshness)]
             I == {i \in DOMAIN selected : FreshAt(selected[i], at)}
             A == {x \in Range(selected) : Admissible(x, at)}
             F == Fresh(o, at)
  <2>1. /\ selected \in Seq(Range(windows[o].samples)) /\ IsFiniteSet(Range(selected))
        /\ F \subseteq Range(selected) /\ Cardinality(F) = Cardinality(I) /\ IsFiniteSet(I)
    BY FreshCounted
  <2>2. EvidenceOf(states)["fresh"] = Cardinality(I)
    <3>1. {i \in DOMAIN states : states[i] = "fresh"} = I
      BY DEF FreshAt
    <3> HIDE DEF states, I
    <3> QED
      BY <3>1 DEF EvidenceOf, EvidenceStates
  <2>3. Summary(o, at).level =
          Level(EvidenceOf(states), Summary(o, at).metrics, o = ordinal, Policy)
    BY DEF Summary, SummaryOf, WithLevel
  <2>4. Cardinality(I) \in Nat /\ Policy.min_fresh \in Nat
    <3> HIDE DEF I
    <3> QED
      BY <2>1, FS_CardinalityType, AnalysisAssumption DEF ValidPolicy
  <2>5. o = ordinal /\ Cardinality(I) >= Policy.min_fresh
    <3> DEFINE evidence == EvidenceOf(states)
               metrics == Summary(o, at).metrics
               current == o = ordinal
    <3>1. evidence["fresh"] = Cardinality(I)
      BY <2>2
    <3>2. Level(evidence, metrics, current, Policy) \in Positive
      BY <2>3
    <3> HIDE DEF evidence, metrics, current, I
    <3>3. current /\ evidence["fresh"] >= Policy.min_fresh
      BY <2>4, <3>1, <3>2, LevelNeeds
    <3> QED
      BY <3>1, <3>3 DEF current
  <2>6. F \subseteq A
    <3> SUFFICES ASSUME NEW x \in F PROVE x \in A
      OBVIOUS
    <3>1. x \in Range(selected) /\ FreshAt(x, at)
      BY DEF Fresh
    <3>2. Range(selected) \subseteq Range(windows[o].samples)
      <4> HIDE DEF selected
      <4> QED
        BY <2>1 DEF Range
    <3>3. Admissible(x, at)
      BY <3>1, <3>2, FreshMayCount
    <3> QED
      BY <3>1, <3>3
  <2>7. IsFiniteSet(A) /\ Cardinality(A) >= Cardinality(F)
    <3>1. IsFiniteSet(A)
      <4> HIDE DEF selected
      <4>1. A \in SUBSET Range(selected)
        OBVIOUS
      <4> HIDE DEF A
      <4> QED
        BY <2>1, <4>1, FS_Subset
    <3> HIDE DEF A, F
    <3>2. IsFiniteSet(F) /\ Cardinality(F) <= Cardinality(A)
      BY <2>6, <3>1, FS_Subset
    <3>3. Cardinality(A) \in Nat /\ Cardinality(F) \in Nat
      BY <3>1, <3>2, FS_CardinalityType
    <3> QED
      BY <3>1, <3>2, <3>3
  <2>8. Cardinality(A) \in Nat
    <3> HIDE DEF A
    <3> QED
      BY <2>7, FS_CardinalityType
  <2> HIDE DEF I, F, A
  <2>9. Cardinality(A) >= Policy.min_fresh
    BY <2>1, <2>4, <2>5, <2>7, <2>8
  <2> QED
    BY <2>5, <2>9 DEF A
<1> QED
  BY <1>1, Invariance, ClocksKnown, PTL

----------------------------------------------------------------------------
(* Whether two clocks are comparable does not depend on which comes first. *)
LEMMA ComparableBothWays ==
  ASSUME NEW a, NEW b, NEW at, Comparability(a, b, at) = "comparable"
  PROVE  Comparability(b, a, at) = "comparable"
<1>1. {a, b} = {b, a}
  OBVIOUS
<1>2. Declared(a, b, at) = Declared(b, a, at)
  BY <1>1 DEF Declared, Between
<1> QED
  BY <1>1, <1>2 DEF Comparability

(* The readings of a hop are a sequence. *)
LEMMA ArrivalsAre ==
  ASSUME NEW Y, NEW selected \in Seq(Y), Once(selected), NEW h
  PROVE  /\ Len(Arrivals(selected, h)) \in Nat
         /\ DOMAIN Arrivals(selected, h) = 1..Len(Arrivals(selected, h))
         /\ Arrivals(selected, h) = <<>> \/ Len(Arrivals(selected, h)) > 0
<1> DEFINE T == {x \in Range(selected) : h \in DOMAIN x.arrived}
           timed == Filtered(selected, T)
<1> HIDE DEF T
<1>1. timed \in Seq(Y)
  BY FilteredIs
<1>2. Arrivals(selected, h) = [i \in DOMAIN timed |-> timed[i].arrived[h]]
  BY DEF Arrivals, T
<1> HIDE DEF timed
<1>3. Arrivals(selected, h) = [i \in 1..Len(timed) |-> timed[i].arrived[h]] /\ Len(timed) \in Nat
  BY <1>1, <1>2
<1>4. /\ DOMAIN Arrivals(selected, h) = 1..Len(timed)
      /\ Len(Arrivals(selected, h)) = Len(timed)
  BY <1>3
<1>5. Len(timed) = 0 => Arrivals(selected, h) = <<>>
  BY <1>3
<1> QED
  BY <1>3, <1>4, <1>5

(* A hop with a value has readings of one clock, and is what the metric makes *)
(* of them in nanoseconds.                                                   *)
LEMMA HopIs ==
  ASSUME NEW Y, NEW selected \in Seq(Y), Once(selected), NEW h, NEW at,
         HopAttribution(Arrivals(selected, h), clock, HopKey, MinArrivals, at).state = "attributed"
  PROVE  LET arrivals == Arrivals(selected, h)
             d == arrivals[1].domain
             result == Compute(HopKey, Nanos(arrivals))
         IN /\ Len(arrivals) \in Nat \ {0} /\ DOMAIN arrivals = 1..Len(arrivals)
            /\ \A i \in DOMAIN arrivals : arrivals[i].domain = d
            /\ Comparability(d, clock, at) = "comparable"
            /\ InNanos(arrivals) /\ result.code = "ok"
            /\ HopAttribution(arrivals, clock, HopKey, MinArrivals, at).value = result.value
<1> DEFINE arrivals == Arrivals(selected, h)
           d == arrivals[1].domain
           report == HopAttribution(arrivals, clock, HopKey, MinArrivals, at)
           result == Compute(HopKey, Nanos(arrivals))
<1>1. /\ Len(arrivals) \in Nat /\ DOMAIN arrivals = 1..Len(arrivals)
      /\ arrivals = <<>> \/ Len(arrivals) > 0
  BY ArrivalsAre
<1>2. report.state = "attributed"
  OBVIOUS
<1> HIDE DEF arrivals
<1>3. arrivals # <<>>
  <2>1. arrivals = <<>> => report = [state |-> "absent"]
    BY DEF HopAttribution
  <2> HIDE DEF report
  <2> QED
    BY <1>2, <2>1
<1>4. /\ \A i \in DOMAIN arrivals : arrivals[i].domain = d
      /\ Comparability(d, clock, at) = "comparable"
  <2>1. (\E i \in DOMAIN arrivals : arrivals[i].domain # d)
          \/ Comparability(d, clock, at) # "comparable"
          => report = [state |-> "unsupported"]
    BY <1>3 DEF HopAttribution
  <2> HIDE DEF report, d
  <2> QED
    BY <1>2, <2>1
<1>5. report = IF Len(arrivals) < MinArrivals THEN [state |-> "insufficient"]
               ELSE IF ~InNanos(arrivals) THEN [state |-> "unsupported"]
               ELSE HopValue(result)
  BY <1>3, <1>4 DEF HopAttribution
<1> HIDE DEF report, result
<1>6. InNanos(arrivals) /\ report = HopValue(result)
  BY <1>2, <1>5
<1>7. result.code = "ok"
  BY <1>2, <1>6 DEF HopValue
<1>8. report.value = result.value
  BY <1>6, <1>7 DEF HopValue
<1> QED
  BY <1>1, <1>3, <1>4, <1>6, <1>7, <1>8 DEF arrivals, d, report, result

LEMMA HopNeeds ==
  ASSUME NEW Y, NEW selected \in Seq(Y), Once(selected), NEW h, NEW at,
         HopAttribution(Arrivals(selected, h), clock, HopKey, MinArrivals, at).state = "attributed"
  PROVE  OfOneClock(Arrivals(selected, h), at)
<1> DEFINE arrivals == Arrivals(selected, h)
           d == arrivals[1].domain
           result == Compute(HopKey, Nanos(arrivals))
<1>1. /\ Len(arrivals) \in Nat /\ DOMAIN arrivals = 1..Len(arrivals)
      /\ \A i \in DOMAIN arrivals : arrivals[i].domain = d
      /\ Comparability(d, clock, at) = "comparable"
      /\ InNanos(arrivals) /\ result.code = "ok"
  BY HopIs
<1> HIDE DEF arrivals, result
<1>2. Len(arrivals) >= Definition[HopKey].min_samples
  <2> DEFINE Z == {arrivals[i].ticks * Rate(arrivals[i].domain) : i \in DOMAIN arrivals}
  <2>1. Nanos(arrivals) \in Seq(Z) /\ Len(Nanos(arrivals)) = Len(arrivals)
    <3>1. Nanos(arrivals) \in [1..Len(arrivals) -> Z]
      BY <1>1 DEF Nanos
    <3> HIDE DEF Z
    <3> QED
      BY <1>1, <3>1
  <2>2. HopKey \in MetricKey
    BY AnalysisAssumption
  <2> HIDE DEF Z
  <2> QED
    BY <1>1, <2>1, <2>2, ComputedFrom DEF result
<1>3. HasRate(d)
  BY <1>1 DEF InNanos
<1>4. Comparability(clock, d, at) = "comparable"
  BY <1>1, ComparableBothWays
<1> QED
  BY <1>1, <1>2, <1>3, <1>4 DEF OfOneClock, arrivals

(* Only readings of one clock, comparable with the series' at the instant,   *)
(* make the value of a hop, and a complete report leaves none out            *)
(* (attribute_hops).                                                         *)
THEOREM AttributionsAreGrounded == Spec => []AttributionGrounded
<1>1. IInv => AttributionGrounded
  <2> SUFFICES ASSUME IInv, NEW at \in Instants
               PROVE  /\ \A h \in Hops : HopReport(at).hops[h].state = "attributed" =>
                           OfOneClock(Arrivals(Select(windows[ordinal], window), h), at)
                      /\ HopReport(at).complete =>
                           \A h \in Hops : HopReport(at).hops[h].state = "attributed"
    BY DEF AttributionGrounded
  <2> DEFINE selected == Select(windows[ordinal], window)
             Y == Range(windows[ordinal].samples)
             hops == [h \in Hops |->
                        HopAttribution(Arrivals(selected, h), clock, HopKey, MinArrivals, at)]
  <2>1. selected \in Seq(Y) /\ Once(selected)
    <3>1. ordinal \in Generations
      BY DEF IInv, TypeOK
    <3> QED
      BY <3>1, FreshCounted
  <2>2. HopReport(at) = Completeness(hops, TRUE)
    BY DEF HopReport, Attribution
  <2> HIDE DEF selected
  <2>3. \A h \in Hops : HopReport(at).hops[h].state = "attributed" =>
          OfOneClock(Arrivals(selected, h), at)
    <3> TAKE h \in Hops
    <3> HAVE HopReport(at).hops[h].state = "attributed"
    <3>1. HopReport(at).hops[h] =
            HopAttribution(Arrivals(selected, h), clock, HopKey, MinArrivals, at)
      BY <2>2 DEF Completeness
    <3> HIDE DEF Y
    <3> QED
      BY <2>1, <3>1, HopNeeds
  <2> HIDE DEF hops
  <2>4. HopReport(at).complete => \A h \in Hops : HopReport(at).hops[h].state = "attributed"
    <3> DEFINE complete == /\ Hops # {} /\ TRUE
                           /\ \A h \in Hops : hops[h].state = "attributed"
    <3>1. HopReport(at) = [hops |-> hops, complete |-> complete]
      BY <2>2, Zenon DEF Completeness
    <3>2. complete => \A h \in Hops : hops[h].state = "attributed"
      OBVIOUS
    <3> HIDE DEF complete
    <3>3. HopReport(at).hops = hops /\ HopReport(at).complete = complete
      BY <3>1
    <3> QED
      BY <3>2, <3>3, Zenon
  <2> QED
    BY <2>3, <2>4 DEF selected
<1> QED
  BY <1>1, Invariance, PTL

----------------------------------------------------------------------------
(* What is computed.  A value is the one the formula declares.               *)
LEMMA ValueIs ==
  ASSUME NEW key \in MetricKey \ Misdeclared, NEW xs \in Seq(Int),
         Compute(key, xs).code = "ok",
         Definition[key].input = "absolute" => Negatable(xs),
         key = "PeakToPeak" => Spannable(xs)
  PROVE  /\ Alike(Compute(key, xs).value, Formula(key, xs))
         /\ Compute(key, xs).terms =
              IF Definition[key].input = "latency" THEN Len(xs) ELSE Len(xs) - 1
<1> DEFINE n == Len(xs)
<1>1. n \in Nat /\ xs \in [1..n -> Int]
  OBVIOUS
<1>2. Measurable(key, xs)
  BY ComputeIs
<1>3. Compute(key, xs) =
        Computed(Estimate(Definition[key].estimator, Terms(key, xs)), Len(Terms(key, xs)))
  BY <1>2, ComputeIs
<1>4. /\ Compute(key, xs).value = Estimate(Definition[key].estimator, Terms(key, xs))
      /\ Compute(key, xs).terms = Len(Terms(key, xs))
  BY <1>3 DEF Computed
<1>5. Meaningful(key, xs)
  BY <1>2 DEF Meaningful, Measurable
<1>6. n \in Nat \ {0}
  <2>1. Definition[key].min_samples \in Nat \ {0} /\ n >= Definition[key].min_samples
    BY <1>2, TableIs DEF Def, Measurable
  <2> QED
    BY <1>1, <2>1
<1> HIDE DEF n
<1>7. Alike(Compute(key, xs).value, Formula(key, xs))
  BY <1>1, <1>4, <1>5, MetricIs
<1>8. Len(Terms(key, xs)) = IF Definition[key].input = "latency" THEN n ELSE n - 1
  BY <1>1, <1>6, TermsCounted
<1> QED
  BY <1>4, <1>7, <1>8 DEF n

(* Latencies are within limits whose difference is a number of 64 bits.      *)
Limited(S) == \A x \in S : x.latency \in MinLatency..MaxLatency

LEMMA KeptLimited ==
  ASSUME IInv, NEW o \in Generations
  PROVE  Limited(Range(windows[o].samples))
<1> SUFFICES ASSUME NEW x \in Range(windows[o].samples) PROVE x.latency \in MinLatency..MaxLatency
  BY DEF Limited
<1>1. Kept(o)
  BY DEF IInv
<1>2. x \in Storable(clock)
  BY <1>1, KeptIs DEF Kept
<1>3. PICK b \in Batches : Permitted(b, clock) /\ x \in Range(b.samples)
  BY <1>2 DEF Storable
<1>4. PICK i \in DOMAIN b.samples : x = b.samples[i]
  BY <1>3 DEF Range
<1> QED
  BY <1>3, <1>4 DEF Permitted, ValidBatch, ValidSample

LEMMA LatenciesAre ==
  ASSUME NEW S, Limited(S), NEW s \in Seq(S)
  PROVE  LET xs == Latencies(s) IN
         /\ xs \in Seq(Int) /\ Len(xs) = Len(s)
         /\ Negatable(xs) /\ Spannable(xs)
         /\ \A i \in DOMAIN Steps(xs) : Fits(Steps(xs)[i])
<1> DEFINE n == Len(s)
           xs == Latencies(s)
           L == MinLatency..MaxLatency
<1>1. n \in Nat /\ DOMAIN s = 1..n /\ \A i \in 1..n : s[i].latency \in L
  BY DEF Limited
<1>2. /\ MinLatency \in Int /\ MaxLatency \in Int /\ MaxInt \in Nat
      /\ MaxLatency - MinLatency <= MaxInt
  BY AdmissionAssumption, AnalysisAssumption, CheckedAssumption
<1>3. xs = [i \in 1..n |-> s[i].latency]
  BY <1>1 DEF Latencies
<1> HIDE DEF n, xs
<1>4. xs \in [1..n -> L]
  BY <1>1, <1>3
<1>5. xs \in Seq(Int) /\ Len(xs) = n
  BY <1>1, <1>2, <1>4
<1>6. \A u, v \in L : u - v \in -MaxInt..MaxInt
  BY <1>2
<1>7. Spannable(xs)
  <2>1. Range(xs) \subseteq L
    BY <1>4 DEF Range
  <2> HIDE DEF L
  <2>2. \A u, v \in Range(xs) : u - v \in -MaxInt..MaxInt
    BY <1>6, <2>1
  <2> QED
    BY <1>2, <2>2 DEF Spannable
<1>8. \A i \in DOMAIN Steps(xs) : Steps(xs)[i] \in -MaxInt..MaxInt
  <2>1. Steps(xs) = [i \in 1..(n - 1) |-> xs[i + 1] - xs[i]]
    BY <1>5 DEF Steps
  <2>2. \A i \in 1..(n - 1) : i + 1 \in 1..n /\ i \in 1..n
    BY <1>1
  <2> HIDE DEF L
  <2> QED
    BY <1>4, <1>6, <2>1, <2>2
<1>9. Negatable(xs) /\ \A i \in DOMAIN Steps(xs) : Fits(Steps(xs)[i])
  BY <1>2, <1>8 DEF Negatable, Fits
<1> QED
  BY <1>5, <1>7, <1>9 DEF xs, n

(* The metrics of a selection. *)
LEMMA SelectionFollows == IInv => Follows(MetricKey \ Misdeclared)
<1> SUFFICES ASSUME IInv, NEW o \in Generations, NEW key \in MetricKey \ Misdeclared
             PROVE  LET xs == Latencies(Select(windows[o], window))
                        result == Compute(key, xs)
                    IN /\ Len(xs) < Definition[key].min_samples => result.code # "ok"
                       /\ result.code = "ok" => SameValue(result.value, Formula(key, xs))
                       /\ /\ Len(xs) >= Definition[key].min_samples
                          /\ Definition[key].input # "latency" =>
                               \A i \in DOMAIN Steps(xs) : Fits(Steps(xs)[i])
                          /\ key = "CoefficientOfVariation" => Mean(xs).num > 0
                          => result.code = "ok"
  BY DEF Follows
<1> DEFINE xs == Latencies(Select(windows[o], window))
           result == Compute(key, xs)
<1>1. xs \in Seq(Int) /\ Negatable(xs) /\ Spannable(xs)
  <2> DEFINE S == Range(windows[o].samples)
             selected == Select(windows[o], window)
  <2>1. Limited(S) /\ selected \in Seq(S)
    BY KeptLimited, FreshCounted
  <2> HIDE DEF S, selected
  <2>2. Latencies(selected) \in Seq(Int) /\ Negatable(Latencies(selected)) /\ Spannable(Latencies(selected))
    BY <2>1, LatenciesAre
  <2> QED
    BY <2>2 DEF selected
<1> HIDE DEF xs
<1>2. result.code = "ok" <=> Measurable(key, xs)
  BY <1>1, ComputeIs
<1>3. ASSUME result.code = "ok" PROVE SameValue(result.value, Formula(key, xs))
  BY <1>1, <1>3, ValueIs DEF Alike
<1>4. Len(xs) \in Nat /\ Definition[key].min_samples \in Nat
  BY <1>1, TableIs DEF Def
<1>5. Mean(xs).num = Sum(xs)
  BY DEF Mean, Fraction
<1> QED
  BY <1>2, <1>3, <1>4, <1>5 DEF xs, Measurable

(* The readings of a hop are those of the samples that have one.             *)
LEMMA ArrivalsOf ==
  ASSUME NEW Y, NEW selected \in Seq(Y), Once(selected), NEW h,
         NEW i \in DOMAIN Arrivals(selected, h)
  PROVE  \E x \in Y : h \in DOMAIN x.arrived /\ Arrivals(selected, h)[i] = x.arrived[h]
<1> DEFINE T == {x \in Range(selected) : h \in DOMAIN x.arrived}
           timed == Filtered(selected, T)
<1>1. \A x \in T : h \in DOMAIN x.arrived
  OBVIOUS
<1>2. Arrivals(selected, h) = [k \in DOMAIN timed |-> timed[k].arrived[h]]
  BY DEF Arrivals
<1> HIDE DEF T
<1>3. timed \in Seq(Y) /\ Range(timed) \subseteq T
  BY FilteredIs
<1> HIDE DEF timed
<1>4. i \in DOMAIN timed /\ timed[i] \in Y /\ timed[i] \in T
  BY <1>2, <1>3 DEF Range
<1> QED
  BY <1>1, <1>2, <1>4

(* The metric of a hop. *)
LEMMA HopsAreFollowed == IInv => HopsFollow(MetricKey \ Misdeclared)
<1> SUFFICES ASSUME IInv, NEW at \in Instants, NEW h \in Hops
             PROVE  LET hop == HopReport(at).hops[h]
                        arrivals == Arrivals(Select(windows[ordinal], window), h)
                        xs == [i \in DOMAIN arrivals |->
                                 arrivals[i].ticks * Rate(arrivals[i].domain)]
                    IN /\ hop.state = "attributed" /\ HopKey \in MetricKey \ Misdeclared
                       /\ Definition[HopKey].input = "absolute" =>
                            \A i \in DOMAIN Steps(xs) : Steps(xs)[i] # -MaxInt - 1
                       => SameValue(hop.value, Formula(HopKey, xs))
  BY DEF HopsFollow
<1> DEFINE selected == Select(windows[ordinal], window)
           Y == Range(windows[ordinal].samples)
           arrivals == Arrivals(selected, h)
           n == Len(arrivals)
           xs == [i \in DOMAIN arrivals |-> arrivals[i].ticks * Rate(arrivals[i].domain)]
           hop == HopReport(at).hops[h]
           result == Compute(HopKey, xs)
<1>1. selected \in Seq(Y) /\ Once(selected) /\ \A x \in Y : IsSample(x)
  <2>1. ordinal \in Generations
    BY DEF IInv, TypeOK
  <2> QED
    BY <2>1, FreshCounted, SampleIs
<1>2. hop = HopAttribution(arrivals, clock, HopKey, MinArrivals, at)
  BY DEF HopReport, Attribution, Completeness
<1> SUFFICES ASSUME hop.state = "attributed", HopKey \in MetricKey \ Misdeclared,
                    Definition[HopKey].input = "absolute" =>
                      \A i \in DOMAIN Steps(xs) : Steps(xs)[i] # -MaxInt - 1
             PROVE  SameValue(hop.value, Formula(HopKey, xs))
  OBVIOUS
<1>3. /\ n \in Nat \ {0} /\ DOMAIN arrivals = 1..n
      /\ \A i \in DOMAIN arrivals : arrivals[i].domain = arrivals[1].domain
      /\ Comparability(arrivals[1].domain, clock, at) = "comparable"
      /\ InNanos(arrivals) /\ Compute(HopKey, Nanos(arrivals)).code = "ok"
      /\ hop.value = Compute(HopKey, Nanos(arrivals)).value
  <2> HIDE DEF selected, Y, hop
  <2>1. HopAttribution(arrivals, clock, HopKey, MinArrivals, at).state = "attributed"
    BY <1>2
  <2> QED
    BY <1>1, <1>2, <2>1, HopIs
<1>4. \A i \in 1..n : arrivals[i].ticks \in Int
  <2> TAKE i \in 1..n
  <2> HIDE DEF selected, Y
  <2>1. PICK x \in Y : h \in DOMAIN x.arrived /\ arrivals[i] = x.arrived[h]
    BY <1>1, <1>3, ArrivalsOf
  <2> QED
    BY <1>1, <2>1 DEF IsSample
<1> HIDE DEF selected, Y, arrivals, n, hop
<1>5. xs = Nanos(arrivals)
  BY DEF Nanos
<1>6. \A i \in 1..n : xs[i] \in Int /\ Fits(xs[i])
  <2>1. arrivals[1].domain \in Domains
    BY <1>3 DEF Comparability, IInv, TypeOK, ClockTypeOK
  <2>2. Rate(arrivals[1].domain) \in Nat
    BY <2>1, RateIs
  <2>3. \A i \in 1..n : xs[i] = arrivals[i].ticks * Rate(arrivals[1].domain)
    BY <1>3
  <2>4. \A t, r \in Int : t * r \in Int
    OBVIOUS
  <2>5. \A i \in 1..n : xs[i] \in Int
    <3> HIDE DEF xs
    <3> QED
      BY <1>4, <2>2, <2>3, <2>4
  <2>6. \A i \in 1..n : Fits(Nanos(arrivals)[i])
    BY <1>3 DEF InNanos
  <2> HIDE DEF xs
  <2> QED
    BY <1>5, <2>5, <2>6
<1>7. xs \in [1..n -> Int] /\ xs \in Seq(Int) /\ Len(xs) = n
  <2>1. DOMAIN xs = 1..n
    BY <1>3
  <2>2. xs \in [1..n -> Int]
    BY <1>6, <2>1
  <2> HIDE DEF xs
  <2> QED
    BY <1>3, <2>2
<1> HIDE DEF xs
<1>8. Spannable(xs)
  <2>1. MaxInt \in Nat /\ \A u \in Range(xs) : u \in -MaxInt - 1 .. MaxInt
    BY <1>6, <1>7, CheckedAssumption DEF Range, Fits
  <2> QED
    BY <2>1 DEF Spannable
<1>9. ASSUME Definition[HopKey].input = "absolute" PROVE Negatable(xs)
  <2>1. Measurable(HopKey, xs)
    BY <1>3, <1>5, <1>7, ComputeIs
  <2>2. \A i \in DOMAIN Steps(xs) : Fits(Steps(xs)[i])
    BY <1>9, <2>1 DEF Measurable
  <2>3. MaxInt \in Nat
    BY CheckedAssumption
  <2> QED
    BY <1>9, <2>2, <2>3 DEF Negatable, Fits
<1>10. Alike(Compute(HopKey, xs).value, Formula(HopKey, xs))
  BY <1>3, <1>5, <1>7, <1>8, <1>9, ValueIs
<1> QED
  BY <1>3, <1>5, <1>10 DEF Alike

(* Every metric but three has, whenever it has a value, that of its formula, *)
(* and has one whenever the readings allow it: over a selection (compute)    *)
(* and for a hop (attribute_hops).                                           *)
THEOREM MetricsAreDeclared == Spec => []MetricsFollowFormulas
<1>1. IInv => MetricsFollowFormulas
  BY SelectionFollows, HopsAreFollowed DEF MetricsFollowFormulas
<1> QED
  BY <1>1, Invariance, PTL

----------------------------------------------------------------------------
(* Verdicts.  Alike values breach the same thresholds.                       *)
LEMMA SameSide ==
  ASSUME NEW a \in Int, NEW b \in Nat \ {0}, NEW c \in Int, NEW d \in Nat \ {0},
         a * d = c * b, NEW t \in Int
  PROVE  (a >= b * t <=> c >= d * t) /\ (a <= b * t <=> c <= d * t)
<1> DEFINE x == a - b * t
           y == c - d * t
<1>1. b * t \in Int /\ d * t \in Int
  OBVIOUS
<1>2. x * d = y * b
  <2>1. (a - b * t) * d = a * d - b * t * d
    OBVIOUS
  <2>2. (c - d * t) * b = c * b - b * t * d
    OBVIOUS
  <2> QED
    BY <2>1, <2>2
<1>3. /\ x \in Int /\ y \in Int
      /\ (a >= b * t <=> x >= 0) /\ (c >= d * t <=> y >= 0)
      /\ (a <= b * t <=> x <= 0) /\ (c <= d * t <=> y <= 0)
  BY <1>1
<1> HIDE DEF x, y
<1>4. \A z \in Int, e \in Nat \ {0} : (z >= 0 <=> z * e >= 0) /\ (z <= 0 <=> z * e <= 0)
  <2> SUFFICES ASSUME NEW z \in Int, NEW e \in Nat \ {0}
               PROVE  (z >= 0 <=> z * e >= 0) /\ (z <= 0 <=> z * e <= 0)
    OBVIOUS
  <2>1. z > 0 => z * e > 0
    OBVIOUS
  <2>2. z < 0 => z * e < 0
    OBVIOUS
  <2>3. z = 0 => z * e = 0
    OBVIOUS
  <2> QED
    BY <2>1, <2>2, <2>3
<1>5. (x >= 0 <=> y >= 0) /\ (x <= 0 <=> y <= 0)
  <2> DEFINE u == x * d
             v == y * b
  <2>1. u = v /\ (x >= 0 <=> u >= 0) /\ (x <= 0 <=> u <= 0) /\ (y >= 0 <=> v >= 0) /\ (y <= 0 <=> v <= 0)
    BY <1>2, <1>3, <1>4
  <2> HIDE DEF u, v
  <2> QED
    BY <2>1
<1> QED
  BY <1>3, <1>5

LEMMA BreachesAlike ==
  ASSUME NEW f, NEW g, Alike(f, g), NEW t \in Int, NEW direction
  PROVE  Breaches(f, t, direction) <=> Breaches(g, t, direction)
<1>1. /\ f.num \in Int /\ f.den \in Nat \ {0} /\ g.num \in Int /\ g.den \in Nat \ {0}
      /\ f.root = g.root /\ f.num * g.den = g.num * f.den
  BY DEF Alike, Number, SameValue
<1>2. /\ (f.num >= f.den * t <=> g.num >= g.den * t)
      /\ (f.num <= f.den * t <=> g.num <= g.den * t)
  BY <1>1, SameSide
<1>3. /\ (f.num >= f.den * t * t <=> g.num >= g.den * t * t)
      /\ (f.num <= f.den * t * t <=> g.num <= g.den * t * t)
  <2> DEFINE s == t * t
  <2>1. s \in Int /\ f.den * t * t = f.den * s /\ g.den * t * t = g.den * s
    BY <1>1
  <2> HIDE DEF s
  <2>2. /\ (f.num >= f.den * s <=> g.num >= g.den * s)
        /\ (f.num <= f.den * s <=> g.num <= g.den * s)
    BY <1>1, <2>1, SameSide
  <2> QED
    BY <2>1, <2>2
<1>4. AtLeast(f, t) <=> AtLeast(g, t)
  BY <1>1, <1>2, <1>3 DEF AtLeast
<1>5. AtMost(f, t) <=> AtMost(g, t)
  BY <1>1, <1>2, <1>3 DEF AtMost
<1> QED
  BY <1>4, <1>5 DEF Breaches

LEMMA LevelSays ==
  ASSUME NEW evidence, NEW metrics, NEW current, NEW p,
         Level(evidence, metrics, current, p) \in Positive
  PROVE  /\ \E i \in DOMAIN p.rules : Evaluable(p.rules[i], metrics, p)
         /\ Level(evidence, metrics, current, p) =
              IF Called(p, metrics, "unstable_at") THEN "unstable"
              ELSE IF Called(p, metrics, "elevated_at") THEN "elevated" ELSE "stable"
BY DEF Level, Positive

(* Readings that every metric but the ratio has a value of, were they enough. *)
Readings(xs) ==
  /\ xs \in Seq(Int) /\ Negatable(xs) /\ Spannable(xs)
  /\ \A i \in DOMAIN Steps(xs) : Fits(Steps(xs)[i])

(* A summary is made of the fresh samples of the selection.                  *)
LEMMA SummaryIs ==
  ASSUME IInv, NEW o \in Generations, NEW at
  PROVE  LET xs == Latencies(Filtered(Select(windows[o], window), Fresh(o, at))) IN
         Readings(xs) /\ Summary(o, at).metrics = ComputeAll(MetricsAsked, xs)
<1> DEFINE S == Range(windows[o].samples)
           selected == Select(windows[o], window)
           states == [i \in DOMAIN selected |-> AssessSample(selected[i], clock, at, freshness)]
           I == {i \in DOMAIN selected : states[i] = "fresh"}
           J == {i \in DOMAIN selected : selected[i] \in Fresh(o, at)}
           fresh == Increasing(I)
           latencies == [j \in DOMAIN fresh |-> selected[fresh[j]].latency]
           s == Filtered(selected, Fresh(o, at))
<1>1. selected \in Seq(S) /\ Once(selected) /\ Limited(S)
  BY FreshCounted, KeptLimited
<1>2. I = J
  <2>1. Fresh(o, at) = {x \in Range(selected) : FreshAt(x, at)}
    BY DEF Fresh
  <2>2. \A i \in DOMAIN selected : states[i] = "fresh" <=> FreshAt(selected[i], at)
    BY DEF FreshAt
  <2> HIDE DEF selected, states
  <2> QED
    BY <2>1, <2>2 DEF Range
<1>3. Summary(o, at).metrics = ComputeAll(MetricsAsked, latencies)
  BY DEF Summary, SummaryOf, WithLevel
<1>4. latencies = Latencies(s)
  <2>1. s = [k \in DOMAIN Increasing(J) |-> selected[Increasing(J)[k]]]
    BY DEF Filtered
  <2> HIDE DEF I, J, selected, s
  <2>2. s = [k \in DOMAIN fresh |-> selected[fresh[k]]]
    BY <1>2, <2>1
  <2> HIDE DEF fresh
  <2>3. Latencies(s) = [i \in DOMAIN s |-> s[i].latency]
    BY DEF Latencies
  <2> QED
    BY <2>2, <2>3
<1>5. s \in Seq(S)
  <2> HIDE DEF selected, S
  <2> QED
    BY <1>1, FilteredIs
<1> HIDE DEF latencies, s, S
<1>6. Readings(Latencies(s))
  BY <1>1, <1>5, LatenciesAre DEF Readings
<1> QED
  BY <1>3, <1>4, <1>6 DEF s

(* A rule has something to say of a summary when it has of the readings.     *)
LEMMA RuleIs ==
  ASSUME NEW xs, Readings(xs), NEW r, r.metric \in MetricKey \ Misdeclared
  PROVE  LET metrics == ComputeAll(MetricsAsked, xs) IN
         /\ Evaluable(r, metrics, Policy) <=> Telling(r, xs)
         /\ Telling(r, xs) => Alike(metrics[r.metric].value, Formula(r.metric, xs))
<1> DEFINE key == r.metric
           metrics == ComputeAll(MetricsAsked, xs)
           result == Compute(key, xs)
           terms == IF Definition[key].input = "latency" THEN Len(xs) ELSE Len(xs) - 1
<1>1. xs \in Seq(Int) /\ Negatable(xs) /\ Spannable(xs)
  BY DEF Readings
<1>2. /\ key \in DOMAIN metrics <=> key \in MetricsAsked /\ result.code = "ok"
      /\ key \in DOMAIN metrics => metrics[key] = result
  BY DEF ComputeAll, Succeeded
<1>3. result.code = "ok" <=> Measurable(key, xs)
  BY <1>1, ComputeIs
<1>4. result.code = "ok" => Alike(result.value, Formula(key, xs)) /\ result.terms = terms
  BY <1>1, ValueIs
<1>5. Measurable(key, xs) <=>
        /\ Len(xs) >= Definition[key].min_samples
        /\ key = "CoefficientOfVariation" => Sum(xs) > 0
  BY DEF Measurable, Readings
<1>6. Telling(r, xs) <=>
        /\ key \in MetricsAsked /\ Len(xs) >= Definition[key].min_samples
        /\ terms >= Policy.min_terms
        /\ key = "CoefficientOfVariation" => Sum(xs) > 0
  BY DEF Telling
<1>7. Evaluable(r, metrics, Policy) <=> key \in DOMAIN metrics /\ metrics[key].terms >= Policy.min_terms
  BY DEF Evaluable
<1> HIDE DEF metrics, result, terms
<1>8. Evaluable(r, metrics, Policy) <=> Telling(r, xs)
  BY <1>2, <1>3, <1>4, <1>5, <1>6, <1>7
<1>9. Telling(r, xs) => Alike(metrics[key].value, Formula(key, xs))
  BY <1>2, <1>4, <1>7, <1>8
<1> QED
  BY <1>8, <1>9 DEF metrics

(* The rules call for what the declared values reach.                        *)
LEMMA RulesAre ==
  ASSUME NEW xs, Readings(xs), NEW at \in {"unstable_at", "elevated_at"},
         \A i \in DOMAIN Policy.rules : Policy.rules[i].metric \notin Misdeclared
  PROVE  LET metrics == ComputeAll(MetricsAsked, xs) IN
         /\ Called(Policy, metrics, at) <=> Reached(at, xs)
         /\ \A i \in DOMAIN Policy.rules :
              Evaluable(Policy.rules[i], metrics, Policy) <=> Telling(Policy.rules[i], xs)
<1> DEFINE metrics == ComputeAll(MetricsAsked, xs)
           Breach(r) == /\ Evaluable(r, metrics, Policy)
                        /\ Breaches(metrics[r.metric].value, r[at], r.direction)
           Breached(r) == Telling(r, xs) /\ Breaches(Formula(r.metric, xs), r[at], r.direction)
<1>1. ASSUME NEW i \in DOMAIN Policy.rules
      PROVE  LET r == Policy.rules[i] IN
             /\ Evaluable(r, metrics, Policy) <=> Telling(r, xs)
             /\ Breach(r) <=> Breached(r)
  <2> DEFINE r == Policy.rules[i]
  <2>1. r.metric \in MetricKey \ Misdeclared /\ r[at] \in Int
    <3>1. r.metric \in MetricKey /\ {r.elevated_at, r.unstable_at} \subseteq Int
      BY AnalysisAssumption DEF ValidPolicy
    <3> QED
      BY <3>1
  <2> HIDE DEF r
  <2>2. /\ Evaluable(r, metrics, Policy) <=> Telling(r, xs)
        /\ Telling(r, xs) => Alike(metrics[r.metric].value, Formula(r.metric, xs))
    BY <2>1, RuleIs
  <2> HIDE DEF metrics
  <2>3. Telling(r, xs) => (Breaches(metrics[r.metric].value, r[at], r.direction) <=>
                             Breaches(Formula(r.metric, xs), r[at], r.direction))
    BY <2>1, <2>2, BreachesAlike
  <2>4. Breach(r) <=> Breached(r)
    BY <2>2, <2>3
  <2> QED
    BY <2>2, <2>4 DEF r
<1>2. Called(Policy, metrics, at) <=>
        IF Policy.require_all THEN \A i \in DOMAIN Policy.rules : Breach(Policy.rules[i])
                              ELSE \E i \in DOMAIN Policy.rules : Breach(Policy.rules[i])
  BY DEF Called
<1>3. Reached(at, xs) <=>
        IF Policy.require_all THEN \A i \in DOMAIN Policy.rules : Breached(Policy.rules[i])
                              ELSE \E i \in DOMAIN Policy.rules : Breached(Policy.rules[i])
  BY DEF Reached
<1> HIDE DEF Breach, Breached, metrics
<1>4. Called(Policy, metrics, at) <=> Reached(at, xs)
  BY <1>1, <1>2, <1>3
<1> QED
  BY <1>1, <1>4 DEF metrics

(* A positive level is what the rules of the policy make of the declared     *)
(* values of the metrics over the fresh observations (summarize, classify).  *)
THEOREM VerdictsFollowPolicy == Spec => []VerdictSupported
<1>1. IInv => VerdictSupported
  <2> SUFFICES ASSUME IInv, \A i \in DOMAIN Policy.rules : Policy.rules[i].metric \notin Misdeclared,
                      NEW o \in Generations, NEW at \in Instants,
                      Summary(o, at).level \in Positive
               PROVE  LET level == Summary(o, at).level
                          xs == Latencies(Filtered(Select(windows[o], window), Fresh(o, at)))
                      IN /\ \E i \in DOMAIN Policy.rules : Telling(Policy.rules[i], xs)
                         /\ level = IF Reached("unstable_at", xs) THEN "unstable"
                                    ELSE IF Reached("elevated_at", xs) THEN "elevated"
                                    ELSE "stable"
    BY DEF VerdictSupported
  <2> DEFINE xs == Latencies(Filtered(Select(windows[o], window), Fresh(o, at)))
             metrics == ComputeAll(MetricsAsked, xs)
             level == Summary(o, at).level
  <2>1. Readings(xs) /\ Summary(o, at).metrics = metrics
    BY SummaryIs
  <2>2. \E evidence : level = Level(evidence, Summary(o, at).metrics, o = ordinal, Policy)
    BY DEF Summary, SummaryOf, WithLevel
  <2>3. PICK evidence : level = Level(evidence, metrics, o = ordinal, Policy)
    BY <2>1, <2>2
  <2> DEFINE current == o = ordinal
  <2>4. level \in Positive /\ level = Level(evidence, metrics, current, Policy)
    BY <2>3
  <2> HIDE DEF xs, level, current
  <2>5. /\ Called(Policy, metrics, "unstable_at") <=> Reached("unstable_at", xs)
        /\ Called(Policy, metrics, "elevated_at") <=> Reached("elevated_at", xs)
        /\ \A i \in DOMAIN Policy.rules :
             Evaluable(Policy.rules[i], metrics, Policy) <=> Telling(Policy.rules[i], xs)
    BY <2>1, RulesAre
  <2> HIDE DEF metrics
  <2>6. /\ \E i \in DOMAIN Policy.rules : Evaluable(Policy.rules[i], metrics, Policy)
        /\ level = IF Called(Policy, metrics, "unstable_at") THEN "unstable"
                   ELSE IF Called(Policy, metrics, "elevated_at") THEN "elevated" ELSE "stable"
    BY <2>4, LevelSays
  <2> QED
    BY <2>5, <2>6 DEF xs, level
<1> QED
  BY <1>1, Invariance, PTL
=============================================================================
