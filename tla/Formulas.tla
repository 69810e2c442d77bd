------------------------------ MODULE Formulas ------------------------------
(***************************************************************************)
(* What the metrics are declared to be, docs/metrics.md and the formula    *)
(* strings of src/src/metrics.cpp, said without following the code: order  *)
(* statistics by counting, variance by differences of pairs, averages and  *)
(* the smoothed delta in closed form.                                      *)
(***************************************************************************)
EXTENDS Metrics

SameValue(f, g) == f.root = g.root /\ f.num * g.den = g.num * f.den

Magnitude(x) == IF x < 0 THEN -x ELSE x
Squared(x) == x * x

Power(b, n) ==
  LET power[i \in 0..n] == IF i = 0 THEN 1 ELSE b * power[i - 1] IN power[n]

Steps(xs) == [i \in 1..(Len(xs) - 1) |-> xs[i + 1] - xs[i]]
Jumps(xs) == [i \in DOMAIN Steps(xs) |-> Magnitude(Steps(xs)[i])]

Mean(xs) == Fraction(Sum(xs), Len(xs))

(* The k-th smallest reading. *)
Ranked(xs, k) ==
  CHOOSE v \in Range(xs) : /\ Cardinality({i \in DOMAIN xs : xs[i] < v}) < k
                           /\ Cardinality({i \in DOMAIN xs : xs[i] <= v}) >= k

(* Type 7: rank 1 + p (n - 1), linear between neighbours. *)
Percentile(xs, p) ==
  LET h == p * (Len(xs) - 1)
      low == Ranked(xs, h \div 100 + 1)
      high == IF h % 100 = 0 THEN low ELSE Ranked(xs, h \div 100 + 2)
  IN Fraction(100 * low + (h % 100) * (high - low), 100)

(* The squared differences of all pairs. *)
Variance(xs) ==
  LET n == Len(xs)
      Before(i) == [j \in 1..(i - 1) |-> Squared(xs[i] - xs[j])]
  IN Fraction(Sum([i \in 1..n |-> Sum(Before(i))]), n * (n - 1))

Spread(xs) == CHOOSE d \in 0..(2 * MaxInt + 1) :
  /\ \E x, y \in Range(xs) : d = x - y
  /\ \A x, y \in Range(xs) : d >= x - y

Smoothed(ds) ==
  LET m == Len(ds)
      Weight(i) == Power(15, m - i) * (IF i = 1 THEN 1 ELSE Power(16, i - 2))
  IN Fraction(Sum([i \in 1..m |-> Weight(i) * ds[i]]), Power(16, m - 1))

DeviationFromMean(xs) ==
  LET n == Len(xs) IN
  Fraction(Sum([i \in 1..n |-> Magnitude(n * xs[i] - Sum(xs))]), n * n)

(* The median of the distances from the median, counted in half units.       *)
DeviationFromMedian(xs) ==
  LET median == Percentile(xs, 50)
      distances == [i \in DOMAIN xs |-> Magnitude(100 * xs[i] - median.num)]
  IN Fraction(Percentile(distances, 50).num, 10000)

(* The declared value of a metric over readings it is defined for.           *)
Formula(key, xs) ==
  CASE key = "AbsoluteDeltaMean"       -> Mean(Jumps(xs))
    [] key = "AbsoluteDeltaMedian"     -> Percentile(Jumps(xs), 50)
    [] key = "AbsoluteDeltaP95"        -> Percentile(Jumps(xs), 95)
    [] key = "AbsoluteDeltaMax"        -> Fraction(Ranked(Jumps(xs), Len(xs) - 1), 1)
    [] key = "AbsoluteDeltaEwma16"     -> Smoothed(Jumps(xs))
    [] key = "IpdvMean"                -> Fraction(xs[Len(xs)] - xs[1], Len(xs) - 1)
    [] key = "IpdvStdDev"              -> Root(Variance(Steps(xs)))
    [] key = "SampleVariance"          -> Variance(xs)
    [] key = "SampleStdDev"            -> Root(Variance(xs))
    [] key = "CoefficientOfVariation"  ->
         Root(Fraction(Variance(xs).num * Squared(Len(xs)), Variance(xs).den * Squared(Sum(xs))))
    [] key = "MeanAbsoluteDeviation"   -> DeviationFromMean(xs)
    [] key = "MedianAbsoluteDeviation" -> DeviationFromMedian(xs)
    [] key = "PeakToPeak"              -> Fraction(Spread(xs), 1)
    [] key = "InterquartileRange"      ->
         Fraction(Percentile(xs, 75).num - Percentile(xs, 25).num, 100)
    [] key = "LatencyMean"             -> Mean(xs)
    [] key = "LatencyP50"              -> Percentile(xs, 50)
    [] key = "LatencyP95"              -> Percentile(xs, 95)
    [] key = "LatencyP99"              -> Percentile(xs, 99)
=============================================================================
