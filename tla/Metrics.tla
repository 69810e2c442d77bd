------------------------------ MODULE Metrics ------------------------------
(***************************************************************************)
(* The named metrics of src/src/metrics.cpp over a sequence of readings in *)
(* window order.  Doubles are exact fractions here: a value is             *)
(* [num, den, root], num/den or its square root; rounding and the          *)
(* compensated summation that fights it are left out.  Identities,         *)
(* versions and units are functions of the key.                            *)
(***************************************************************************)
EXTENDS Checked, Listings

Fraction(n, d) == [num |-> n, den |-> d, root |-> FALSE]
Root(f) == [f EXCEPT !.root = TRUE]

----------------------------------------------------------------------------
(* signed_deltas, whose differences must fit; absolute_deltas negates the    *)
(* negative ones, which wraps around for the smallest integer.               *)
SignedDeltas(xs) == [i \in 1..(Len(xs) - 1) |-> xs[i + 1] - xs[i]]

AbsoluteDeltas(xs) ==
  [i \in 1..(Len(xs) - 1) |->
     LET d == SignedDeltas(xs)[i] IN IF d < 0 THEN Wrapped(-d) ELSE d]

MeanOf(xs) == Fraction(Sum(xs), Len(xs))

(* Plausible fault: the rank is rounded down instead of interpolated. *)
QuantileNearest(xs, p) ==
  LET s == Sorted(xs)
  IN Fraction(s[1 + ((p[1] * (Len(s) - 1)) \div p[2])], 1)

(* quantile_of: rank p * (n - 1), linear between the closest ranks.          *)
QuantileOf(xs, p) ==
  LET s == Sorted(xs)
      lower == (p[1] * (Len(s) - 1)) \div p[2]
      rest == (p[1] * (Len(s) - 1)) % p[2]
  IN IF lower + 1 >= Len(s) THEN Fraction(s[Len(s)], 1)
     ELSE Fraction(s[lower + 1] * p[2] + rest * (s[lower + 2] - s[lower + 1]), p[2])

(* sample_variance_of: the squared deviations from the mean over n - 1.      *)
SampleVarianceOf(xs) ==
  LET n == Len(xs)
      total == Sum(xs)
      Squared(d) == d * d
  IN Fraction(Sum([i \in 1..n |-> Squared(n * xs[i] - total)]), n * n * (n - 1))

MaximumOf(xs) == CHOOSE v \in Range(xs) : \A u \in Range(xs) : v >= u
MinimumOf(xs) == CHOOSE v \in Range(xs) : \A u \in Range(xs) : v <= u

PeakToPeakOf(xs) == Fraction(MaximumOf(xs) - MinimumOf(xs), 1)

(* ewma16_of *)
Ewma16Of(xs) ==
  LET state[i \in DOMAIN xs] ==
        IF i = 1 THEN Fraction(xs[1], 1)
        ELSE Fraction(15 * state[i - 1].num + xs[i] * state[i - 1].den,
                      16 * state[i - 1].den)
  IN state[Len(xs)]

----------------------------------------------------------------------------
Def(estimator, input, samples) ==
  [estimator |-> estimator, input |-> input, min_samples |-> samples]

(* The table of definitions; min_terms is stated there and never read.       *)
Definition ==
  [AbsoluteDeltaMean       |-> Def("mean", "absolute", 2),
   AbsoluteDeltaMedian     |-> Def("median", "absolute", 2),
   AbsoluteDeltaP95        |-> Def("p95", "absolute", 2),
   AbsoluteDeltaMax        |-> Def("maximum", "absolute", 2),
   AbsoluteDeltaEwma16     |-> Def("ewma16", "absolute", 2),
   IpdvMean                |-> Def("mean", "signed", 2),
   IpdvStdDev              |-> Def("deviation", "signed", 3),
   SampleVariance          |-> Def("variance", "latency", 2),
   SampleStdDev            |-> Def("deviation", "latency", 2),
   CoefficientOfVariation  |-> Def("ratio", "latency", 2),
   MeanAbsoluteDeviation   |-> Def("mean", "latency", 1),
   MedianAbsoluteDeviation |-> Def("median", "latency", 1),
   PeakToPeak              |-> Def("span", "latency", 1),
   InterquartileRange      |-> Def("span", "latency", 2),
   LatencyMean             |-> Def("mean", "latency", 1),
   LatencyP50              |-> Def("p50", "latency", 1),
   LatencyP95              |-> Def("p95", "latency", 1),
   LatencyP99              |-> Def("p99", "latency", 1)]

MetricKey == DOMAIN Definition

(* verify_metric_table, run by initialize: the keys are distinct because the *)
(* table is a function of them.                                              *)
VerifiedTable == \A k \in MetricKey : Definition[k].min_samples > 0

Failed(code) == [code |-> code]
Computed(value, terms) == [code |-> "ok", value |-> value, terms |-> terms]

(* The value an estimator makes of a non-empty sequence of terms. *)
Estimate(estimator, terms) ==
  CASE estimator = "mean"            -> MeanOf(terms)
    [] estimator \in {"median", "p50"} -> QuantileOf(terms, <<1, 2>>)
    [] estimator = "p95"             -> QuantileOf(terms, <<19, 20>>)
    [] estimator = "p99"             -> QuantileOf(terms, <<99, 100>>)
    [] estimator = "maximum"         -> Fraction(MaximumOf(terms), 1)
    [] estimator = "span"            -> PeakToPeakOf(terms)
    [] estimator = "ewma16"          -> Ewma16Of(terms)
    [] estimator = "variance"        -> SampleVarianceOf(terms)
    [] estimator = "deviation"       -> Root(SampleVarianceOf(terms))
    [] estimator = "ratio"           ->
         LET v == SampleVarianceOf(terms)
         IN Root(Fraction(v.num * Len(terms) * Len(terms), v.den * Sum(terms) * Sum(terms)))

(* compute *)
Compute(key, xs) ==
  LET d == Definition[key]
      terms == CASE d.input = "latency"  -> xs
                 [] d.input = "absolute" -> AbsoluteDeltas(xs)
                 [] d.input = "signed"   -> SignedDeltas(xs)
      overflow == \E i \in 1..(Len(xs) - 1) : ~Fits(SignedDeltas(xs)[i])
  IN CASE xs = <<>> -> Failed("no_evidence")
       [] Len(xs) \in 1..(d.min_samples - 1) -> Failed("insufficient_evidence")
       [] OTHER ->
            IF d.input # "latency" /\ overflow THEN Failed("overflow")
            ELSE IF d.estimator = "ratio" /\ Sum(xs) <= 0 THEN Failed("unsupported")
            ELSE Computed(Estimate(d.estimator, terms), Len(terms))

(* compute_all: the values that could be computed. *)
Succeeded(results) ==
  [k \in {k \in DOMAIN results : results[k].code = "ok"} |-> results[k]]

ComputeAll(keys, xs) == Succeeded([k \in keys |-> Compute(k, xs)])

(* breaches, of a whole threshold; a root is not negative.                   *)
AtLeast(v, threshold) ==
  IF v.root THEN threshold < 0 \/ v.num >= v.den * threshold * threshold
            ELSE v.num >= v.den * threshold
AtMost(v, threshold) ==
  IF v.root THEN threshold >= 0 /\ v.num <= v.den * threshold * threshold
            ELSE v.num <= v.den * threshold
=============================================================================
