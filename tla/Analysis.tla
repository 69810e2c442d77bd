------------------------------ MODULE Analysis ------------------------------
(***************************************************************************)
(* The questions put to the engine about one series: clocks, windows,      *)
(* freshness, metrics, verdicts, comparisons and hop timing composed as    *)
(* summarize_locked, compare_locked, attribute_locked and                  *)
(* capture_baseline_locked of src/src/engine.cpp compose them.  A question *)
(* names its own instant (context.now_utc_ns), so time is no variable: the *)
(* properties ask at every instant.  Fencing, episodes and the bounds on   *)
(* the window table are the subject of Observatory.                        *)
(***************************************************************************)
EXTENDS ClockModel, Admission, SampleWindow, Classification, Baselines, Attribution, Formulas

CONSTANTS
  Clocks,       (* descriptor.clock_domain the series may have             *)
  Freshnesses,  (* config_.freshness may be any of these                   *)
  Windows,      (* config_.window may be any of these                      *)
  Policy,       (* config_.policy                                          *)
  Keys,         (* config_.metrics                                         *)
  HopKey, MinArrivals,  (* AttributionRequest.metric, .min_arrivals        *)
  Batches,      (* [samples, clock, origin, claims]: batches that arrive   *)
  MaxSamples,   (* bound: observations stored in a behaviour               *)
  MaxOrdinal,   (* bound: generations of the path                          *)
  MaxBaselines, (* config_.max_baselines                                   *)
  Instants,     (* instants at which questions are asked                   *)
  CaptureAt     (* bound: instants at which baselines are captured         *)

IsSample(x) ==
  /\ {x.observed, x.received, x.latency} \subseteq Int /\ x.sequence \in Nat
  /\ DOMAIN x.arrived \subseteq Hops
  /\ \A h \in DOMAIN x.arrived : x.arrived[h].ticks \in Int

(* What a series measured on a clock may store. *)
Storable(d) == UNION {Range(b.samples) : b \in {b \in Batches : Permitted(b, d)}}

(* kMinLatencyNs and kMaxLatencyNs are an hour either way (limits.hpp:61).   *)
(* The last conjunct: what breaks the ties of sample_less does break them.   *)
ASSUME AnalysisAssumption ==
  /\ Clocks \subseteq Domains /\ Keys \subseteq MetricKey /\ HopKey \in MetricKey
  /\ VerifiedTable
  /\ \A p \in Freshnesses : ValidFreshness(p)
  /\ \A w \in Windows : ValidWindow(w)
  /\ \A w \in Windows : w.kind = "tumbling" => w.anchor \in Nat
  /\ ValidPolicy(Policy) /\ MinArrivals \in Nat
  /\ CaptureAt \subseteq Instants /\ MaxSamples \in Nat /\ MaxOrdinal \in Nat \ {0} /\ MaxBaselines \in Nat \ {0}
  /\ Instants \subseteq Int /\ MaxLatency - MinLatency <= MaxInt
  /\ \A b \in Batches : /\ b.samples \in Seq(Range(b.samples))
                        /\ \A x \in Range(b.samples) : IsSample(x)
  /\ \A d \in Clocks : \A x, y \in Storable(d) :
       x # y => SampleLess(x, y) \/ SampleLess(y, x)

VARIABLES
  clock, freshness, window,  (* the series' clock and the two policies      *)
  ordinal,    (* the open generation of the path                           *)
  windows,    (* windows_ of the series, by generation                     *)
  offered,    (* history: every observation stored, by generation          *)
  baselines   (* baselines_ of the series                                  *)

policies == <<clock, freshness, window>>
vars == <<clockVars, policies, ordinal, windows, offered, baselines>>

Generations == 1..MaxOrdinal

Init ==
  /\ clock \in Clocks /\ freshness \in Freshnesses /\ window \in Windows
  /\ domains = {Local, clock} /\ equivalences = {}
  /\ ordinal = 1
  /\ windows = [o \in Generations |-> NewWindow]
  /\ offered = [o \in Generations |-> {}]
  /\ baselines = {}

----------------------------------------------------------------------------
(* default_metric_set, and the constructor that falls back on it.            *)
DefaultMetrics == MetricKey \ {"LatencyP50", "LatencyP99"}
MetricsAsked == IF Keys = {} THEN DefaultMetrics ELSE Keys

(* summarize_locked, without episode tracking; a window exists from its      *)
(* first sample on.                                                          *)
HasWindow(o) == windows[o].samples # <<>>

Summary(o, at) ==
  LET selected == Select(windows[o], window)
      states == [i \in DOMAIN selected |-> AssessSample(selected[i], clock, at, freshness)]
  IN SummaryOf(selected, states, MetricsAsked, o = ordinal, Policy)

(* attribute_locked asks about the open generation only. *)
HopReport(at) ==
  Attribution(Select(windows[ordinal], window), clock, HopKey, MinArrivals, TRUE, at)

(* compare_locked *)
Comparison(b, o, at) == Compare(b, o, window, Summary(o, at))

----------------------------------------------------------------------------
Register(d) ==
  RegisterDomain(d) /\ UNCHANGED <<policies, ordinal, windows, offered, baselines>>

Declare(e) ==
  DeclareEquivalence(e) /\ UNCHANGED <<policies, ordinal, windows, offered, baselines>>

(* ingest, for a batch that the fence lets through, live or archival: only   *)
(* the open generation takes it, store_samples all of it.                    *)
Ingest(b) ==
  /\ Permitted(b, clock)
  /\ windows' = [windows EXCEPT ![ordinal] = Filled(@, b.samples, window)]
  /\ offered' = [offered EXCEPT ![ordinal] = @ \cup Range(b.samples)]
  /\ FoldFunction(LAMBDA S, n : Cardinality(S) + n, 0, offered') <= MaxSamples
  /\ UNCHANGED <<clockVars, policies, ordinal, baselines>>

(* observe_topology with a new topology. *)
ChangeRoute ==
  /\ ordinal < MaxOrdinal /\ ordinal' = ordinal + 1
  /\ UNCHANGED <<clockVars, policies, windows, offered, baselines>>

FreshAt(x, at) == AssessSample(x, clock, at, freshness) = "fresh"

Fresh(o, at) ==
  {x \in Range(Select(windows[o], window)) : FreshAt(x, at)}

(* capture_baseline_locked, which asks for no freshness: a baseline may hold *)
(* no value at all.  In the code one that is captured twice takes two of the *)
(* places.                                                                   *)
Capture(o, at) ==
  /\ HasWindow(o) /\ Cardinality(baselines) < MaxBaselines
  /\ baselines' = baselines \cup
       {MakeBaseline(o, window, Summary(o, at).metrics, Fresh(o, at))}
  /\ UNCHANGED <<clockVars, policies, ordinal, windows, offered>>

(* The engine starts again on its store with another window policy, and      *)
(* admits what it finds: the windows are filled again, in canonical order,   *)
(* from the samples they retained; baselines keep the policy they were       *)
(* measured under.                                                           *)
Reconfigure(w) ==
  /\ w # window /\ window' = w
  /\ windows' = [o \in Generations |-> Filled(NewWindow, Ordered(windows[o]), w)]
  /\ UNCHANGED <<clockVars, clock, freshness, ordinal, offered, baselines>>

Next ==
  \/ \E d \in Domains : Register(d)
  \/ \E e \in Offers : Declare(e)
  \/ \E b \in Batches : Ingest(b)
  \/ ChangeRoute
  \/ \E o \in Generations, at \in CaptureAt : Capture(o, at)
  \/ \E w \in Windows : Reconfigure(w)

Spec == Init /\ [][Next]_vars

----------------------------------------------------------------------------
TypeOK ==
  /\ ClockTypeOK
  /\ clock \in Clocks /\ freshness \in Freshnesses /\ window \in Windows
  /\ ordinal \in Generations
  /\ \A o \in Generations : Range(windows[o].samples) \subseteq offered[o]
  /\ Cardinality(baselines) <= MaxBaselines

Past(x, at) == AssessSample(x, clock, at, freshness) \in {"stale", "expired"}

(* Evidence does not come back to life: a retained observation that is stale *)
(* or expired at some instant is not fresh at a later one, whatever clocks   *)
(* are registered and equivalences declared, or expire, in between           *)
(* (assess_sample over ClockModel::assess), as long as its age is a number   *)
(* of 64 bits.  Only steps that change a clock or a window matter.           *)
NeverRefreshed ==
  [][<<clockVars, windows>>' # <<clockVars, windows>> =>
       \A x \in UNION {Range(windows'[o].samples) : o \in Generations} :
         \A at1, at2 \in Instants :
           /\ at1 <= at2 /\ Fits(at2 - x.observed)
           /\ Past(x, at1)
           => ~FreshAt(x, at2)']_vars

Newest(S) == {x \in S : \A y \in S : y.observed <= x.observed}

(* The multiples of the duration, after the anchor, that x falls between.    *)
Buckets(x, w) ==
  {k \in 0..MaxInt : /\ w.anchor + k * w.duration <= x.observed
                     /\ x.observed < w.anchor + (k + 1) * w.duration}

(* What a policy says of the samples S. *)
Chosen(S, w) ==
  CASE w.kind = "count" -> {x \in S : Cardinality({y \in S : SampleLess(x, y)}) < w.count}
    [] w.kind = "tumbling" /\ (\E x \in Newest(S) : InReach(x.observed, w)) ->
         {x \in S : \E y \in Newest(S) : Buckets(x, w) \cap Buckets(y, w) # {}}
    [] OTHER -> {x \in S : \A y \in S : y.observed - x.observed <= w.duration}

(* A selection is what its policy says of the retained samples, whatever the *)
(* order they came in: the last `count', those within `duration' of the      *)
(* newest, or those between the same two multiples of `duration' after the   *)
(* anchor (SampleWindow::select), unless two of them are further apart than  *)
(* a difference of 64 bits can say.                                          *)
SelectionAsDeclared ==
  \A o \in Generations :
    LET S == Range(windows[o].samples)
        selected == Select(windows[o], window)
    IN (\A x, y \in S : Fits(x.observed - y.observed)) =>
       /\ Range(selected) = Chosen(S, window)
       /\ Len(selected) = Cardinality(Chosen(S, window))
       /\ \A i, j \in DOMAIN selected : i < j => SampleLess(selected[i], selected[j])

----------------------------------------------------------------------------
(* The clock of the series can be dated at an instant. *)
Dated(at) ==
  \/ clock = Local
  \/ /\ Convertible => HasRate(clock)
     /\ \E e \in equivalences :
          /\ {e.a, e.b} = {clock, Local} /\ e.authority >= MinAuthority
          /\ e.until = Forever \/ at <= e.until

(* An observation that may count: young by its receipt and by its own clock. *)
(* A clock that does not count nanoseconds has its ticks taken for them,     *)
(* which never makes a reading after its origin younger.  A reading whose    *)
(* age cannot be represented counts only under a policy that asks for none.  *)
Admissible(x, at) ==
  LET age == at - x.observed * Rate(clock) IN
  /\ Dated(at) /\ at - x.received <= freshness.max_ingest
  /\ \/ /\ Rate(clock) = 1 => age \in -freshness.future .. freshness.max_observation
        /\ HasRate(clock) /\ x.observed >= 0 => age <= freshness.max_observation
     \/ ~freshness.require_observation /\ ~Fits(at - x.observed)

(* A positive level is about the open generation and rests on enough of the  *)
(* selected observations, which are young and of a clock that can be dated   *)
(* at the instant (summarize over assess_sample, ClockModel::assess and      *)
(* classify).                                                                *)
VerdictNeedsEvidence ==
  \A o \in Generations, at \in Instants :
    Summary(o, at).level \in Positive =>
      /\ o = ordinal
      /\ Cardinality({x \in Range(Select(windows[o], window)) : Admissible(x, at)})
           >= Policy.min_fresh

Misdeclared == {"MeanAbsoluteDeviation", "MedianAbsoluteDeviation", "InterquartileRange"}

Latencies(s) == [i \in DOMAIN s |-> s[i].latency]

(* A rule has something to say about the readings: its metric is asked for   *)
(* and defined for them, and has the terms that the policy requires.         *)
Telling(r, xs) ==
  LET d == Definition[r.metric]
      terms == IF d.input = "latency" THEN Len(xs) ELSE Len(xs) - 1
  IN /\ r.metric \in MetricsAsked /\ Len(xs) >= d.min_samples
     /\ terms >= Policy.min_terms
     /\ r.metric = "CoefficientOfVariation" => Sum(xs) > 0

(* The rules ask for the level whose threshold is the field `at'.            *)
Reached(at, xs) ==
  LET Breached(r) == Telling(r, xs) /\ Breaches(Formula(r.metric, xs), r[at], r.direction)
  IN IF Policy.require_all THEN \A i \in DOMAIN Policy.rules : Breached(Policy.rules[i])
                           ELSE \E i \in DOMAIN Policy.rules : Breached(Policy.rules[i])

(* A positive level follows, by the rules of the policy, from the declared   *)
(* values of the metrics over the fresh observations of the selection and    *)
(* over no other (summarize, classify), for rules over metrics that have     *)
(* their declared value.                                                     *)
VerdictSupported ==
  (\A i \in DOMAIN Policy.rules : Policy.rules[i].metric \notin Misdeclared) =>
    \A o \in Generations, at \in Instants :
      LET level == Summary(o, at).level
          xs == Latencies(Filtered(Select(windows[o], window), Fresh(o, at)))
      IN level \in Positive =>
           /\ \E i \in DOMAIN Policy.rules : Telling(Policy.rules[i], xs)
           /\ level = IF Reached("unstable_at", xs) THEN "unstable"
                      ELSE IF Reached("elevated_at", xs) THEN "elevated" ELSE "stable"

----------------------------------------------------------------------------
Follows(keys) ==
  \A o \in Generations : \A key \in keys :
    LET xs == Latencies(Select(windows[o], window))
        result == Compute(key, xs)
    IN /\ Len(xs) < Definition[key].min_samples => result.code # "ok"
       /\ result.code = "ok" => SameValue(result.value, Formula(key, xs))
       /\ /\ Len(xs) >= Definition[key].min_samples
          /\ Definition[key].input # "latency" => \A i \in DOMAIN Steps(xs) : Fits(Steps(xs)[i])
          /\ key = "CoefficientOfVariation" => Mean(xs).num > 0
          => result.code = "ok"

(* The value of a hop is that of its readings in nanoseconds (to_nanos), but *)
(* for a difference whose negation overflows (absolute_deltas).              *)
HopsFollow(keys) ==
  \A at \in Instants, h \in Hops :
    LET hop == HopReport(at).hops[h]
        arrivals == Arrivals(Select(windows[ordinal], window), h)
        xs == [i \in DOMAIN arrivals |-> arrivals[i].ticks * Rate(arrivals[i].domain)]
    IN /\ hop.state = "attributed" /\ HopKey \in keys
       /\ Definition[HopKey].input = "absolute" => \A i \in DOMAIN Steps(xs) : Steps(xs)[i] # -MaxInt - 1
       => SameValue(hop.value, Formula(HopKey, xs))

(* Every metric but three has the value its formula declares, or none when   *)
(* there are too few readings or a difference cannot be represented, for     *)
(* readings of any order, repeated or equal (compute of metrics.cpp), and so *)
(* has the metric of a hop (attribute_hops).                                 *)
MetricsFollowFormulas ==
  Follows(MetricKey \ Misdeclared) /\ HopsFollow(MetricKey \ Misdeclared)

(* docs/metrics.md:22-40 and the formula strings of metrics.cpp: every one.  *)
MetricsAsDeclared == Follows(MetricKey)

(* docs/metrics.md:51-54, README.md:42: the order of arrival does not change *)
(* what is measured, as long as no observation has been evicted: a window    *)
(* selects what it would select had all it was offered come in the order it  *)
(* was made (SampleWindow::add, select).                                     *)
OrderIndependent ==
  \A o \in Generations :
    LET inOrder == Filled(NewWindow, Canonical(offered[o]), window)
    IN (\A w \in Windows : Cardinality(offered[o]) <= w.capacity) =>
         Select(windows[o], window) = Select(inOrder, window)

GroundedComparison(c, b, o, at) ==
  \A k \in DOMAIN c : c[k].verdict = "comparable" =>
    /\ o = b.ordinal /\ window = b.window
    /\ Cardinality(b.taken) >= Definition[k].min_samples
    /\ Cardinality(Fresh(o, at)) >= Definition[k].min_samples

(* A change is reported only between measurements of one generation under    *)
(* one window policy, each over enough observations that counted when it was *)
(* taken (compare_to_baseline, capture_baseline_locked).                     *)
ComparisonGrounded ==
  \A b \in baselines, o \in Generations, at \in Instants :
    GroundedComparison(Comparison(b, o, at), b, o, at)

(* Enough readings of a hop, of one clock that is comparable with that of    *)
(* the series at the instant and has a rate.                                 *)
OfOneClock(arrivals, at) ==
  LET d == arrivals[1].domain IN
  /\ Len(arrivals) >= Definition[HopKey].min_samples
  /\ \A i \in DOMAIN arrivals : arrivals[i].domain = d
  /\ HasRate(d) /\ Comparability(clock, d, at) = "comparable"

(* A hop has a value only when every reading of it in the selection is of    *)
(* one clock, comparable with that of the series at the instant, and a       *)
(* report is complete only when no hop is left out (attribute_hops).         *)
AttributionGrounded ==
  \A at \in Instants :
    LET report == HopReport(at)
        selected == Select(windows[ordinal], window)
    IN /\ \A h \in Hops : report.hops[h].state = "attributed" =>
            OfOneClock(Arrivals(selected, h), at)
       /\ report.complete => \A h \in Hops : report.hops[h].state = "attributed"
=============================================================================
