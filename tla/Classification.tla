--------------------------- MODULE Classification ---------------------------
(***************************************************************************)
(* From a selection to a verdict: summarize of src/src/summary.cpp and     *)
(* classify of src/src/classification.cpp.  Reasons, digests and the       *)
(* observation span of the report are left out.                            *)
(***************************************************************************)
EXTENDS Freshness, Metrics, Listings

(* validate_instability_policy: a rule watches a metric, in one direction,   *)
(* once; its unstable threshold is at least as far as the elevated one.      *)
ValidPolicy(p) ==
  /\ p.min_terms > 0 /\ {p.min_fresh, p.max_conflicts} \subseteq Nat
  /\ \A i \in DOMAIN p.rules :
       LET r == p.rules[i] IN
       /\ r.metric \in MetricKey /\ {r.elevated_at, r.unstable_at} \subseteq Int
       /\ r.direction = "at_least" => r.unstable_at >= r.elevated_at
       /\ r.direction = "at_most" => r.unstable_at <= r.elevated_at
       /\ \A j \in DOMAIN p.rules :
            p.rules[j].metric = r.metric /\ p.rules[j].direction = r.direction => i = j

Breaches(v, threshold, direction) ==
  IF direction = "at_least" THEN AtLeast(v, threshold) ELSE AtMost(v, threshold)

(* A rule can be evaluated when its metric was computed from enough terms.   *)
Evaluable(r, metrics, p) ==
  r.metric \in DOMAIN metrics /\ metrics[r.metric].terms >= p.min_terms

(* Whether the rules call for a level, whose threshold is the field `at': all *)
(* of them or any of them; a rule that cannot be evaluated does not.         *)
Called(p, metrics, at) ==
  LET Breach(r) == /\ Evaluable(r, metrics, p)
                   /\ Breaches(metrics[r.metric].value, r[at], r.direction)
  IN IF p.require_all THEN \A i \in DOMAIN p.rules : Breach(p.rules[i])
                      ELSE \E i \in DOMAIN p.rules : Breach(p.rules[i])

(* classify *)
Level(evidence, metrics, current, p) ==
  LET OnlyExpired == /\ evidence["expired"] > 0
                     /\ \A s \in {"stale", "unknown", "unsupported", "incomplete"} :
                          evidence[s] = 0
      evaluable == \E i \in DOMAIN p.rules : Evaluable(p.rules[i], metrics, p)
  IN IF ~current \/ p.rules = <<>>                       THEN "unsupported"
     ELSE IF NoEvidence(evidence)                        THEN "missing"
     ELSE IF evidence["conflicting"] > p.max_conflicts   THEN "conflicting"
     ELSE IF evidence["fresh"] = 0 /\ OnlyExpired        THEN "expired"
     ELSE IF evidence["fresh"] = 0                       THEN "stale"
     ELSE IF evidence["fresh"] < p.min_fresh \/ ~evaluable THEN "insufficient"
     ELSE IF Called(p, metrics, "unstable_at")           THEN "unstable"
     ELSE IF Called(p, metrics, "elevated_at")           THEN "elevated"
     ELSE "stable"

Positive == {"stable", "elevated", "unstable"}

WithLevel(evidence, metrics, current, p) ==
  [evidence |-> evidence, metrics |-> metrics,
   level |-> Level(evidence, metrics, current, p)]

(* Plausible fault: every selected observation enters the numbers. *)
SummaryOfAll(selected, states, keys, current, p) ==
  LET latencies == [i \in DOMAIN selected |-> selected[i].latency]
  IN WithLevel(EvidenceOf(states), ComputeAll(keys, latencies), current, p)

(* summarize: only the fresh observations of a selection enter the numbers.  *)
SummaryOf(selected, states, keys, current, p) ==
  LET fresh == Increasing({i \in DOMAIN selected : states[i] = "fresh"})
      latencies == [j \in DOMAIN fresh |-> selected[fresh[j]].latency]
  IN WithLevel(EvidenceOf(states), ComputeAll(keys, latencies), current, p)
=============================================================================
