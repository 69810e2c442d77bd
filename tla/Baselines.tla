----------------------------- MODULE Baselines -----------------------------
(***************************************************************************)
(* Comparison with a frozen measurement: src/src/baseline.cpp.  A baseline *)
(* is [ordinal, window, metrics, taken]: the generation and the window     *)
(* policy it was measured under, the values, and the observations behind   *)
(* them, which the code does not keep.  Ratios follow from the two values  *)
(* of a delta and are left out; series and path are one.                   *)
(***************************************************************************)
EXTENDS Freshness

(* make_baseline *)
MakeBaseline(ordinal, window, metrics, taken) ==
  [ordinal |-> ordinal, window |-> window, metrics |-> metrics, taken |-> taken]

(* verdict_for *)
VerdictFor ==
  [fresh |-> "comparable", stale |-> "stale", expired |-> "expired",
   conflicting |-> "conflicting", incomplete |-> "insufficient",
   unsupported |-> "unsupported", unknown |-> "insufficient", missing |-> "missing"]

Refused(verdict) == [verdict |-> verdict]

(* Plausible fault: the window policy of the baseline is not looked at. *)
CompareAnyWindow(b, ordinal, window, current) ==
  [k \in DOMAIN b.metrics |->
     IF b.ordinal # ordinal THEN Refused("incomparable")
     ELSE IF k \notin DOMAIN current.metrics THEN Refused("missing")
     ELSE IF ~AdmitsPositive(current.evidence) THEN
       Refused(VerdictFor[Dominant(current.evidence)])
     ELSE [verdict |-> "comparable",
           delta |-> <<b.metrics[k].value, current.metrics[k].value>>]]

(* compare_to_baseline, metric by metric, of a summary of that generation    *)
(* under that window policy; a delta is the pair of its values.              *)
Compare(b, ordinal, window, current) ==
  [k \in DOMAIN b.metrics |->
     IF b.ordinal # ordinal \/ b.window # window THEN
       Refused("incomparable")
     ELSE IF k \notin DOMAIN current.metrics THEN Refused("missing")
     ELSE IF ~AdmitsPositive(current.evidence) THEN
       Refused(VerdictFor[Dominant(current.evidence)])
     ELSE [verdict |-> "comparable",
           delta |-> <<b.metrics[k].value, current.metrics[k].value>>]]
=============================================================================
