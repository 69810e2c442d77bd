------------------------------ MODULE Freshness ------------------------------
(***************************************************************************)
(* The admissibility of one observation at an instant, and of a selection: *)
(* assess_sample and EvidenceSummary of src/src/evidence.cpp.  A sample    *)
(* carries the tick its source observed it at, on the clock of its series, *)
(* and the instant of its receipt on the local clock.                      *)
(***************************************************************************)
EXTENDS ClockModel

CONSTANTS
  MinBudget, MaxBudget  (* kMinFreshnessBudgetNs, kMaxFreshnessBudgetNs     *)

(* validate_freshness_policy *)
ValidFreshness(p) ==
  /\ {p.expiry_ingest, p.expiry_observation} \subseteq Int
  /\ p.max_ingest \in MinBudget..MaxBudget /\ p.expiry_ingest >= p.max_ingest
  /\ p.max_observation \in MinBudget..MaxBudget
  /\ p.expiry_observation >= p.max_observation
  /\ p.future \in 0..MaxBudget /\ p.require_observation \in BOOLEAN

EvidenceStates ==
  {"fresh", "stale", "expired", "conflicting", "incomplete", "unsupported", "unknown"}

----------------------------------------------------------------------------
(* Plausible fault: a clock that is known to be incomparable is treated like *)
(* one that was never registered.                                            *)
AssessForgetful(x, clock, at, p) ==
  LET ingest == at - x.received
      observation == at - x.observed
      aged == Comparability(clock, Local, at) = "comparable" /\ Fits(observation)
  IN IF ~Fits(ingest)                                  THEN "unknown"
     ELSE IF ingest > p.expiry_ingest                  THEN "expired"
     ELSE IF aged /\ observation > p.expiry_observation THEN "expired"
     ELSE IF ingest > p.max_ingest                     THEN "stale"
     ELSE IF aged /\ observation > p.max_observation   THEN "stale"
     ELSE IF aged /\ observation < -p.future           THEN "unknown"
     ELSE IF ~aged /\ p.require_observation            THEN "unknown"
     ELSE "fresh"

(* assess_sample.  The observation age is a difference of ticks: a tick of   *)
(* the source counts as one nanosecond whatever its unit.                    *)
AssessSample(x, clock, at, p) ==
  LET verdict == Comparability(clock, Local, at)
      ingest == at - x.received
      observation == at - x.observed
      aged == verdict = "comparable" /\ Fits(observation)
  IN IF ~Fits(ingest)                                  THEN "unknown"
     ELSE IF ingest > p.expiry_ingest                  THEN "expired"
     ELSE IF aged /\ observation > p.expiry_observation THEN "expired"
     ELSE IF ingest > p.max_ingest                     THEN "stale"
     ELSE IF aged /\ observation > p.max_observation   THEN "stale"
     ELSE IF aged /\ observation < -p.future           THEN "unknown"
     ELSE IF ~aged /\ verdict = "incomparable"         THEN "unsupported"
     ELSE IF ~aged /\ p.require_observation            THEN "unknown"
     ELSE "fresh"

(* summarize_evidence: how many of the assessments are in each state.        *)
EvidenceOf(states) ==
  [s \in EvidenceStates |-> Cardinality({i \in DOMAIN states : states[i] = s})]

NoEvidence(evidence) == \A s \in EvidenceStates : evidence[s] = 0

(* recompute_dominant *)
Dominant(evidence) ==
  LET precedence == <<"conflicting", "fresh", "stale", "expired", "unsupported",
                      "unknown", "incomplete">>
      present == SelectSeq(precedence, LAMBDA s : evidence[s] > 0)
  IN IF present = <<>> THEN "missing" ELSE Head(present)

AdmitsPositive(evidence) == evidence["fresh"] > 0 /\ evidence["conflicting"] = 0
=============================================================================
