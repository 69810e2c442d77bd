----------------------------- MODULE Admission -----------------------------
(***************************************************************************)
(* What a batch must be before anything is done with it: validate_sample   *)
(* and validate_batch of src/src/sample.cpp and the tests ingest_locked    *)
(* makes of the header against the registries.  Identities that must not   *)
(* be nil and metadata, which only has a size, are left out; revision and  *)
(* authority, which must be those registered for the source, are one.      *)
(***************************************************************************)
EXTENDS Integers, FiniteSets, Sequences

CONSTANTS
  MinLatency, MaxLatency,  (* Limits::kMinLatencyNs, kMaxLatencyNs          *)
  MaxHopsPerPath,          (* Limits::kMaxHopsPerPath                      *)
  MaxSamplesPerBatch,      (* Limits::kMaxSamplesPerBatch                  *)
  SourceOrigin,            (* the registered source's origin               *)
  SourceClaims,            (* its protocol revision and authority          *)
  AcceptSynthetic          (* config_.accept_synthetic                     *)

Origins == {"real", "synthetic", "unsupported", "unknown"}

ASSUME AdmissionAssumption ==
  /\ MinLatency \in Int /\ MaxLatency \in Int
  /\ MaxHopsPerPath \in Nat /\ MaxSamplesPerBatch \in Nat
  /\ SourceOrigin \in Origins /\ AcceptSynthetic \in BOOLEAN

(* validate_sample *)
ValidSample(x) ==
  /\ x.latency \in MinLatency..MaxLatency
  /\ Cardinality(DOMAIN x.arrived) <= MaxHopsPerPath
  /\ x.origin # "unknown"

(* validate_batch, for the one generation that is asked for. *)
ValidBatch(b) ==
  /\ Len(b.samples) \in 1..MaxSamplesPerBatch
  /\ b.origin # "unknown"
  /\ \A i \in DOMAIN b.samples : ValidSample(b.samples[i]) /\ b.samples[i].clock = b.clock

(* check_origin_consistency *)
ConsistentOrigin(declared, claimed) ==
  /\ {declared, claimed} \subseteq {"real", "synthetic"}
  /\ declared = "synthetic" => claimed = "synthetic"

(* ingest_locked lets the batch through to the fence: the series is measured *)
(* on the clock, and every sample is of the origin, the header states.       *)
Permitted(b, clock) ==
  /\ ValidBatch(b)
  /\ b.claims = SourceClaims
  /\ ConsistentOrigin(SourceOrigin, b.origin)
  /\ b.origin = "synthetic" => AcceptSynthetic
  /\ b.clock = clock
  /\ \A i \in DOMAIN b.samples : b.samples[i].origin = b.origin
=============================================================================
