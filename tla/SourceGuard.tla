---------------------------- MODULE SourceGuard ----------------------------
(***************************************************************************)
(* The per-source replay fence of src/src/source.cpp: evaluate_sequence    *)
(* decides what a batch is, apply_sequence moves the guard.                *)
(*                                                                         *)
(* A provenance is the position a source claims for a batch: its           *)
(* incarnation, its epoch and its sequence number.  A content is the       *)
(* digest of what the batch carries.                                       *)
(***************************************************************************)
EXTENDS Integers

CONSTANTS
  Contents,   (* digests of batch contents                                 *)
  NoContent   (* the all-zero digest of a guard nothing has been applied to *)

ASSUME GuardAssumption == NoContent \notin Contents

Position == [incarnation : Nat, epoch : Nat, sequence : Nat]

GuardState == [initialized : BOOLEAN, incarnation : Nat, epoch : Nat,
               last_sequence : Nat, last_content : Contents \cup {NoContent}]

NewGuard == [initialized |-> FALSE, incarnation |-> 0, epoch |-> 0,
             last_sequence |-> 0, last_content |-> NoContent]

Stale == {"stale_incarnation", "stale_epoch", "stale_sequence"}
Verdicts == {"accept", "duplicate_idempotent", "sequence_conflict", "historical"}
              \cup Stale

(* Plausible fault, for the mutation runs: the epoch is not compared.        *)
EvaluateIgnoringEpoch(guard, p, content, historical) ==
  IF historical                              THEN "historical"
  ELSE IF ~guard.initialized                 THEN "accept"
  ELSE IF p.incarnation < guard.incarnation  THEN "stale_incarnation"
  ELSE IF p.incarnation > guard.incarnation  THEN "accept"
  ELSE IF p.sequence > guard.last_sequence   THEN "accept"
  ELSE IF p.sequence < guard.last_sequence   THEN "stale_sequence"
  ELSE IF content = guard.last_content       THEN "duplicate_idempotent"
  ELSE "sequence_conflict"

(* The first test that applies decides, as in evaluate_sequence. *)
Evaluate(guard, p, content, historical) ==
  IF historical                              THEN "historical"
  ELSE IF ~guard.initialized                 THEN "accept"
  ELSE IF p.incarnation < guard.incarnation  THEN "stale_incarnation"
  ELSE IF p.incarnation > guard.incarnation  THEN "accept"
  ELSE IF p.epoch < guard.epoch              THEN "stale_epoch"
  ELSE IF p.epoch > guard.epoch              THEN "accept"
  ELSE IF p.sequence > guard.last_sequence   THEN "accept"
  ELSE IF p.sequence < guard.last_sequence   THEN "stale_sequence"
  ELSE IF content = guard.last_content       THEN "duplicate_idempotent"
  ELSE "sequence_conflict"

(* Plausible fault: the content of a guard already in use is not updated.    *)
ApplyForgettingContent(guard, p, content) ==
  [initialized |-> TRUE, incarnation |-> p.incarnation, epoch |-> p.epoch,
   last_sequence |-> p.sequence,
   last_content |-> IF guard.initialized THEN guard.last_content ELSE content]

(* apply_sequence: restore also calls it with positions evaluate_sequence    *)
(* never accepted, so the order of its tests matters.                        *)
Apply(guard, p, content) ==
  LET here == [initialized |-> TRUE, incarnation |-> p.incarnation,
               epoch |-> p.epoch, last_sequence |-> p.sequence,
               last_content |-> content]
  IN IF ~guard.initialized \/ p.incarnation > guard.incarnation THEN here
     ELSE IF p.epoch > guard.epoch THEN [here EXCEPT !.incarnation = guard.incarnation]
     ELSE IF p.sequence >= guard.last_sequence
       THEN [guard EXCEPT !.last_sequence = p.sequence, !.last_content = content]
     ELSE guard

(* The position a guard stands at. *)
At(guard) == [incarnation |-> guard.incarnation, epoch |-> guard.epoch,
              sequence |-> guard.last_sequence]

(* The order sources promise: a boot outranks an epoch, an epoch a sequence. *)
Before(p, q) ==
  \/ p.incarnation < q.incarnation
  \/ p.incarnation = q.incarnation /\ p.epoch < q.epoch
  \/ p.incarnation = q.incarnation /\ p.epoch = q.epoch /\ p.sequence < q.sequence
=============================================================================
