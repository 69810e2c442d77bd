---------------------------- MODULE SourceFence ----------------------------
(***************************************************************************)
(* Live and archival ingest behind the source guard, from evaluate to      *)
(* apply in Observatory::ingest_locked (src/src/engine.cpp), with the log  *)
(* of contradictions (src/src/evidence.cpp).                               *)
(*                                                                         *)
(* The sources and the network are outside the program: any batch may      *)
(* arrive at any time, so batches are lost, repeated and reordered, and a  *)
(* source may restart with or without a new incarnation, change its epoch, *)
(* or send two contents for one position.  The admission checks that come  *)
(* before the guard are the subject of Observatory.                        *)
(***************************************************************************)
EXTENDS SourceGuard, Sequences, FiniteSets

CONSTANTS
  Sources,       (* registered sources                                     *)
  Positions,     (* positions the sources may claim                        *)
  MaxConflicts,  (* Limits::kMaxConflictsRetained                          *)
  MaxRecorded,   (* bound: contradictions counted in a behaviour           *)
  MaxArchived    (* bound: archival batches in a behaviour                 *)

ASSUME FenceAssumption ==
  /\ Positions \subseteq Position
  /\ MaxConflicts \in Nat \ {0} /\ MaxRecorded \in Nat /\ MaxArchived \in Nat

Batch == [position : Positions, content : Contents]

(* What the identity of a ConflictRecord covers here: not the incarnation    *)
(* or the epoch, and not the time of detection.                              *)
Conflict == [source : Sources, sequence : Nat,
             content_a : Contents \cup {NoContent}, content_b : Contents]

VARIABLES
  guards,     (* guards_                                                   *)
  conflicts,  (* conflicts_.records_                                       *)
  dropped,    (* conflicts_.dropped_                                       *)
  recorded,   (* counters_.conflicts_recorded                              *)
  accepted,   (* history: the batches accepted from each source, in order  *)
  archived    (* counters_.batches_historical                              *)

vars == <<guards, conflicts, dropped, recorded, accepted, archived>>

TypeOK ==
  /\ guards \in [Sources -> GuardState]
  /\ conflicts \subseteq Conflict
  /\ dropped \in Nat /\ recorded \in Nat
  /\ accepted \in [Sources -> Seq(Batch)]
  /\ archived \in Nat

Init ==
  /\ guards = [s \in Sources |-> NewGuard]
  /\ conflicts = {} /\ dropped = 0 /\ recorded = 0
  /\ accepted = [s \in Sources |-> <<>>]
  /\ archived = 0

Verdict(s, b, historical) ==
  Evaluate(guards[s], b.position, b.content, historical)

(* The samples are stored and the guard moves. *)
AcceptBatch(s, b) ==
  /\ Verdict(s, b, FALSE) = "accept"
  /\ guards' = [guards EXCEPT ![s] = Apply(@, b.position, b.content)]
  /\ accepted' = [accepted EXCEPT ![s] = Append(@, b)]
  /\ UNCHANGED <<conflicts, dropped, recorded, archived>>

(* Plausible fault, for the mutation runs: archival batches move the guard.  *)
ArchiveBatchMovingGuard(s, b) ==
  /\ archived < MaxArchived
  /\ archived' = archived + 1
  /\ guards' = [guards EXCEPT ![s] = Apply(@, b.position, b.content)]
  /\ UNCHANGED <<conflicts, dropped, recorded, accepted>>

(* context.historical: the samples are stored, the guard stays. *)
ArchiveBatch(s, b) ==
  /\ Verdict(s, b, TRUE) = "historical"
  /\ archived < MaxArchived
  /\ archived' = archived + 1
  /\ UNCHANGED <<guards, conflicts, dropped, recorded, accepted>>

(* ConflictLog::append drops the record with the smallest identity, a        *)
(* digest: any of them, the new one included.                                *)
Retained(S) ==
  IF Cardinality(S) > MaxConflicts THEN {S \ {r} : r \in S} ELSE {S}

(* Plausible fault: the two contents swapped.                                *)
RecordConflictSwapped(s, b) ==
  LET record == [source |-> s, sequence |-> b.position.sequence,
                 content_a |-> b.content, content_b |-> guards[s].last_content]
  IN /\ Verdict(s, b, FALSE) = "sequence_conflict"
     /\ record \notin conflicts
     /\ recorded < MaxRecorded
     /\ conflicts' \in Retained(conflicts \cup {record})
     /\ dropped' = IF Cardinality(conflicts) = MaxConflicts THEN dropped + 1 ELSE dropped
     /\ recorded' = recorded + 1
     /\ UNCHANGED <<guards, accepted, archived>>

(* The verdict sequence_conflict: recorded unless already retained; neither  *)
(* content is preferred and the batch is rejected.                           *)
RecordConflict(s, b) ==
  LET record == [source |-> s, sequence |-> b.position.sequence,
                 content_a |-> guards[s].last_content, content_b |-> b.content]
  IN /\ Verdict(s, b, FALSE) = "sequence_conflict"
     /\ record \notin conflicts
     /\ recorded < MaxRecorded
     /\ conflicts' \in Retained(conflicts \cup {record})
     /\ dropped' = IF Cardinality(conflicts) = MaxConflicts THEN dropped + 1 ELSE dropped
     /\ recorded' = recorded + 1
     /\ UNCHANGED <<guards, accepted, archived>>

(* Duplicates, stale positions and contradictions already on record change   *)
(* nothing the fence keeps.                                                  *)
RefuseBatch(s, b) ==
  /\ \/ Verdict(s, b, FALSE) \in Stale \cup {"duplicate_idempotent"}
     \/ /\ Verdict(s, b, FALSE) = "sequence_conflict"
        /\ \E r \in conflicts : /\ r.source = s /\ r.sequence = b.position.sequence
                                /\ r.content_a = guards[s].last_content
                                /\ r.content_b = b.content
  /\ UNCHANGED vars

Ingest(s, b) ==
  AcceptBatch(s, b) \/ ArchiveBatch(s, b) \/ RecordConflict(s, b) \/ RefuseBatch(s, b)

Next == \E s \in Sources, b \in Batch : Ingest(s, b)

Spec == Init /\ [][Next]_vars

----------------------------------------------------------------------------
Accepted(s) == {accepted[s][i] : i \in DOMAIN accepted[s]}

(* The batches accepted from a source are in the order the source promises,  *)
(* strictly: no position is ever accepted twice, whatever the network        *)
(* repeats or reorders, and no two contents of one position both count.      *)
AcceptedInOrder ==
  \A s \in Sources : \A i, j \in DOMAIN accepted[s] :
    i < j => Before(accepted[s][i].position, accepted[s][j].position)

(* The guard is the last accepted batch of its source: archival ingest,      *)
(* duplicates, contradictions and stale batches leave no trace in it.        *)
GuardIsLastAccepted ==
  \A s \in Sources :
    LET n == Len(accepted[s]) IN
    /\ guards[s].initialized <=> n > 0
    /\ n > 0 => /\ At(guards[s]) = accepted[s][n].position
                /\ guards[s].last_content = accepted[s][n].content

(* Delivering an accepted batch again is harmless: never new evidence and    *)
(* never a contradiction, however late the copy arrives.                     *)
RedeliveryFenced ==
  \A s \in Sources : \A b \in Accepted(s) :
    Verdict(s, b, FALSE) \in Stale \cup {"duplicate_idempotent"}

(* Every retained contradiction is between the content accepted for a        *)
(* position and another content of that position that was not accepted.      *)
ConflictsAreReal ==
  \A r \in conflicts : \E b \in Accepted(r.source) :
    /\ b.position.sequence = r.sequence /\ b.content = r.content_a
    /\ r.content_b # r.content_a

(* The log stays within its bound and accounts for what it gave up.          *)
ConflictsAccounted ==
  /\ Cardinality(conflicts) <= MaxConflicts
  /\ recorded = Cardinality(conflicts) + dropped

(* The conflict log tells the truth, about what it holds and what it lost.   *)
ConflictLogTrue == ConflictsAreReal /\ ConflictsAccounted
=============================================================================
