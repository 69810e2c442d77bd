------------------------ MODULE IngestServiceProofs ------------------------
(***************************************************************************)
(* Proofs about SourceFence and about IngestService, which is built on it. *)
(*                                                                         *)
(* First the fence, for every set of sources, positions and contents,      *)
(* every length of run and every capacity of the conflict log.  Then the   *)
(* service, for every number of probes, plans, peers, frames, connections, *)
(* faults and server processes: what a probe believes of its batches is    *)
(* true, what was saved is never accepted again nor lost by a later save,  *)
(* and a server and a probe never both wait.                               *)
(***************************************************************************)
EXTENDS IngestService, SequenceTheorems, FiniteSetTheorems, TLAPS

----------------------------------------------------------------------------
(* The two functions of source.cpp, as pure functions.                       *)

(* The cases of evaluate_sequence for a live batch, without their order.     *)
LEMMA LiveVerdict ==
  ASSUME NEW guard \in GuardState, NEW p \in Position, NEW content
  PROVE  LET v == Evaluate(guard, p, content, FALSE) IN
         /\ ~guard.initialized => v = "accept"
         /\ guard.initialized /\ Before(p, At(guard)) => v \in Stale
         /\ guard.initialized /\ Before(At(guard), p) => v = "accept"
         /\ guard.initialized /\ p = At(guard) /\ content = guard.last_content
              => v = "duplicate_idempotent"
         /\ guard.initialized /\ p = At(guard) /\ content # guard.last_content
              => v = "sequence_conflict"
<1> DEFINE v == Evaluate(guard, p, content, FALSE)
<1>0. /\ guard.initialized \in BOOLEAN
      /\ guard.incarnation \in Nat /\ guard.epoch \in Nat /\ guard.last_sequence \in Nat
      /\ p.incarnation \in Nat /\ p.epoch \in Nat /\ p.sequence \in Nat
  BY DEF GuardState, Position
<1>1. CASE ~guard.initialized
  BY <1>0, <1>1 DEF Evaluate
<1>2. CASE guard.initialized /\ p.incarnation # guard.incarnation
  <2>1. At(guard) # p
    BY <1>2 DEF At
  <2>2. CASE p.incarnation < guard.incarnation
    <3>1. v = "stale_incarnation" /\ ~Before(At(guard), p)
      BY <1>0, <1>2, <2>2 DEF Evaluate, Before, At
    <3> QED
      BY <1>2, <2>1, <3>1 DEF Stale
  <2>3. CASE p.incarnation > guard.incarnation
    <3>1. v = "accept" /\ ~Before(p, At(guard))
      BY <1>0, <1>2, <2>3 DEF Evaluate, Before, At
    <3> QED
      BY <1>2, <2>1, <3>1
  <2>4. p.incarnation < guard.incarnation \/ p.incarnation > guard.incarnation
    BY <1>0, <1>2
  <2> QED
    BY <2>2, <2>3, <2>4
<1>3. CASE /\ guard.initialized /\ p.incarnation = guard.incarnation
           /\ p.epoch # guard.epoch
  <2>1. At(guard) # p
    BY <1>3 DEF At
  <2>2. CASE p.epoch < guard.epoch
    <3>1. v = "stale_epoch" /\ ~Before(At(guard), p)
      BY <1>0, <1>3, <2>2 DEF Evaluate, Before, At
    <3> QED
      BY <1>3, <2>1, <3>1 DEF Stale
  <2>3. CASE p.epoch > guard.epoch
    <3>1. v = "accept" /\ ~Before(p, At(guard))
      BY <1>0, <1>3, <2>3 DEF Evaluate, Before, At
    <3> QED
      BY <1>3, <2>1, <3>1
  <2>4. p.epoch < guard.epoch \/ p.epoch > guard.epoch
    BY <1>0, <1>3
  <2> QED
    BY <2>2, <2>3, <2>4
<1>4. CASE /\ guard.initialized /\ p.incarnation = guard.incarnation
           /\ p.epoch = guard.epoch
  <2>1. CASE p.sequence < guard.last_sequence
    <3>1. v = "stale_sequence" /\ ~Before(At(guard), p) /\ At(guard) # p
      BY <1>0, <1>4, <2>1 DEF Evaluate, Before, At
    <3> QED
      BY <1>4, <3>1 DEF Stale
  <2>2. CASE p.sequence > guard.last_sequence
    <3>1. v = "accept" /\ ~Before(p, At(guard)) /\ At(guard) # p
      BY <1>0, <1>4, <2>2 DEF Evaluate, Before, At
    <3> QED
      BY <1>4, <3>1
  <2>3. CASE p.sequence = guard.last_sequence
    <3>1. /\ v = (IF content = guard.last_content THEN "duplicate_idempotent"
                                                  ELSE "sequence_conflict")
          /\ ~Before(p, At(guard)) /\ ~Before(At(guard), p)
      BY <1>0, <1>4, <2>3 DEF Evaluate, Before, At
    <3> QED
      BY <1>4, <3>1
  <2>4. \/ p.sequence < guard.last_sequence \/ p.sequence > guard.last_sequence
        \/ p.sequence = guard.last_sequence
    BY <1>0
  <2> QED
    BY <2>1, <2>2, <2>3, <2>4
<1> QED
  BY <1>1, <1>2, <1>3, <1>4

(* Any two positions are ordered. *)
LEMMA BeforeTotal ==
  ASSUME NEW guard \in GuardState, NEW p \in Position
  PROVE  Before(p, At(guard)) \/ Before(At(guard), p) \/ p = At(guard)
<1>1. /\ guard.incarnation \in Nat /\ guard.epoch \in Nat /\ guard.last_sequence \in Nat
      /\ p.incarnation \in Nat /\ p.epoch \in Nat /\ p.sequence \in Nat
  BY DEF GuardState, Position
<1>2. CASE /\ p.incarnation = guard.incarnation /\ p.epoch = guard.epoch
           /\ p.sequence = guard.last_sequence
  <2>1. p = [incarnation |-> p.incarnation, epoch |-> p.epoch, sequence |-> p.sequence]
    BY DEF Position
  <2> QED
    BY <1>2, <2>1 DEF At
<1>3. CASE ~(/\ p.incarnation = guard.incarnation /\ p.epoch = guard.epoch
             /\ p.sequence = guard.last_sequence)
  BY <1>1, <1>3 DEF Before, At
<1> QED
  BY <1>2, <1>3

(* A batch is accepted from a source only if the source is new or the batch  *)
(* stands after the guard.                                                   *)
LEMMA AcceptAdvances ==
  ASSUME NEW guard \in GuardState, NEW p \in Position, NEW content,
         Evaluate(guard, p, content, FALSE) = "accept", guard.initialized
  PROVE  Before(At(guard), p)
<1>1. "accept" \notin Stale
  BY DEF Stale
<1> QED
  BY <1>1, LiveVerdict, BeforeTotal

(* Applying an accepted batch puts the guard exactly where the batch stands. *)
LEMMA ApplyFollows ==
  ASSUME NEW guard \in GuardState, NEW p \in Position, NEW content \in Contents,
         Evaluate(guard, p, content, FALSE) = "accept"
  PROVE  /\ Apply(guard, p, content) \in GuardState
         /\ Apply(guard, p, content).initialized
         /\ At(Apply(guard, p, content)) = p
         /\ Apply(guard, p, content).last_content = content
<1> DEFINE here == [initialized |-> TRUE, incarnation |-> p.incarnation,
                    epoch |-> p.epoch, last_sequence |-> p.sequence,
                    last_content |-> content]
<1>0. /\ guard.initialized \in BOOLEAN
      /\ guard.incarnation \in Nat /\ guard.epoch \in Nat /\ guard.last_sequence \in Nat
      /\ p.incarnation \in Nat /\ p.epoch \in Nat /\ p.sequence \in Nat
  BY DEF GuardState, Position
<1>1. Apply(guard, p, content) = here
  <2>1. CASE ~guard.initialized
    BY <2>1 DEF Apply
  <2>2. CASE guard.initialized
    <3>1. Before(At(guard), p)
      BY <2>2, AcceptAdvances
    <3>2. CASE p.incarnation > guard.incarnation
      BY <2>2, <3>2 DEF Apply
    <3>3. CASE p.incarnation = guard.incarnation /\ p.epoch > guard.epoch
      BY <1>0, <2>2, <3>3 DEF Apply
    <3>4. CASE /\ p.incarnation = guard.incarnation /\ p.epoch = guard.epoch
               /\ p.sequence > guard.last_sequence
      <4>1. Apply(guard, p, content) =
              [guard EXCEPT !.last_sequence = p.sequence, !.last_content = content]
        BY <1>0, <2>2, <3>4 DEF Apply
      <4> QED
        BY <2>2, <3>4, <4>1 DEF GuardState
    <3> QED
      BY <1>0, <3>1, <3>2, <3>3, <3>4 DEF Before, At
  <2> QED
    BY <1>0, <2>1, <2>2
<1>2. here \in GuardState
  BY DEF GuardState, Position
<1>3. At(here) = p
  BY DEF At, Position
<1> QED
  BY <1>1, <1>2, <1>3

(* A contradiction is another content for the position of the guard.         *)
LEMMA ConflictIsHere ==
  ASSUME NEW guard \in GuardState, NEW p \in Position, NEW content,
         Evaluate(guard, p, content, FALSE) = "sequence_conflict"
  PROVE  /\ guard.initialized /\ p = At(guard)
         /\ content # guard.last_content
<1>1. "sequence_conflict" \notin Stale \cup {"accept", "duplicate_idempotent"}
  BY DEF Stale
<1> QED
  BY <1>1, LiveVerdict, BeforeTotal

(* The order of positions is transitive. *)
LEMMA BeforeTransitive ==
  ASSUME NEW p \in Position, NEW q \in Position, NEW r \in Position,
         Before(p, q), Before(q, r)
  PROVE  Before(p, r)
  BY DEF Before, Position

----------------------------------------------------------------------------
(* Guards and accepted batches. *)

(* A batch claims a position. *)
LEMMA BatchPosition == ASSUME NEW b \in Batch
                       PROVE  b.position \in Position /\ b.content \in Contents
  BY FenceAssumption DEF FenceAssumption, Batch

(* Guards and the batches accepted behind them: each guard stands at the     *)
(* last of its source, and they are in order.                                *)
Fence(g, a) ==
  /\ g \in [Sources -> GuardState] /\ a \in [Sources -> Seq(Batch)]
  /\ \A s \in Sources :
       /\ g[s].initialized <=> Len(a[s]) > 0
       /\ Len(a[s]) > 0 => /\ At(g[s]) = a[s][Len(a[s])].position
                           /\ g[s].last_content = a[s][Len(a[s])].content
       /\ \A i, j \in DOMAIN a[s] : i < j => Before(a[s][i].position, a[s][j].position)

(* It is what the invariants of SourceFence say of the two.                  *)
LEMMA FenceParts ==
  /\ TypeOK /\ GuardIsLastAccepted /\ AcceptedInOrder => Fence(guards, accepted)
  /\ Fence(guards, accepted) => GuardIsLastAccepted /\ AcceptedInOrder
  BY DEF Fence, TypeOK, GuardIsLastAccepted, AcceptedInOrder

(* Accepting a batch appends it to the history of its source.                *)
LEMMA FenceAccepts ==
  ASSUME Fence(guards, accepted), NEW s \in Sources, NEW b \in Batch, AcceptBatch(s, b)
  PROVE  Fence(guards, accepted)'
<1>0. /\ guards \in [Sources -> GuardState] /\ guards[s] \in GuardState
      /\ accepted \in [Sources -> Seq(Batch)] /\ accepted[s] \in Seq(Batch)
      /\ b.position \in Position /\ b.content \in Contents
  BY BatchPosition DEF Fence
<1> DEFINE g == Apply(guards[s], b.position, b.content)
           n == Len(accepted[s])
<1>1. /\ g \in GuardState /\ g.initialized /\ At(g) = b.position
      /\ g.last_content = b.content
  <2>1. Evaluate(guards[s], b.position, b.content, FALSE) = "accept"
    BY DEF AcceptBatch, Verdict
  <2>2. guards[s] \in GuardState /\ b.position \in Position /\ b.content \in Contents
    BY <1>0
  <2> QED
    BY <2>1, <2>2, ApplyFollows
<1>2. /\ guards' = [guards EXCEPT ![s] = g]
      /\ accepted' = [accepted EXCEPT ![s] = Append(accepted[s], b)]
  BY DEF AcceptBatch
<1> HIDE DEF g
<1>3. /\ n \in Nat /\ accepted'[s] \in Seq(Batch) /\ Len(accepted'[s]) = n + 1
      /\ accepted'[s][n + 1] = b
      /\ \A i \in 1..n : accepted'[s][i] = accepted[s][i]
  BY <1>0, <1>2
<1>4. guards' \in [Sources -> GuardState] /\ accepted' \in [Sources -> Seq(Batch)]
  BY <1>0, <1>1, <1>2, <1>3
<1>5. ASSUME NEW t \in Sources
      PROVE  LET k == Len(accepted'[t]) IN
             /\ guards'[t].initialized <=> k > 0
             /\ k > 0 => /\ At(guards'[t]) = accepted'[t][k].position
                         /\ guards'[t].last_content = accepted'[t][k].content
  <2>1. CASE t = s
    BY <1>0, <1>1, <1>2, <1>3, <2>1
  <2>2. CASE t # s
    BY <1>0, <1>2, <2>2 DEF Fence
  <2> QED
    BY <2>1, <2>2
<1>6. ASSUME NEW t \in Sources, NEW i \in DOMAIN accepted'[t],
             NEW j \in DOMAIN accepted'[t], i < j
      PROVE  Before(accepted'[t][i].position, accepted'[t][j].position)
  <2>1. CASE t # s
    BY <1>0, <1>2, <1>6, <2>1 DEF Fence
  <2>2. CASE t = s /\ j # n + 1
    <3>1. i \in 1..n /\ j \in 1..n
      BY <1>3, <1>6, <2>2
    <3> QED
      BY <1>0, <1>3, <1>6, <2>2, <3>1 DEF Fence
  <2>3. CASE t = s /\ j = n + 1
    <3>1. i \in 1..n /\ n > 0 /\ accepted'[t][i] = accepted[s][i]
                       /\ accepted'[t][j] = b
      BY <1>3, <1>6, <2>3
    <3>2. /\ guards[s].initialized /\ At(guards[s]) = accepted[s][n].position
      BY <3>1 DEF Fence
    <3>3. Before(At(guards[s]), b.position)
      BY <1>0, <3>2, AcceptAdvances DEF AcceptBatch, Verdict
    <3>4. accepted[s][i].position \in Position /\ accepted[s][n].position \in Position
      BY <1>0, <3>1, BatchPosition
    <3>5. i = n \/ Before(accepted[s][i].position, accepted[s][n].position)
      <4>1. i \in DOMAIN accepted[s] /\ n \in DOMAIN accepted[s] /\ (i = n \/ i < n)
        BY <1>0, <3>1
      <4>2. \A k, l \in DOMAIN accepted[s] :
              k < l => Before(accepted[s][k].position, accepted[s][l].position)
        BY DEF Fence
      <4> QED
        BY <4>1, <4>2
    <3>6. Before(accepted[s][i].position, b.position)
      BY <1>0, <3>2, <3>3, <3>4, <3>5, BeforeTransitive
    <3> QED
      BY <1>3, <2>3, <3>1, <3>6
  <2> QED
    BY <2>1, <2>2, <2>3
<1> QED
  BY <1>4, <1>5, <1>6 DEF Fence

(* A batch that was accepted is never accepted again.                        *)
LEMMA FenceRefuses == Fence(guards, accepted) => RedeliveryFenced
<1> SUFFICES ASSUME Fence(guards, accepted), NEW s \in Sources, NEW b \in Accepted(s)
             PROVE  Verdict(s, b, FALSE) \in Stale \cup {"duplicate_idempotent"}
  BY DEF RedeliveryFenced
<1> DEFINE n == Len(accepted[s])
<1>1. accepted[s] \in Seq(Batch) /\ guards[s] \in GuardState
  BY DEF Fence
<1>2. PICK i \in 1..n : b = accepted[s][i]
  BY <1>1 DEF Accepted
<1>3. /\ guards[s].initialized /\ At(guards[s]) = accepted[s][n].position
      /\ guards[s].last_content = accepted[s][n].content
  BY <1>1, <1>2 DEF Fence
<1>4. b \in Batch /\ b.position \in Position
  BY <1>1, <1>2, BatchPosition
<1>5. CASE i = n
  BY <1>1, <1>2, <1>3, <1>4, <1>5, LiveVerdict DEF Verdict
<1>6. CASE i # n
  <2>1. Before(b.position, At(guards[s]))
    BY <1>1, <1>2, <1>3, <1>6 DEF Fence
  <2> QED
    BY <1>1, <1>3, <1>4, <2>1, LiveVerdict DEF Verdict
<1> QED
  BY <1>5, <1>6

----------------------------------------------------------------------------
(* The inductive invariant: what relates a guard to the batches accepted is  *)
(* what makes their order and the contradictions right.                      *)
IInv == /\ TypeOK /\ GuardIsLastAccepted /\ AcceptedInOrder
        /\ ConflictsAreReal /\ ConflictsAccounted /\ IsFiniteSet(conflicts)

(* The invariant holds initially. *)
LEMMA InitIInv == Init => IInv
<1> SUFFICES ASSUME Init PROVE IInv
  OBVIOUS
<1>1. NewGuard \in GuardState
  BY DEF NewGuard, GuardState
<1>2. TypeOK
  BY <1>1 DEF Init, TypeOK
<1>3. GuardIsLastAccepted /\ AcceptedInOrder /\ ConflictsAreReal
  BY DEF Init, NewGuard, GuardIsLastAccepted, AcceptedInOrder, ConflictsAreReal
<1>4. ConflictsAccounted /\ IsFiniteSet(conflicts)
  BY FS_EmptySet, FenceAssumption DEF Init, ConflictsAccounted, FenceAssumption
<1> QED
  BY <1>2, <1>3, <1>4 DEF IInv

(* Accepting a batch keeps every retained contradiction one.                 *)
LEMMA AcceptStep ==
  ASSUME IInv, NEW s \in Sources, NEW b \in Batch, AcceptBatch(s, b)
  PROVE  IInv'
<1>1. Fence(guards, accepted)'
  BY FenceParts, FenceAccepts DEF IInv
<1>2. GuardIsLastAccepted' /\ AcceptedInOrder'
  BY <1>1 DEF Fence, GuardIsLastAccepted, AcceptedInOrder
<1>3. /\ accepted \in [Sources -> Seq(Batch)]
      /\ accepted' = [accepted EXCEPT ![s] = Append(accepted[s], b)]
      /\ UNCHANGED <<conflicts, dropped, recorded, archived>>
  BY DEF AcceptBatch, IInv, TypeOK
<1>4. TypeOK'
  BY <1>1, <1>3 DEF IInv, TypeOK, Fence
<1>5. ConflictsAreReal'
  <2>1. accepted[s] \in Seq(Batch) /\ accepted'[s] = Append(accepted[s], b)
    BY <1>3
  <2>2. DOMAIN accepted[s] \subseteq DOMAIN accepted'[s]
    BY <2>1
  <2>3. \A i \in DOMAIN accepted[s] : accepted'[s][i] = accepted[s][i]
    BY <2>1
  <2>4. \A t \in Sources : Accepted(t) \subseteq Accepted(t)'
    BY <1>3, <2>2, <2>3 DEF Accepted
  <2> QED
    BY <1>3, <2>4 DEF IInv, TypeOK, Conflict, ConflictsAreReal
<1>6. ConflictsAccounted' /\ IsFiniteSet(conflicts')
  BY <1>3 DEF IInv, ConflictsAccounted
<1> QED
  BY <1>2, <1>4, <1>5, <1>6 DEF IInv

(* Recording a contradiction touches the conflict log only.                  *)
LEMMA ConflictStep ==
  ASSUME IInv, NEW s \in Sources, NEW b \in Batch, RecordConflict(s, b)
  PROVE  IInv'
<1> DEFINE record == [source |-> s, sequence |-> b.position.sequence,
                      content_a |-> guards[s].last_content, content_b |-> b.content]
           all == conflicts \cup {record}
<1>0. /\ guards[s] \in GuardState /\ b.position \in Position /\ b.content \in Contents
      /\ conflicts \subseteq Conflict /\ IsFiniteSet(conflicts)
      /\ dropped \in Nat /\ recorded \in Nat
      /\ MaxConflicts \in Nat \ {0}
  BY BatchPosition, FenceAssumption DEF IInv, TypeOK, FenceAssumption
<1>1. /\ guards[s].initialized /\ b.position = At(guards[s])
      /\ b.content # guards[s].last_content
  BY <1>0, ConflictIsHere DEF RecordConflict, Verdict
<1>2. /\ record \notin conflicts /\ conflicts' \in Retained(all)
      /\ dropped' = (IF Cardinality(conflicts) = MaxConflicts THEN dropped + 1 ELSE dropped)
      /\ recorded' = recorded + 1
      /\ guards' = guards /\ accepted' = accepted /\ archived' = archived
  BY DEF RecordConflict
<1>3. record \in Conflict
  BY <1>0 DEF Conflict, GuardState, Position
<1> HIDE DEF record
<1>4. IsFiniteSet(all) /\ Cardinality(all) = Cardinality(conflicts) + 1
      /\ Cardinality(conflicts) \in Nat
  BY <1>0, <1>2, FS_AddElement, FS_CardinalityType
<1>5. conflicts' \subseteq all
  BY <1>2 DEF Retained
<1>6. IsFiniteSet(conflicts')
  BY <1>4, <1>5, FS_Subset
<1>7. Cardinality(conflicts') = (IF Cardinality(conflicts) = MaxConflicts
                                   THEN Cardinality(conflicts)
                                   ELSE Cardinality(conflicts) + 1)
  <2>1. Cardinality(conflicts) <= MaxConflicts
    BY DEF IInv, ConflictsAccounted
  <2>2. CASE Cardinality(conflicts) = MaxConflicts
    <3>1. PICK r \in all : conflicts' = all \ {r}
      BY <1>0, <1>2, <1>4, <2>2 DEF Retained
    <3>2. Cardinality(conflicts') = Cardinality(all) - 1
      BY <1>4, <3>1, FS_RemoveElement
    <3> QED
      BY <1>4, <2>2, <3>2
  <2>3. CASE Cardinality(conflicts) # MaxConflicts
    <3>1. conflicts' = all
      BY <1>0, <1>2, <1>4, <2>1, <2>3 DEF Retained
    <3> QED
      BY <1>4, <2>3, <3>1
  <2> QED
    BY <2>2, <2>3
<1>8. ConflictsAccounted'
  BY <1>0, <1>2, <1>4, <1>7 DEF IInv, ConflictsAccounted
<1>9. TypeOK'
  BY <1>0, <1>2, <1>3, <1>5 DEF IInv, TypeOK
<1>10. GuardIsLastAccepted' /\ AcceptedInOrder'
  BY <1>2 DEF IInv, GuardIsLastAccepted, AcceptedInOrder, At
<1>11. ConflictsAreReal'
  <2>1. \E a \in Accepted(s) : /\ a.position.sequence = b.position.sequence
                               /\ a.content = guards[s].last_content
    <3>1. Len(accepted[s]) > 0 /\ accepted[s] \in Seq(Batch)
      BY <1>1 DEF IInv, TypeOK, GuardIsLastAccepted
    <3>2. /\ accepted[s][Len(accepted[s])].position = b.position
          /\ accepted[s][Len(accepted[s])].content = guards[s].last_content
      BY <1>1, <3>1 DEF IInv, GuardIsLastAccepted
    <3>3. accepted[s][Len(accepted[s])] \in Accepted(s)
      BY <3>1 DEF Accepted
    <3> QED
      BY <3>2, <3>3
  <2>2. \A r \in all : \E a \in Accepted(r.source) :
          /\ a.position.sequence = r.sequence /\ a.content = r.content_a
          /\ r.content_b # r.content_a
    BY <1>1, <2>1 DEF IInv, ConflictsAreReal, record
  <2>3. \A t \in Sources : Accepted(t)' = Accepted(t)
    BY <1>2 DEF Accepted
  <2> QED
    BY <1>0, <1>3, <1>5, <2>2, <2>3 DEF ConflictsAreReal, Conflict
<1> QED
  BY <1>6, <1>8, <1>9, <1>10, <1>11 DEF IInv

(* Every step preserves the invariant. *)
LEMMA InvStep == IInv /\ [Next]_vars => IInv'
<1> SUFFICES ASSUME IInv, [Next]_vars PROVE IInv'
  OBVIOUS
<1>1. CASE UNCHANGED vars
  BY <1>1 DEF vars, IInv, TypeOK, GuardIsLastAccepted, AcceptedInOrder, ConflictsAreReal,
              ConflictsAccounted, Accepted, At
<1>2. ASSUME NEW s \in Sources, NEW b \in Batch, ArchiveBatch(s, b)
      PROVE  IInv'
  BY <1>2 DEF ArchiveBatch, IInv, TypeOK, GuardIsLastAccepted, AcceptedInOrder,
              ConflictsAreReal, ConflictsAccounted, Accepted, At
<1> QED
  BY <1>1, <1>2, AcceptStep, ConflictStep DEF Next, Ingest, RefuseBatch

----------------------------------------------------------------------------
(* The fence keeps its inductive invariant. *)
THEOREM Invariance == Spec => []IInv
  BY InitIInv, InvStep, PTL DEF Spec

(* Types are respected. *)
THEOREM TypeCorrect == Spec => []TypeOK
<1>1. IInv => TypeOK
  BY DEF IInv
<1> QED
  BY <1>1, Invariance, PTL

(* ingest accepts the batches of a source in strictly increasing order of    *)
(* incarnation, epoch and sequence, whatever arrives and however often.      *)
THEOREM Order == Spec => []AcceptedInOrder
<1>1. IInv => AcceptedInOrder
  BY DEF IInv
<1> QED
  BY <1>1, Invariance, PTL

(* Nothing but an accepted batch moves a guard.                              *)
THEOREM GuardFollows == Spec => []GuardIsLastAccepted
<1>1. IInv => GuardIsLastAccepted
  BY DEF IInv
<1> QED
  BY <1>1, Invariance, PTL

(* A copy of an accepted batch is fenced at any later time.                  *)
THEOREM Redelivery == Spec => []RedeliveryFenced
<1>1. IInv => RedeliveryFenced
  BY FenceParts, FenceRefuses DEF IInv
<1> QED
  BY <1>1, Invariance, PTL

(* Every record of the conflict log is a contradiction; the log never        *)
(* exceeds its capacity and counts what it drops (ConflictLog::append).      *)
THEOREM Contradictions == Spec => []ConflictLogTrue
<1>1. IInv => ConflictLogTrue
  BY DEF IInv, ConflictLogTrue
<1> QED
  BY <1>1, Invariance, PTL

----------------------------------------------------------------------------
(* The service.                                                              *)

(* What a client may send, and what a server answers.                        *)
Sendable == {[type |-> "hello"], [type |-> "bye"]} \cup Frames
              \cup UNION {Range(Plan[c]) : c \in Probes}

Answers == {[type |-> "error"]}
             \cup [type : {"hello_ack", "batch_ack"}, accepted : BOOLEAN]

Waiting == {"hello", "batch"}

ServiceTypes ==
  /\ line \in [Clients -> {"none", "open", "hungup", "cut", "closed"}]
  /\ toServer \in [Clients -> Seq(Sendable)] /\ toClient \in [Clients -> Seq(Answers)]
  /\ probe \in [Probes -> {"start"} \cup Waiting \cup ExitCodes]
  /\ next \in [Probes -> Nat] /\ counted \in [Probes -> SUBSET Nat]
  /\ took \in [Clients -> SUBSET Sendable]
  /\ said \in [Peers -> Nat]
  /\ backlog \in Seq(Clients) /\ serving \in Clients \cup {Nobody}

(* Only a client that has connected is served.                               *)
Connected ==
  /\ serving # Nobody => line[serving] # "none"
  /\ \A i \in DOMAIN backlog : line[backlog[i]] # "none"

(* The guards follow the batches, in the engine and in the store, and what   *)
(* the store holds is the beginning of what the engine holds.                *)
SavedIsPrefix ==
  /\ Fence(guards, accepted) /\ Fence(store.guards, store.accepted)
  /\ \A s \in Sources : IsPrefix(store.accepted[s], accepted[s])

(* What a probe counts.  t holds the frames accepted on its connection.      *)
Counts(plan, state, n, k, t) ==
  /\ n \in 1..(Len(plan) + 1) /\ k \subseteq 1..(n - 1)
  /\ \A i \in DOMAIN plan : /\ i < n => (plan[i] \in t <=> i \in k)
                            /\ i > n => plan[i] \notin t
  /\ state \in {"start", "hello"} =>
       n = 1 /\ k = {} /\ \A i \in DOMAIN plan : plan[i] \notin t
  /\ state = "batch" => n <= Len(plan)
  /\ state = "0" => n = Len(plan) + 1 /\ k = DOMAIN plan

(* What is on its line: one frame at most, in one direction, and an answer   *)
(* to a batch is about the batch the probe is at.                            *)
Flows(plan, state, n, t, l, out, in) ==
  /\ state = "start" => l = "none"
  /\ l = "none" => out = <<>> /\ in = <<>>
  /\ Len(out) <= 1
  /\ out # <<>> /\ out[1].type = "batch" =>
       state # "hello" /\ n <= Len(plan) /\ out[1] = plan[n] /\ plan[n] \notin t
  /\ state \in Waiting =>
       /\ l # "none" /\ Len(in) <= 1
       /\ in = <<>> \/ out = <<>>
       /\ l = "open" => in # <<>> \/ out # <<>>
  /\ state = "batch" /\ in # <<>> /\ in[1].type = "batch_ack" =>
       (in[1].accepted <=> plan[n] \in t)

Talk(c) ==
  /\ Counts(Plan[c], probe[c], next[c], counted[c], took[c])
  /\ Flows(Plan[c], probe[c], next[c], took[c], line[c], toServer[c], toClient[c])

ServiceInv ==
  /\ ServiceTypes /\ Connected /\ SavedIsPrefix
  /\ \A c \in Probes : Talk(c)

----------------------------------------------------------------------------
(* Frames, plans and beginnings of sequences. *)

(* Whatever a client sends as a batch holds one.                             *)
LEMMA FramesHoldBatches ==
  /\ \A f \in Sendable : f.type = "batch" => f.batch \in Batch
  /\ Frames \subseteq Sendable
  /\ [type |-> "hello"] \in Sendable /\ [type |-> "bye"] \in Sendable
<1>1. \A f \in Frames : f.type = "batch" => f.batch \in Batch
  BY ServiceAssumption DEF ServiceAssumption
<1>2. \A c \in Probes : \A f \in Range(Plan[c]) : f.type = "batch" /\ f.batch \in Batch
  BY ServiceAssumption DEF ServiceAssumption
<1> QED
  BY <1>1, <1>2 DEF Sendable

(* A plan is a sequence of different batches.                                *)
LEMMA Plans ==
  ASSUME NEW c \in Probes
  PROVE  /\ Plan[c] \in Seq(Sendable)
         /\ \A i \in DOMAIN Plan[c] : Plan[c][i].type = "batch"
         /\ \A i, j \in DOMAIN Plan[c] : i # j => Plan[c][i] # Plan[c][j]
<1>1. /\ Plan[c] \in Seq(Range(Plan[c]))
      /\ \A f \in Range(Plan[c]) : f.type = "batch"
      /\ \A i, j \in DOMAIN Plan[c] : i # j => Plan[c][i] # Plan[c][j]
  BY ServiceAssumption DEF ServiceAssumption
<1>2. Range(Plan[c]) \subseteq Sendable
  BY DEF Sendable
<1>3. Plan[c] \in Seq(Sendable)
  BY <1>1, <1>2
<1>4. \A i \in DOMAIN Plan[c] : Plan[c][i] \in Range(Plan[c])
  BY DEF Range
<1> QED
  BY <1>1, <1>3, <1>4

(* Who is who. *)
LEMMA WhoIsWho ==
  /\ Probes \subseteq Clients /\ Peers \subseteq Clients
  /\ Nobody \notin Clients /\ \A p \in Peers : p \notin Probes
  BY ServiceAssumption DEF ServiceAssumption, Clients

(* s begins t: as much of it as the invariant looks at.                      *)
Begins(s, t) == Len(s) <= Len(t) /\ (s # <<>> => t # <<>> /\ s[1] = t[1])

LEMMA BeginningsBegin ==
  ASSUME NEW X, NEW t \in Seq(X), NEW s \in Beginnings(t)
  PROVE  s \in Seq(X) /\ Begins(s, t)
<1>1. PICK n \in 0..Len(t) : s = SubSeq(t, 1, n)
  BY DEF Beginnings
<1>2. /\ s \in Seq(X) /\ Len(s) = n
      /\ \A i \in 1..n : s[i] = t[i]
  BY <1>1
<1>3. ASSUME s # <<>> PROVE t # <<>> /\ s[1] = t[1]
  <2>1. n > 0
    BY <1>2, <1>3
  <2> QED
    BY <1>2, <2>1
<1> QED
  BY <1>2, <1>3 DEF Begins

(* What a sequence of one frame leaves. *)
LEMMA OneFrame ==
  ASSUME NEW X, NEW s \in Seq(X), s # <<>>, Len(s) <= 1
  PROVE  Len(s) = 1 /\ Tail(s) = <<>>
<1>1. Len(s) \in Nat \ {0}
  BY EmptySeq
<1>2. Len(s) = 1
  BY <1>1
<1>3. Tail(s) \in Seq(X)
  BY <1>2
<1>4. Len(Tail(s)) = 0
  BY <1>2
<1>5. Tail(s) = <<>>
  BY <1>3, <1>4, EmptySeq
<1> QED
  BY <1>2, <1>5

(* Being a prefix, element by element.                                       *)
LEMMA PrefixElements ==
  ASSUME NEW X, NEW s \in Seq(X), NEW t \in Seq(X)
  PROVE  IsPrefix(s, t) <=> Len(s) <= Len(t) /\ \A i \in 1..Len(s) : s[i] = t[i]
<1>1. CASE Len(s) <= Len(t)
  <2>1. /\ SubSeq(s, 1, Len(s)) \in Seq(X) /\ SubSeq(t, 1, Len(s)) \in Seq(X)
        /\ Len(SubSeq(s, 1, Len(s))) = Len(s) /\ Len(SubSeq(t, 1, Len(s))) = Len(s)
        /\ \A i \in 1..Len(s) : /\ SubSeq(s, 1, Len(s))[i] = s[i]
                                /\ SubSeq(t, 1, Len(s))[i] = t[i]
    BY <1>1
  <2> HIDE <1>1
  <2>2. SubSeq(s, 1, Len(s)) = SubSeq(t, 1, Len(s)) <=> \A i \in 1..Len(s) : s[i] = t[i]
    BY <2>1, SeqEqual
  <2> QED
    BY <1>1, <2>2 DEF IsPrefix
<1>2. CASE ~(Len(s) <= Len(t))
  BY <1>2 DEF IsPrefix
<1> QED
  BY <1>1, <1>2

----------------------------------------------------------------------------
(* What events do to a conversation. *)

(* Nothing happens to another's.                                             *)
LEMMA TalkSame ==
  ASSUME NEW c \in Probes, Talk(c),
         probe'[c] = probe[c], next'[c] = next[c], counted'[c] = counted[c],
         took'[c] = took[c], line'[c] = line[c],
         toServer'[c] = toServer[c], toClient'[c] = toClient[c]
  PROVE  Talk(c)'
  BY DEF Talk

(* A batch the probe is at is accepted: it is the one it is in doubt about.  *)
LEMMA CountsTaken ==
  ASSUME NEW plan \in Seq(Sendable), NEW state, NEW n, NEW k, NEW t,
         \A i, j \in DOMAIN plan : i # j => plan[i] # plan[j],
         Counts(plan, state, n, k, t), n <= Len(plan),
         state \notin {"start", "hello"}
  PROVE  Counts(plan, state, n, k, t \cup {plan[n]})
<1>1. n \in DOMAIN plan /\ DOMAIN plan = 1..Len(plan) /\ n # Len(plan) + 1
  BY DEF Counts
<1>2. \A i \in DOMAIN plan : i < n \/ i > n => plan[i] # plan[n]
  BY <1>1
<1> QED
  BY <1>1, <1>2 DEF Counts

(* The line breaks, and loses the end of what is on its way.                 *)
LEMMA FlowBreaks ==
  ASSUME NEW plan, NEW state, NEW n, NEW t, NEW l,
         NEW out \in Seq(Sendable), NEW in \in Seq(Answers), NEW u, NEW m,
         NEW out2 \in Seq(Sendable), NEW in2 \in Seq(Answers),
         Flows(plan, state, n, t, l, out, in),
         m # "open", m = "none" <=> l = "none",
         Begins(out2, out), Begins(in2, in),
         u = t \/ (out # <<>> /\ out2 = <<>>)
  PROVE  Flows(plan, state, n, u, m, out2, in2)
<1>1. /\ Len(out) \in Nat /\ Len(in) \in Nat /\ Len(out2) \in Nat /\ Len(in2) \in Nat
      /\ Len(in2) = 0 <=> in2 = <<>>
      /\ Len(out2) = 0 <=> out2 = <<>>
      /\ Len(out2) <= Len(out) /\ Len(in2) <= Len(in)
      /\ out2 # <<>> => out # <<>> /\ out2[1] = out[1]
      /\ in2 # <<>> => in # <<>> /\ in2[1] = in[1]
  BY DEF Begins
<1>2. /\ state = "start" => m = "none"
      /\ m = "none" => out2 = <<>> /\ in2 = <<>>
      /\ Len(out2) <= 1
  BY <1>1 DEF Flows
<1>3. ASSUME out2 # <<>>, out2[1].type = "batch"
      PROVE  state # "hello" /\ n <= Len(plan) /\ out2[1] = plan[n] /\ plan[n] \notin u
  BY <1>1, <1>3 DEF Flows
<1>4. ASSUME state \in Waiting
      PROVE  /\ m # "none" /\ Len(in2) <= 1
             /\ in2 = <<>> \/ out2 = <<>>
             /\ m = "open" => in2 # <<>> \/ out2 # <<>>
  BY <1>1, <1>4 DEF Flows
<1>5. ASSUME state = "batch", in2 # <<>>, in2[1].type = "batch_ack"
      PROVE  in2[1].accepted <=> plan[n] \in u
  <2>1. in # <<>> /\ in2[1] = in[1]
    BY <1>1, <1>5
  <2>2. out = <<>>
    BY <1>5, <2>1 DEF Flows, Waiting
  <2>3. u = t /\ (in[1].accepted <=> plan[n] \in t)
    BY <1>5, <2>1, <2>2 DEF Flows
  <2> QED
    BY <2>1, <2>3
<1> QED
  BY <1>2, <1>3, <1>4, <1>5 DEF Flows

(* The frame on the way is answered.                                         *)
LEMMA FlowAnswers ==
  ASSUME NEW plan, NEW state, NEW n, NEW t, NEW l,
         NEW out \in Seq(Sendable), NEW in \in Seq(Answers), NEW u,
         NEW ack \in Answers, out # <<>>,
         Flows(plan, state, n, t, l, out, in),
         u = t \/ u = t \cup {out[1]},
         ack.type = "batch_ack" =>
           out[1].type = "batch" /\ (ack.accepted => out[1] \in u) /\ (~ack.accepted => u = t)
  PROVE  Flows(plan, state, n, u, l, Tail(out), IF l # "open" THEN in ELSE Append(in, ack))
<1> DEFINE in2 == IF l # "open" THEN in ELSE Append(in, ack)
<1>1. Len(out) = 1 /\ Tail(out) = <<>> /\ l # "none" /\ state # "start"
  <2>1. Len(out) <= 1 /\ l # "none" /\ state # "start"
    BY DEF Flows
  <2> QED
    BY <2>1, OneFrame
<1>2. ASSUME state \in Waiting
      PROVE  /\ in = <<>> /\ Len(in2) <= 1
             /\ in2 # <<>> => in2[1] = ack
             /\ l = "open" => in2 # <<>>
  <2>1. in = <<>>
    BY <1>2 DEF Flows
  <2>2. Append(in, ack) \in Seq(Answers) /\ Len(Append(in, ack)) = 1 /\ Append(in, ack)[1] = ack
    BY <2>1
  <2> QED
    BY <2>1, <2>2
<1>3. ASSUME state = "batch", in2 # <<>>, in2[1].type = "batch_ack"
      PROVE  in2[1].accepted <=> plan[n] \in u
  <2>1. in2[1] = ack
    BY <1>2, <1>3 DEF Waiting
  <2>2. out[1].type = "batch" /\ out[1] = plan[n] /\ plan[n] \notin t
    BY <1>3, <2>1 DEF Flows
  <2> QED
    BY <1>3, <2>1, <2>2
<1> HIDE DEF in2
<1>4. /\ Len(<<>>) <= 1
      /\ state = "batch" => state \in Waiting
  BY DEF Waiting
<1>5. Flows(plan, state, n, u, l, <<>>, in2)
  BY <1>1, <1>2, <1>3, <1>4 DEF Flows
<1> QED
  BY <1>1, <1>5 DEF in2

----------------------------------------------------------------------------
(* What the parts of the actions do. *)

(* The engine takes the frame that is handled, or nothing.                   *)
Takes == \/ took' = took
         \/ /\ Heard("batch")
            /\ took' = [took EXCEPT ![serving] = @ \cup {Head(toServer[serving])}]

(* The invariant of the store and the engine does not look at the rest.      *)
LEMMA SavedSame ==
  ASSUME SavedIsPrefix, UNCHANGED <<guards, accepted, store>>
  PROVE  SavedIsPrefix'
  BY DEF SavedIsPrefix, Fence

(* What is heard is the first frame of the client that is served.            *)
LEMMA HeardFrame ==
  ASSUME ServiceTypes, serving # Nobody, toServer[serving] # <<>>
  PROVE  /\ serving \in Clients
         /\ toServer[serving] \in Seq(Sendable)
         /\ Head(toServer[serving]) = toServer[serving][1]
         /\ toServer[serving][1] \in Sendable
         /\ Tail(toServer[serving]) \in Seq(Sendable)
  BY DEF ServiceTypes

(* What the engine takes is a frame, and only of the client that is served.  *)
LEMMA TakesFrame ==
  ASSUME ServiceTypes, Takes
  PROVE  /\ took' \in [Clients -> SUBSET Sendable]
         /\ \A c \in Clients : took'[c] = took[c]
              \/ /\ c = serving /\ Heard("batch")
                 /\ took'[c] = took[c] \cup {toServer[c][1]}
<1>1. CASE took' = took
  BY <1>1 DEF ServiceTypes
<1>2. CASE /\ Heard("batch")
           /\ took' = [took EXCEPT ![serving] = @ \cup {Head(toServer[serving])}]
  <2>1. serving # Nobody /\ toServer[serving] # <<>>
    BY <1>2 DEF Heard
  <2>2. /\ serving \in Clients /\ Head(toServer[serving]) = toServer[serving][1]
        /\ toServer[serving][1] \in Sendable
    BY <2>1, HeardFrame
  <2>3. took \in [Clients -> SUBSET Sendable]
    BY DEF ServiceTypes
  <2> QED
    BY <1>2, <2>2, <2>3
<1> QED
  BY <1>1, <1>2 DEF Takes

(* What a probe counts survives what the engine takes.                       *)
LEMMA CountsFollow ==
  ASSUME ServiceTypes, NEW c \in Probes, Talk(c), Takes,
         probe'[c] = probe[c], next'[c] = next[c], counted'[c] = counted[c]
  PROVE  Counts(Plan[c], probe[c], next[c], counted[c], took[c])'
<1>1. c \in Clients
  BY WhoIsWho
<1>2. CASE took'[c] = took[c]
  BY <1>2 DEF Talk
<1>3. CASE /\ c = serving /\ Heard("batch")
           /\ took'[c] = took[c] \cup {toServer[c][1]}
  <2>1. /\ toServer[c] # <<>> /\ toServer[c][1].type = "batch"
    <3>1. serving # Nobody /\ toServer[serving] # <<>>
      BY <1>3 DEF Heard
    <3> QED
      BY <1>3, <3>1, HeardFrame DEF Heard
  <2>2. /\ probe[c] # "hello" /\ next[c] <= Len(Plan[c])
        /\ toServer[c][1] = Plan[c][next[c]] /\ probe[c] # "start"
    BY <2>1 DEF Talk, Flows
  <2>3. Counts(Plan[c], probe[c], next[c], counted[c], took[c])
    BY DEF Talk
  <2>4. probe[c] \notin {"start", "hello"}
    BY <2>2
  <2>5. Counts(Plan[c], probe[c], next[c], counted[c], took[c] \cup {Plan[c][next[c]]})
    BY <2>2, <2>3, <2>4, Plans, CountsTaken
  <2> QED
    BY <1>3, <2>2, <2>5
<1> QED
  BY <1>1, <1>2, <1>3, TakesFrame

(* The line of a probe breaks, and loses the end of what is on its way.     *)
Breaks(c) ==
  /\ probe'[c] = probe[c] /\ next'[c] = next[c] /\ counted'[c] = counted[c]
  /\ line'[c] # "open" /\ (line'[c] = "none" <=> line[c] = "none")
  /\ Begins(toServer'[c], toServer[c]) /\ Begins(toClient'[c], toClient[c])
  /\ took'[c] = took[c] \/ (toServer[c] # <<>> /\ toServer'[c] = <<>>)

(* What it says survives. *)
LEMMA TalkBreaks ==
  ASSUME ServiceTypes, ServiceTypes', NEW c \in Probes, Talk(c), Takes, Breaks(c)
  PROVE  Talk(c)'
<1>1. Counts(Plan[c], probe[c], next[c], counted[c], took[c])'
  BY CountsFollow DEF Breaks
<1> DEFINE so == toServer[c]  ro == toServer'[c]  si == toClient[c]  ri == toClient'[c]
           l == line[c]  m == line'[c]  t == took[c]  u == took'[c]
           plan == Plan[c]  state == probe[c]  n == next[c]
<1>2. /\ so \in Seq(Sendable) /\ ro \in Seq(Sendable)
      /\ si \in Seq(Answers) /\ ri \in Seq(Answers)
  BY WhoIsWho DEF ServiceTypes
<1>3. /\ Flows(plan, state, n, t, l, so, si)
      /\ m # "open" /\ (m = "none" <=> l = "none")
      /\ Begins(ro, so) /\ Begins(ri, si)
      /\ u = t \/ (so # <<>> /\ ro = <<>>)
  BY DEF Talk, Breaks
<1> HIDE DEF so, ro, si, ri, l, m, t, u, plan, state, n
<1>4. Flows(plan, state, n, u, m, ro, ri)
  BY <1>2, <1>3, FlowBreaks
<1>5. Flows(Plan[c], probe[c], next[c], took[c], line[c], toServer[c], toClient[c])'
  BY <1>4 DEF Breaks, so, ro, si, ri, l, m, t, u, plan, state, n
<1> QED
  BY <1>1, <1>5 DEF Talk

(* Every line is broken when the server process ends.                        *)
LEMMA DownStep ==
  ASSUME ServiceInv, Down, Takes, SavedIsPrefix'
  PROVE  ServiceInv'
<1>0. ServiceTypes /\ \A c \in Probes : Talk(c)
  BY DEF ServiceInv
<1>1. /\ serving' = Nobody /\ backlog' = <<>>
      /\ line' = [c \in Clients |-> IF line[c] = "none" THEN "none" ELSE "closed"]
      /\ toServer' = [c \in Clients |-> <<>>]
      /\ toClient' = toClient \/ toClient' = [c \in Clients |-> <<>>]
      /\ probe' = probe /\ next' = next /\ counted' = counted /\ said' = said
  BY DEF Down, probeVars
<1>2. /\ <<>> \in Seq(Sendable) /\ <<>> \in Seq(Answers) /\ <<>> \in Seq(Clients)
      /\ Begins(<<>>, <<>>)
  BY DEF Begins
<1>3. ServiceTypes'
  <2>1. /\ line' \in [Clients -> {"none", "open", "hungup", "cut", "closed"}]
        /\ toServer' \in [Clients -> Seq(Sendable)] /\ toClient' \in [Clients -> Seq(Answers)]
    BY <1>0, <1>1, <1>2 DEF ServiceTypes
  <2>2. took' \in [Clients -> SUBSET Sendable]
    BY <1>0, TakesFrame
  <2> QED
    BY <1>0, <1>1, <1>2, <2>1, <2>2 DEF ServiceTypes
<1>4. Connected'
  BY <1>1 DEF Connected
<1>5. ASSUME NEW c \in Probes PROVE Talk(c)'
  <2>0. /\ c \in Clients /\ toServer[c] \in Seq(Sendable) /\ toClient[c] \in Seq(Answers)
    BY <1>0, WhoIsWho DEF ServiceTypes
  <2>1. /\ toServer'[c] = <<>> /\ (toClient'[c] = toClient[c] \/ toClient'[c] = <<>>)
        /\ line'[c] # "open" /\ (line'[c] = "none" <=> line[c] = "none")
    BY <1>1, <2>0
  <2>2. Begins(toServer'[c], toServer[c]) /\ Begins(toClient'[c], toClient[c])
    BY <2>0, <2>1 DEF Begins
  <2>3. took'[c] = took[c] \/ (toServer[c] # <<>> /\ toServer'[c] = <<>>)
    BY <1>0, <2>0, <2>1, TakesFrame DEF Heard
  <2>4. Breaks(c)
    BY <1>1, <2>1, <2>2, <2>3 DEF Breaks
  <2> QED
    BY <1>0, <1>3, <2>4, TalkBreaks
<1> QED
  BY <1>3, <1>4, <1>5 DEF ServiceInv

(* The connection that is served ends, with a last frame or none.            *)
LEMMA FinishStep ==
  ASSUME ServiceInv, serving # Nobody,
         NEW last \in {<<>>, <<[type |-> "error"]>>},
         last = <<>> \/ toServer[serving] # <<>>,
         Finish(last), UNCHANGED <<vars, took>>
  PROVE  ServiceInv'
<1>0. /\ ServiceTypes /\ \A c \in Probes : Talk(c)
      /\ serving \in Clients
  BY DEF ServiceInv, ServiceTypes
<1>1. /\ serving' = Nobody /\ backlog' = backlog /\ store' = store
      /\ line' = [line EXCEPT ![serving] = "closed"]
      /\ toServer' = [toServer EXCEPT ![serving] = <<>>]
      /\ probe' = probe /\ next' = next /\ counted' = counted /\ said' = said
      /\ took' = took /\ guards' = guards /\ accepted' = accepted
  BY DEF Finish, probeVars, vars
<1>2. PICK arrives \in BOOLEAN :
        toClient' = [toClient EXCEPT ![serving] = IF arrives THEN @ \o last ELSE <<>>]
  BY DEF Finish
<1>3. /\ last \in Seq(Answers) /\ Len(last) <= 1
      /\ last # <<>> => last[1] = [type |-> "error"]
  <2>1. [type |-> "error"] \in Answers
    BY DEF Answers
  <2> HIDE DEF Answers
  <2>2. /\ <<[type |-> "error"]>> \in Seq(Answers) /\ Len(<<[type |-> "error"]>>) = 1
        /\ <<[type |-> "error"]>>[1] = [type |-> "error"]
    BY <2>1
  <2>3. CASE last = <<>>
    BY <2>3, EmptySeq
  <2>4. CASE last = <<[type |-> "error"]>>
    BY <2>2, <2>4
  <2> QED
    BY <2>3, <2>4
<1>4. toClient[serving] \in Seq(Answers) /\ toClient[serving] \o last \in Seq(Answers)
  BY <1>0, <1>3 DEF ServiceTypes
<1>5. ServiceTypes'
  <2>1. /\ line' \in [Clients -> {"none", "open", "hungup", "cut", "closed"}]
        /\ toServer' \in [Clients -> Seq(Sendable)]
    BY <1>0, <1>1, EmptySeq DEF ServiceTypes
  <2>2. toClient' \in [Clients -> Seq(Answers)]
    BY <1>0, <1>2, <1>4, EmptySeq DEF ServiceTypes
  <2> QED
    BY <1>0, <1>1, <2>1, <2>2 DEF ServiceTypes
<1>6. Connected'
  <2>1. \A i \in DOMAIN backlog : backlog[i] \in Clients /\ line[backlog[i]] # "none"
    BY <1>0 DEF ServiceInv, ServiceTypes, Connected
  <2> QED
    BY <1>0, <1>1, <2>1 DEF Connected, ServiceTypes
<1>7. SavedIsPrefix'
  BY <1>1, SavedSame DEF ServiceInv
<1>8. ASSUME NEW c \in Probes PROVE Talk(c)'
  <2>0. Talk(c) /\ c \in Clients
    BY <1>0, WhoIsWho
  <2>1. CASE c # serving
    <3>1. /\ line'[c] = line[c] /\ toServer'[c] = toServer[c] /\ toClient'[c] = toClient[c]
      BY <1>0, <1>1, <1>2, <2>0, <2>1 DEF ServiceTypes
    <3> QED
      BY <1>1, <2>0, <3>1, TalkSame
  <2>2. CASE c = serving
    <3>1. /\ line[c] # "none" /\ line'[c] = "closed" /\ toServer'[c] = <<>>
          /\ toClient'[c] = IF arrives THEN toClient[c] \o last ELSE <<>>
      BY <1>0, <1>1, <1>2, <2>2 DEF ServiceInv, Connected, ServiceTypes
    <3>2. CASE toClient'[c] = <<>> \/ toClient'[c] = toClient[c]
      <4>1. Begins(toServer'[c], toServer[c]) /\ Begins(toClient'[c], toClient[c])
        BY <1>0, <2>0, <3>1, <3>2, EmptySeq DEF Begins, ServiceTypes
      <4>2. Takes
        BY <1>1 DEF Takes
      <4>3. Breaks(c)
        BY <1>1, <3>1, <4>1 DEF Breaks
      <4> QED
        BY <1>0, <1>5, <2>0, <4>2, <4>3, TalkBreaks
    <3>3. CASE toClient'[c] = toClient[c] \o last /\ toClient'[c] # toClient[c]
      <4>1. last # <<>> /\ toServer[c] # <<>>
        BY <1>4, <2>2, <3>3
      <4>2. probe[c] \in Waiting =>
              /\ toClient[c] = <<>> /\ Len(toClient'[c]) <= 1
              /\ toClient'[c][1] = [type |-> "error"]
        BY <1>3, <2>0, <3>3, <4>1 DEF Talk, Flows
      <4>3. probe[c] # "start"
        BY <2>0, <4>1 DEF Talk, Flows
      <4>4. Flows(Plan[c], probe[c], next[c], took[c], "closed", <<>>, toClient'[c])
        <5> DEFINE out == <<>>
        <5>1. out = <<>> /\ Len(out) <= 1
          BY EmptySeq
        <5>2. /\ probe[c] = "batch" => probe[c] \in Waiting
              /\ probe[c] = "batch" => toClient'[c][1].type # "batch_ack"
          BY <4>2 DEF Waiting
        <5> DEFINE in == toClient'[c]  state == probe[c]  n == next[c]  t == took[c]
                   plan == Plan[c]
        <5>3. /\ state \in Waiting => Len(in) <= 1
              /\ state = "batch" /\ in # <<>> /\ in[1].type = "batch_ack" =>
                   (in[1].accepted <=> plan[n] \in t)
          <6>1. state \in Waiting => Len(in) <= 1
            BY <4>2
          <6>2. ~(state = "batch" /\ in # <<>> /\ in[1].type = "batch_ack")
            BY <5>2
          <6> QED
            BY <6>1, <6>2
        <5> DEFINE l == "closed"
        <5>4. /\ l # "none" /\ l # "open" /\ state # "start"
          BY <4>3
        <5> HIDE DEF l, out, in, state, n, t, plan
        <5>5. Flows(plan, state, n, t, l, out, in)
          <6>1. state \in Waiting =>
                  /\ l # "none" /\ Len(in) <= 1
                  /\ in = <<>> \/ out = <<>>
                  /\ l = "open" => in # <<>> \/ out # <<>>
            BY <5>1, <5>3, <5>4
          <6> QED
            BY <5>1, <5>3, <5>4, <6>1 DEF Flows
        <5> QED
          BY <5>5 DEF l, out, in, state, n, t, plan
      <4> QED
        BY <1>1, <2>0, <3>1, <4>4 DEF Talk
    <3> QED
      BY <3>1, <3>2, <3>3
  <2> QED
    BY <2>1, <2>2
<1> QED
  BY <1>5, <1>6, <1>7, <1>8 DEF ServiceInv

(* The frame that is handled is answered, or the write fails.                *)
LEMMA AnswerStep ==
  ASSUME ServiceInv, serving # Nobody, toServer[serving] # <<>>,
         NEW ack \in Answers, Answer(ack), Takes, SavedIsPrefix',
         ack.type = "batch_ack" =>
           /\ Heard("batch")
           /\ ack.accepted => toServer[serving][1] \in took'[serving]
           /\ ~ack.accepted => took' = took
  PROVE  ServiceInv'
<1>0. /\ ServiceTypes /\ \A c \in Probes : Talk(c)
      /\ serving \in Clients
  BY DEF ServiceInv, ServiceTypes
<1>1. CASE Gone /\ Fail
  BY <1>1, DownStep DEF Fail
<1>2. CASE ~(Gone /\ Fail)
  <2>1. /\ toServer' = [toServer EXCEPT ![serving] = Tail(@)]
        /\ toClient' = [toClient EXCEPT ![serving] =
             IF line[serving] # "open" THEN @ ELSE Append(@, ack)]
        /\ line' = line /\ serving' = serving /\ backlog' = backlog
        /\ probe' = probe /\ next' = next /\ counted' = counted /\ said' = said
    BY <1>2 DEF Answer, Gone, probeVars
  <2>2. /\ Tail(toServer[serving]) \in Seq(Sendable)
        /\ toClient[serving] \in Seq(Answers) /\ Append(toClient[serving], ack) \in Seq(Answers)
    BY <1>0, HeardFrame DEF ServiceTypes
  <2>3. ServiceTypes'
    <3>1. toServer' \in [Clients -> Seq(Sendable)] /\ toClient' \in [Clients -> Seq(Answers)]
      BY <1>0, <2>1, <2>2 DEF ServiceTypes
    <3>2. took' \in [Clients -> SUBSET Sendable]
      BY <1>0, TakesFrame
    <3> QED
      BY <1>0, <2>1, <3>1, <3>2 DEF ServiceTypes
  <2>4. Connected'
    BY <2>1 DEF ServiceInv, Connected
  <2>5. ASSUME NEW c \in Probes PROVE Talk(c)'
    <3>0. Talk(c) /\ c \in Clients
      BY <1>0, WhoIsWho
    <3>1. CASE c # serving
      <4>1. /\ line'[c] = line[c] /\ toServer'[c] = toServer[c] /\ toClient'[c] = toClient[c]
        BY <1>0, <2>1, <3>0, <3>1 DEF ServiceTypes
      <4>2. took'[c] = took[c]
        BY <1>0, <3>0, <3>1, TakesFrame
      <4> QED
        BY <2>1, <3>0, <4>1, <4>2, TalkSame
    <3>2. CASE c = serving
      <4> DEFINE out == toServer[c]  in == toClient[c]  l == line[c]  t == took[c]
                 u == took'[c]  plan == Plan[c]  state == probe[c]  n == next[c]
      <4>1. /\ out \in Seq(Sendable) /\ in \in Seq(Answers) /\ out # <<>>
            /\ Flows(plan, state, n, t, l, out, in)
        BY <1>0, <3>0, <3>2 DEF ServiceTypes, Talk
      <4>2. u = t \/ u = t \cup {out[1]}
        BY <1>0, <3>0, TakesFrame
      <4>3. ack.type = "batch_ack" =>
              out[1].type = "batch" /\ (ack.accepted => out[1] \in u) /\ (~ack.accepted => u = t)
        BY <1>0, <3>2, HeardFrame DEF Heard
      <4>4. /\ toServer'[c] = Tail(out)
            /\ toClient'[c] = IF l # "open" THEN in ELSE Append(in, ack)
            /\ line'[c] = l
        BY <1>0, <2>1, <3>0, <3>2 DEF ServiceTypes
      <4> HIDE DEF out, in, l, t, u, plan, state, n
      <4>5. Flows(plan, state, n, u, l, Tail(out), IF l # "open" THEN in ELSE Append(in, ack))
        BY <4>1, <4>2, <4>3, FlowAnswers
      <4>6. Flows(Plan[c], probe[c], next[c], took[c], line[c], toServer[c], toClient[c])'
        BY <2>1, <4>4, <4>5 DEF l, u, plan, state, n
      <4>7. Counts(Plan[c], probe[c], next[c], counted[c], took[c])'
        BY <1>0, <2>1, <3>0, CountsFollow
      <4> QED
        BY <4>6, <4>7 DEF Talk
    <3> QED
      BY <3>1, <3>2
  <2> QED
    BY <2>3, <2>4, <2>5 DEF ServiceInv
<1> QED
  BY <1>1, <1>2

----------------------------------------------------------------------------
(* The steps of the server. *)

(* What the engine accepts comes behind what the store holds.                *)
LEMMA IngestKeeps ==
  ASSUME SavedIsPrefix, NEW f, f.batch \in Batch, Ingested(f), store' = store
  PROVE  SavedIsPrefix'
<1>1. CASE UNCHANGED <<guards, accepted>>
  BY <1>1, SavedSame
<1>2. CASE f.source \in Sources /\ AcceptBatch(f.source, f.batch)
  <2> DEFINE s == f.source
  <2>1. Fence(guards, accepted)'
    BY <1>2, FenceAccepts DEF SavedIsPrefix
  <2>2. Fence(store.guards, store.accepted)'
    BY DEF SavedIsPrefix
  <2>3. /\ accepted \in [Sources -> Seq(Batch)] /\ store.accepted \in [Sources -> Seq(Batch)]
        /\ accepted' = [accepted EXCEPT ![s] = Append(@, f.batch)]
    BY <1>2 DEF SavedIsPrefix, Fence, AcceptBatch
  <2>4. ASSUME NEW t \in Sources PROVE IsPrefix(store.accepted[t], accepted'[t])
    <3>1. CASE t # s
      BY <2>3, <3>1 DEF SavedIsPrefix
    <3>2. CASE t = s
      <4> DEFINE old == store.accepted[t]  new == accepted[t]
      <4>1. /\ old \in Seq(Batch) /\ new \in Seq(Batch) /\ accepted'[t] = Append(new, f.batch)
            /\ IsPrefix(old, new)
        BY <2>3, <3>2 DEF SavedIsPrefix
      <4> HIDE DEF old, new
      <4>2. /\ Append(new, f.batch) \in Seq(Batch) /\ Len(Append(new, f.batch)) = Len(new) + 1
            /\ \A i \in 1..Len(new) : Append(new, f.batch)[i] = new[i]
        BY <4>1
      <4>3. Len(old) <= Len(new) /\ \A i \in 1..Len(old) : old[i] = new[i]
        BY <4>1, PrefixElements
      <4>4. /\ Len(old) <= Len(Append(new, f.batch))
            /\ \A i \in 1..Len(old) : old[i] = Append(new, f.batch)[i]
        BY <4>1, <4>2, <4>3
      <4>5. IsPrefix(old, Append(new, f.batch))
        BY <4>1, <4>2, <4>4, PrefixElements
      <4> QED
        BY <4>1, <4>5 DEF old
    <3> QED
      BY <3>1, <3>2
  <2> QED
    BY <2>1, <2>2, <2>4 DEF SavedIsPrefix
<1> QED
  BY <1>1, <1>2 DEF Ingested, RecordConflict, RefuseBatch, vars

(* A hello is answered. *)
LEMMA HelloStep == ServiceInv /\ HandleHello => ServiceInv'
<1> SUFFICES ASSUME ServiceInv, HandleHello PROVE ServiceInv'
  OBVIOUS
<1>1. PICK supported \in BOOLEAN :
        /\ Heard(IF supported THEN "hello" ELSE "hello_other")
        /\ Answer([type |-> "hello_ack", accepted |-> supported])
        /\ UNCHANGED <<vars, batches, took>>
  BY DEF HandleHello
<1> DEFINE ack == [type |-> "hello_ack", accepted |-> supported]
<1>2. ack \in Answers /\ ack.type # "batch_ack"
  BY DEF Answers
<1>3. serving # Nobody /\ toServer[serving] # <<>> /\ Takes
  BY <1>1 DEF Heard, Takes
<1>4. store' = store
  BY <1>1 DEF Answer, Fail
<1>5. SavedIsPrefix'
  BY <1>1, <1>4, SavedSame DEF ServiceInv, vars
<1> HIDE DEF ack
<1>6. Answer(ack)
  BY <1>1 DEF ack
<1> QED
  BY <1>2, <1>3, <1>5, <1>6, AnswerStep

(* A batch is ingested and answered. *)
LEMMA BatchStep == ServiceInv /\ HandleBatch => ServiceInv'
<1> SUFFICES ASSUME ServiceInv, HandleBatch PROVE ServiceInv'
  OBVIOUS
<1> DEFINE f == Head(toServer[serving])
           ack == [type |-> "batch_ack", accepted |-> Admits(f)]
<1>1. /\ Heard("batch") /\ Ingested(f) /\ Answer(ack)
      /\ took' = IF Admits(f) THEN [took EXCEPT ![serving] = @ \cup {f}] ELSE took
  BY DEF HandleBatch
<1>2. serving # Nobody /\ toServer[serving] # <<>> /\ Takes
  BY <1>1 DEF Heard, Takes
<1>3. /\ f = toServer[serving][1] /\ f \in Sendable /\ f.type = "batch" /\ f.batch \in Batch
      /\ serving \in Clients
  BY <1>1, <1>2, HeardFrame, FramesHoldBatches DEF Heard, ServiceInv
<1>4. Admits(f) \in BOOLEAN
  BY DEF Admits
<1>5. /\ ack \in Answers
      /\ ack.accepted => toServer[serving][1] \in took'[serving]
      /\ ~ack.accepted => took' = took
  <2>1. ack.accepted = Admits(f) /\ ack \in Answers
    BY <1>4 DEF Answers
  <2>2. Admits(f) => f \in took'[serving]
    BY <1>1, <1>3 DEF ServiceInv, ServiceTypes
  <2> QED
    BY <1>1, <1>3, <2>1, <2>2
<1>6. store' = store
  BY <1>1 DEF Answer, Fail
<1>7. SavedIsPrefix'
  BY <1>1, <1>3, <1>6, IngestKeeps DEF ServiceInv
<1> HIDE DEF ack, f
<1> QED
  BY <1>1, <1>2, <1>5, <1>7, AnswerStep

(* A connection is refused. *)
LEMMA RefuseStep ==
  ASSUME ServiceInv, serving # Nobody, toServer[serving] # <<>>,
         Refuse, UNCHANGED <<vars, took>>
  PROVE  ServiceInv'
<1>1. CASE Finish(<<[type |-> "error"]>>)
  BY <1>1, FinishStep
<1>2. CASE Fail
  <2>1. Takes /\ SavedIsPrefix'
    BY <1>2, SavedSame DEF Fail, Takes, ServiceInv, vars
  <2> QED
    BY <1>2, <2>1, DownStep DEF Fail
<1> QED
  BY <1>1, <1>2 DEF Refuse

(* Nothing more is read. *)
LEMMA ReadFailsStep == ServiceInv /\ ReadFails => ServiceInv'
<1> SUFFICES ASSUME ServiceInv, ReadFails PROVE ServiceInv'
  OBVIOUS
<1>1. CASE serving # Nobody /\ Finish(<<>>)
  BY <1>1, FinishStep DEF ReadFails
<1>2. CASE Fail
  <2>1. Takes /\ SavedIsPrefix'
    BY <1>2, SavedSame DEF Fail, Takes, ServiceInv, vars, ReadFails
  <2> QED
    BY <1>2, <2>1, DownStep DEF Fail
<1> QED
  BY <1>1, <1>2 DEF ReadFails

(* The engine is saved: from then on the store holds all of it.              *)
LEMMA SaveStep == ServiceInv /\ Save => ServiceInv'
<1> SUFFICES ASSUME ServiceInv, Save PROVE ServiceInv'
  OBVIOUS
<1>1. /\ store'.guards = guards /\ store'.accepted = accepted
      /\ guards' = guards /\ accepted' = accepted /\ took' = took /\ Down
  BY DEF Save, vars
<1>2. Fence(guards, accepted)
  BY DEF ServiceInv, SavedIsPrefix
<1>3. \A s \in Sources : accepted[s] \in Seq(Batch) /\ IsPrefix(accepted[s], accepted[s])
  <2> SUFFICES ASSUME NEW s \in Sources
               PROVE  accepted[s] \in Seq(Batch) /\ IsPrefix(accepted[s], accepted[s])
    OBVIOUS
  <2>1. accepted[s] \in Seq(Batch)
    BY <1>2 DEF Fence
  <2> QED
    BY <2>1, PrefixElements
<1>4. SavedIsPrefix'
  BY <1>1, <1>2, <1>3 DEF SavedIsPrefix
<1>5. Takes
  BY <1>1 DEF Takes
<1> QED
  BY <1>1, <1>4, <1>5, DownStep

(* Another process starts on what the store holds.                           *)
LEMMA RestartStep == ServiceInv /\ Restart => ServiceInv'
<1> SUFFICES ASSUME ServiceInv, Restart PROVE ServiceInv'
  OBVIOUS
<1>1. /\ guards' = store.guards /\ accepted' = store.accepted /\ store' = store
      /\ UNCHANGED <<backlog, serving, probe, next, counted, line, toServer, toClient, took, said>>
  BY DEF Restart, probeVars, lineVars
<1>2. Fence(store.guards, store.accepted)
  BY DEF ServiceInv, SavedIsPrefix
<1>3. \A s \in Sources : IsPrefix(store.accepted[s], store.accepted[s])
  <2> SUFFICES ASSUME NEW s \in Sources PROVE IsPrefix(store.accepted[s], store.accepted[s])
    OBVIOUS
  <2>1. store.accepted[s] \in Seq(Batch)
    BY <1>2 DEF Fence
  <2> QED
    BY <2>1, PrefixElements
<1>4. SavedIsPrefix'
  BY <1>1, <1>2, <1>3 DEF SavedIsPrefix
<1>5. ServiceTypes' /\ Connected'
  BY <1>1 DEF ServiceInv, ServiceTypes, Connected
<1>6. \A c \in Probes : Talk(c)'
  BY <1>1 DEF ServiceInv, Talk
<1> QED
  BY <1>4, <1>5, <1>6 DEF ServiceInv

(* Another connection is accepted: its client has connected.                 *)
LEMMA AcceptConnectionStep == ServiceInv /\ Accept => ServiceInv'
<1> SUFFICES ASSUME ServiceInv, Accept PROVE ServiceInv'
  OBVIOUS
<1>1. /\ backlog # <<>> /\ serving' = Head(backlog) /\ backlog' = Tail(backlog)
      /\ UNCHANGED <<guards, accepted, store, probe, next, counted, line, toServer, toClient,
                     took, said>>
  BY DEF Accept, probeVars, lineVars, vars
<1>2. /\ backlog \in Seq(Clients) /\ \A i \in DOMAIN backlog : line[backlog[i]] # "none"
  BY DEF ServiceInv, ServiceTypes, Connected
<1>3. /\ Head(backlog) = backlog[1] /\ 1 \in DOMAIN backlog /\ Head(backlog) \in Clients
      /\ Tail(backlog) \in Seq(Clients)
      /\ \A i \in DOMAIN Tail(backlog) : i + 1 \in DOMAIN backlog /\ Tail(backlog)[i] = backlog[i + 1]
  BY <1>1, <1>2
<1>4. ServiceTypes'
  BY <1>1, <1>3 DEF ServiceInv, ServiceTypes
<1>5. Connected'
  BY <1>1, <1>2, <1>3 DEF Connected
<1>6. SavedIsPrefix'
  BY <1>1, SavedSame DEF ServiceInv
<1>7. \A c \in Probes : Talk(c)'
  BY <1>1 DEF ServiceInv, Talk
<1> QED
  BY <1>4, <1>5, <1>6, <1>7 DEF ServiceInv

----------------------------------------------------------------------------
(* The steps of the clients. *)

(* A client connects: it is the last in the backlog.                         *)
LEMMA ConnectKeeps ==
  ASSUME ServiceTypes, Connected, NEW c \in Clients, Connect(c)
  PROVE  /\ line[c] = "none" /\ line' = [line EXCEPT ![c] = "open"]
         /\ line' \in [Clients -> {"none", "open", "hungup", "cut", "closed"}]
         /\ backlog' \in Seq(Clients) /\ serving' = serving /\ store' = store
         /\ Connected'
<1>1. /\ line[c] = "none" /\ line' = [line EXCEPT ![c] = "open"]
      /\ backlog' = Append(backlog, c) /\ serving' = serving /\ store' = store
  BY DEF Connect
<1>2. /\ line \in [Clients -> {"none", "open", "hungup", "cut", "closed"}]
      /\ backlog \in Seq(Clients) /\ serving \in Clients \cup {Nobody}
  BY DEF ServiceTypes
<1>3. \A d \in Clients : line'[d] = "none" => line[d] = "none"
  BY <1>1, <1>2
<1>4. /\ Append(backlog, c) \in Seq(Clients)
      /\ \A i \in DOMAIN Append(backlog, c) :
           \/ i \in DOMAIN backlog /\ Append(backlog, c)[i] = backlog[i]
           \/ Append(backlog, c)[i] = c
  BY <1>2
<1>5. line'[c] = "open"
  BY <1>1, <1>2
<1>6. \A i \in DOMAIN backlog' : line'[backlog'[i]] # "none"
  <2> SUFFICES ASSUME NEW i \in DOMAIN backlog' PROVE line'[backlog'[i]] # "none"
    OBVIOUS
  <2>1. CASE backlog'[i] = c
    BY <1>5, <2>1
  <2>2. CASE i \in DOMAIN backlog /\ backlog'[i] = backlog[i]
    <3>1. backlog[i] \in Clients /\ line[backlog[i]] # "none"
      BY <1>2, <2>2 DEF Connected
    <3> QED
      BY <1>3, <2>2, <3>1
  <2> QED
    BY <1>1, <1>4, <2>1, <2>2
<1>7. serving' # Nobody => line'[serving'] # "none"
  BY <1>1, <1>2, <1>3 DEF Connected
<1>8. Connected'
  BY <1>6, <1>7 DEF Connected
<1> QED
  BY <1>1, <1>2, <1>4, <1>8

(* A probe connects and says hello, or finds nobody to connect to.           *)
LEMMA ProbeConnectsStep ==
  ASSUME ServiceInv, NEW c \in Probes, ProbeConnects(c)
  PROVE  ServiceInv'
<1>0. /\ ServiceTypes /\ Connected /\ c \in Clients /\ \A d \in Probes : Talk(d) /\ d \in Clients
  BY WhoIsWho DEF ServiceInv
<1>1. /\ probe[c] = "start"
      /\ UNCHANGED <<guards, accepted, toClient, next, counted, took, said>>
  BY DEF ProbeConnects, vars
<1>2. Talk(c) /\ line[c] = "none" /\ toClient[c] = <<>>
  BY <1>0, <1>1 DEF Talk, Flows
<1>3. CASE /\ Connect(c) /\ probe' = [probe EXCEPT ![c] = "hello"]
           /\ toServer' = [toServer EXCEPT ![c] = <<[type |-> "hello"]>>]
  <2>1. /\ line' = [line EXCEPT ![c] = "open"] /\ backlog' \in Seq(Clients)
        /\ line' \in [Clients -> {"none", "open", "hungup", "cut", "closed"}]
        /\ serving' = serving /\ store' = store /\ Connected'
    BY <1>0, <1>3, ConnectKeeps
  <2> DEFINE hello == <<[type |-> "hello"]>>
  <2>2. /\ hello \in Seq(Sendable) /\ Len(hello) = 1 /\ Len(hello) <= 1
        /\ hello # <<>> /\ hello[1].type # "batch"
    <3>1. [type |-> "hello"] \in Sendable
      BY FramesHoldBatches
    <3>2. hello \in Seq(Sendable) /\ Len(hello) = 1 /\ hello[1] = [type |-> "hello"]
      BY <3>1
    <3> QED
      BY <3>2, EmptySeq
  <2>3. ServiceTypes'
    <3>1. toServer' \in [Clients -> Seq(Sendable)]
      BY <1>0, <1>3, <2>2 DEF ServiceTypes
    <3>2. probe' \in [Probes -> {"start"} \cup Waiting \cup ExitCodes]
      BY <1>0, <1>3 DEF ServiceTypes, Waiting
    <3> QED
      BY <1>0, <1>1, <2>1, <3>1, <3>2 DEF ServiceTypes
  <2>4. SavedIsPrefix'
    BY <1>1, <2>1, SavedSame DEF ServiceInv
  <2>5. ASSUME NEW d \in Probes PROVE Talk(d)'
    <3>1. CASE d # c
      <4>1. /\ line'[d] = line[d] /\ toServer'[d] = toServer[d] /\ probe'[d] = probe[d]
        BY <1>0, <1>3, <2>1, <3>1 DEF ServiceTypes
      <4> QED
        BY <1>0, <1>1, <4>1, TalkSame
    <3>2. CASE d = c
      <4>1. /\ line'[c] = "open" /\ toServer'[c] = hello /\ probe'[c] = "hello"
            /\ toClient'[c] = <<>> /\ next'[c] = next[c] /\ counted'[c] = counted[c]
            /\ took'[c] = took[c]
        BY <1>0, <1>1, <1>2, <1>3, <2>1 DEF ServiceTypes
      <4> HIDE DEF hello
      <4>2. Counts(Plan[c], "start", next[c], counted[c], took[c])
        BY <1>1, <1>2 DEF Talk
      <4>3. Counts(Plan[c], "hello", next[c], counted[c], took[c])
        BY <4>2 DEF Counts
      <4>4. Flows(Plan[c], "hello", next[c], took[c], "open", hello, <<>>)
        <5> DEFINE in == <<>>
        <5>1. in = <<>> /\ Len(in) <= 1
          BY EmptySeq
        <5> HIDE DEF in
        <5>2. Flows(Plan[c], "hello", next[c], took[c], "open", hello, in)
          BY <2>2, <5>1 DEF Flows, Waiting
        <5> QED
          BY <5>1, <5>2
      <4> QED
        BY <3>2, <4>1, <4>3, <4>4 DEF Talk
    <3> QED
      BY <3>1, <3>2
  <2> QED
    BY <2>1, <2>3, <2>4, <2>5 DEF ServiceInv
<1>4. CASE probe' = [probe EXCEPT ![c] = "4"] /\ UNCHANGED <<serverVars, line, toServer>>
  <2>1. UNCHANGED <<backlog, serving, store, line, toServer>>
    BY <1>4 DEF serverVars
  <2>2. ServiceTypes'
    <3>1. probe' \in [Probes -> {"start"} \cup Waiting \cup ExitCodes]
      BY <1>0, <1>4 DEF ServiceTypes, ExitCodes
    <3> QED
      BY <1>0, <1>1, <2>1, <3>1 DEF ServiceTypes
  <2>3. Connected' /\ SavedIsPrefix'
    BY <1>1, <2>1, SavedSame DEF ServiceInv, Connected
  <2>4. ASSUME NEW d \in Probes PROVE Talk(d)'
    <3>1. CASE d # c
      <4>1. probe'[d] = probe[d]
        BY <1>0, <1>4, <3>1 DEF ServiceTypes
      <4> QED
        BY <1>0, <1>1, <2>1, <4>1, TalkSame
    <3>2. CASE d = c
      <4>1. probe'[c] = "4"
        BY <1>0, <1>4 DEF ServiceTypes
      <4>2. Counts(Plan[c], "4", next[c], counted[c], took[c])
        BY <1>2 DEF Talk, Counts
      <4>3. Flows(Plan[c], "4", next[c], took[c], line[c], toServer[c], toClient[c])
        <5>1. probe[c] # "hello"
          BY <1>1
        <5>2. toServer[c] = <<>>
          BY <1>2 DEF Talk, Flows
        <5> QED
          BY <1>2, <5>1, <5>2 DEF Talk, Flows, Waiting
      <4> QED
        BY <1>1, <2>1, <3>2, <4>1, <4>2, <4>3 DEF Talk
    <3> QED
      BY <3>1, <3>2
  <2> QED
    BY <2>2, <2>3, <2>4 DEF ServiceInv
<1> QED
  BY <1>3, <1>4 DEF ProbeConnects

(* A probe exits without a word.  What was on its way may still arrive.      *)
LEMMA LeaveStep ==
  ASSUME ServiceInv, NEW c \in Probes, probe[c] \in Waiting,
         NEW code \in {"2", "4"}, Leave(c, code),
         toClient' \in [Clients -> Seq(Answers)],
         \A d \in Clients : d # c => toClient'[d] = toClient[d],
         UNCHANGED <<guards, accepted, store, took, said, backlog, serving>>
  PROVE  ServiceInv'
<1>0. /\ ServiceTypes /\ Connected /\ c \in Clients /\ \A d \in Probes : Talk(d) /\ d \in Clients
  BY WhoIsWho DEF ServiceInv
<1>1. /\ probe' = [probe EXCEPT ![c] = code]
      /\ line' = [line EXCEPT ![c] = IF @ = "open" THEN "hungup" ELSE @]
      /\ UNCHANGED <<toServer, next, counted>>
  BY DEF Leave, HungUp
<1>2. /\ line' \in [Clients -> {"none", "open", "hungup", "cut", "closed"}]
      /\ \A d \in Clients : line'[d] = "none" => line[d] = "none"
  BY <1>0, <1>1 DEF ServiceTypes
<1>3. ServiceTypes'
  <2>1. probe' \in [Probes -> {"start"} \cup Waiting \cup ExitCodes]
    BY <1>0, <1>1 DEF ServiceTypes, ExitCodes
  <2> QED
    BY <1>0, <1>1, <1>2, <2>1 DEF ServiceTypes
<1>4. Connected'
  <2>1. \A i \in DOMAIN backlog : backlog[i] \in Clients
    BY <1>0 DEF ServiceTypes
  <2>2. serving # Nobody => serving \in Clients
    BY <1>0 DEF ServiceTypes
  <2> QED
    BY <1>0, <1>2, <2>1, <2>2 DEF Connected
<1>5. SavedIsPrefix'
  BY SavedSame DEF ServiceInv
<1>6. ASSUME NEW d \in Probes PROVE Talk(d)'
  <2>1. CASE d # c
    <3>1. /\ line'[d] = line[d] /\ probe'[d] = probe[d] /\ toClient'[d] = toClient[d]
      BY <1>0, <1>1, <2>1 DEF ServiceTypes
    <3> QED
      BY <1>0, <1>1, <3>1, TalkSame
  <2>2. CASE d = c
    <3>1. probe'[c] = code /\ code \notin {"start", "hello", "batch", "0"}
      BY <1>0, <1>1 DEF ServiceTypes
    <3>2. Talk(c) /\ line[c] # "none" /\ line'[c] # "none"
      BY <1>0, <1>2 DEF Talk, Flows
    <3>3. Counts(Plan[c], code, next[c], counted[c], took[c])
      BY <3>1, <3>2 DEF Talk, Counts
    <3>4. Flows(Plan[c], code, next[c], took[c], line'[c], toServer[c], toClient'[c])
      BY <3>1, <3>2 DEF Talk, Flows, Waiting
    <3> QED
      BY <1>1, <2>2, <3>1, <3>3, <3>4 DEF Talk
  <2> QED
    BY <2>1, <2>2
<1> QED
  BY <1>3, <1>4, <1>5, <1>6 DEF ServiceInv

(* The probe has got to batch i of its plan.                                 *)
Reached(plan, i, acknowledged, t) ==
  /\ i \in 1..(Len(plan) + 1) /\ acknowledged \subseteq 1..(i - 1)
  /\ \A j \in DOMAIN plan : /\ j < i => (plan[j] \in t <=> j \in acknowledged)
                            /\ j >= i => plan[j] \notin t

(* It goes on to its next batch, or to the end.                              *)
LEMMA AdvanceStep ==
  ASSUME ServiceInv, NEW c \in Probes, probe[c] \in Waiting, toClient[c] # <<>>,
         toClient' = [toClient EXCEPT ![c] = Tail(@)],
         NEW i, NEW acknowledged, Advance(c, i, acknowledged),
         Reached(Plan[c], i, acknowledged, took[c]),
         UNCHANGED <<guards, accepted, store, took, said, backlog, serving>>
  PROVE  ServiceInv'
<1>0. /\ ServiceTypes /\ Connected /\ c \in Clients /\ \A d \in Probes : Talk(d) /\ d \in Clients
  BY WhoIsWho DEF ServiceInv
<1> DEFINE plan == Plan[c]
           last == i > Len(plan)
           frame == IF last THEN [type |-> "bye"] ELSE plan[i]
           state == IF last THEN IF acknowledged = DOMAIN plan THEN "0" ELSE "3" ELSE "batch"
           l == IF last /\ line[c] = "open" THEN "hungup" ELSE line[c]
           out == IF line[c] = "open" THEN Append(toServer[c], frame) ELSE toServer[c]
<1>1. /\ plan \in Seq(Sendable) /\ i \in 1..(Len(plan) + 1) /\ i \in Nat /\ Len(plan) \in Nat
      /\ acknowledged \subseteq 1..(i - 1) /\ acknowledged \subseteq Nat
  BY Plans DEF Reached
<1>2. /\ probe' = [probe EXCEPT ![c] = state]
      /\ next' = [next EXCEPT ![c] = i] /\ counted' = [counted EXCEPT ![c] = acknowledged]
      /\ line' = [line EXCEPT ![c] = l]
      /\ toServer' = [toServer EXCEPT ![c] = out]
  <2>1. line = [line EXCEPT ![c] = line[c]]
    BY <1>0 DEF ServiceTypes
  <2>2. CASE last
    <3>1. ~(i <= Len(plan))
      BY <1>1, <2>2
    <3> QED
      BY <2>2, <3>1 DEF Advance, Sent, HungUp
  <2>3. CASE ~last
    <3>1. i <= Len(plan)
      BY <1>1, <2>3
    <3> QED
      BY <2>1, <2>3, <3>1 DEF Advance, Sent
  <2> QED
    BY <2>2, <2>3
<1>3. /\ toServer[c] = <<>> /\ line[c] # "none" /\ Len(toClient[c]) <= 1
  BY <1>0 DEF Talk, Flows, Waiting
<1>4. /\ toClient[c] \in Seq(Answers) /\ Tail(toClient[c]) = <<>>
      /\ toClient' \in [Clients -> Seq(Answers)]
  <2>1. toClient[c] \in Seq(Answers)
    BY <1>0 DEF ServiceTypes
  <2>2. Tail(toClient[c]) = <<>>
    BY <1>3, <2>1, OneFrame
  <2> QED
    BY <1>0, <2>1, <2>2, EmptySeq DEF ServiceTypes
<1>5. frame \in Sendable /\ (frame.type = "batch" => ~last /\ frame = plan[i])
  <2>1. CASE last
    BY <2>1, FramesHoldBatches
  <2>2. CASE ~last
    BY <1>1, <2>2
  <2> QED
    BY <2>1, <2>2
<1> HIDE DEF frame
<1>6. /\ out \in Seq(Sendable) /\ Len(out) <= 1
      /\ out # <<>> => out[1] = frame
      /\ line[c] = "open" => out # <<>>
  <2>1. CASE line[c] = "open"
    <3>1. Append(<<>>, frame) \in Seq(Sendable) /\ Len(Append(<<>>, frame)) = 1
          /\ Append(<<>>, frame)[1] = frame
      BY <1>5
    <3> QED
      BY <1>3, <2>1, <3>1, EmptySeq
  <2>2. CASE line[c] # "open"
    BY <1>3, <2>2, EmptySeq
  <2> QED
    BY <2>1, <2>2
<1>7. /\ l \in {"none", "open", "hungup", "cut", "closed"} /\ l # "none"
      /\ l = "open" => line[c] = "open"
      /\ state \in {"batch", "0", "3"} /\ (state = "batch" <=> ~last)
      /\ state = "0" => acknowledged = DOMAIN plan
  BY <1>0, <1>3 DEF ServiceTypes
<1> HIDE DEF l, out, state
<1>8. ServiceTypes'
  <2>1. /\ line' \in [Clients -> {"none", "open", "hungup", "cut", "closed"}]
        /\ toServer' \in [Clients -> Seq(Sendable)]
    BY <1>0, <1>2, <1>6, <1>7 DEF ServiceTypes
  <2>2. state \in {"start"} \cup Waiting \cup ExitCodes
    BY <1>7 DEF Waiting, ExitCodes
  <2>3. /\ probe' \in [Probes -> {"start"} \cup Waiting \cup ExitCodes]
        /\ next' \in [Probes -> Nat] /\ counted' \in [Probes -> SUBSET Nat]
    BY <1>0, <1>1, <1>2, <2>2 DEF ServiceTypes
  <2> QED
    BY <1>0, <1>4, <2>1, <2>3 DEF ServiceTypes
<1>9. Connected'
  <2>1. \A d \in Clients : line'[d] = "none" => line[d] = "none"
    BY <1>0, <1>2, <1>7 DEF ServiceTypes
  <2>2. \A j \in DOMAIN backlog : backlog[j] \in Clients
    BY <1>0 DEF ServiceTypes
  <2>3. serving # Nobody => serving \in Clients
    BY <1>0 DEF ServiceTypes
  <2> QED
    BY <1>0, <2>1, <2>2, <2>3 DEF Connected
<1>10. SavedIsPrefix'
  BY SavedSame DEF ServiceInv
<1>11. ASSUME NEW d \in Probes PROVE Talk(d)'
  <2>1. CASE d # c
    <3>1. /\ line'[d] = line[d] /\ probe'[d] = probe[d] /\ toClient'[d] = toClient[d]
          /\ toServer'[d] = toServer[d] /\ next'[d] = next[d] /\ counted'[d] = counted[d]
      BY <1>0, <1>2, <2>1 DEF ServiceTypes
    <3> QED
      BY <1>0, <3>1, TalkSame
  <2>2. CASE d = c
    <3> DEFINE t == took[c]
               in == <<>>
    <3>1. /\ line'[c] = l /\ probe'[c] = state /\ toClient'[c] = in /\ toServer'[c] = out
          /\ next'[c] = i /\ counted'[c] = acknowledged /\ took'[c] = t
      BY <1>0, <1>2, <1>4 DEF ServiceTypes
    <3>2. in = <<>> /\ Len(in) <= 1
      BY EmptySeq
    <3> HIDE DEF in, t, plan
    <3>3. Reached(plan, i, acknowledged, t)
      BY DEF plan, t
    <3>4. /\ last => i = Len(plan) + 1
          /\ ~last => i <= Len(plan) /\ i \in DOMAIN plan /\ plan[i] \notin t
      BY <1>1, <3>3 DEF Reached
    <3> HIDE DEF last
    <3>5. Counts(plan, state, i, acknowledged, t)
      <4>1. /\ state \in {"start", "hello"} => FALSE
            /\ state = "batch" => i <= Len(plan)
            /\ state = "0" => i = Len(plan) + 1 /\ acknowledged = DOMAIN plan
        BY <1>7, <3>4
      <4>2. \A j \in DOMAIN plan : /\ j < i => (plan[j] \in t <=> j \in acknowledged)
                                   /\ j > i => plan[j] \notin t
        BY <1>1, <3>3 DEF Reached
      <4> QED
        BY <1>1, <4>1, <4>2 DEF Counts
    <3>6. Flows(plan, state, i, t, l, out, in)
      <4>1. out # <<>> /\ out[1].type = "batch" =>
              state # "hello" /\ i <= Len(plan) /\ out[1] = plan[i] /\ plan[i] \notin t
        BY <1>5, <1>6, <1>7, <3>4
      <4>2. state # "start" /\ (l = "open" => out # <<>>)
        BY <1>6, <1>7
      <4> QED
        BY <1>6, <1>7, <3>2, <4>1, <4>2 DEF Flows
    <3> QED
      BY <2>2, <3>1, <3>5, <3>6 DEF Talk, plan, t
  <2> QED
    BY <2>1, <2>2
<1> QED
  BY <1>8, <1>9, <1>10, <1>11 DEF ServiceInv

(* A probe hears an answer. *)
LEMMA ProbeHearsStep ==
  ASSUME ServiceInv, NEW c \in Probes, ProbeHears(c)
  PROVE  ServiceInv'
<1>0. /\ ServiceTypes /\ c \in Clients /\ Talk(c)
  BY WhoIsWho DEF ServiceInv
<1> DEFINE f == Head(toClient[c])
<1>1. /\ probe[c] \in Waiting /\ toClient[c] # <<>>
      /\ toClient' = [toClient EXCEPT ![c] = Tail(@)]
      /\ UNCHANGED <<guards, accepted, store, took, said, backlog, serving>>
  BY DEF ProbeHears, vars, serverVars, Waiting
<1>2. /\ toClient[c] \in Seq(Answers) /\ Tail(toClient[c]) \in Seq(Answers)
      /\ f = toClient[c][1]
  BY <1>0, <1>1 DEF ServiceTypes
<1>3. /\ toClient' \in [Clients -> Seq(Answers)]
      /\ \A d \in Clients : d # c => toClient'[d] = toClient[d]
  BY <1>0, <1>1, <1>2 DEF ServiceTypes
<1> HIDE DEF f
<1>4. CASE Leave(c, "2") \/ Leave(c, "4")
  BY <1>1, <1>3, <1>4, LeaveStep
<1>5. CASE probe[c] = "hello" /\ Advance(c, 1, {})
  <2>1. Reached(Plan[c], 1, {}, took[c])
    <3>1. Plan[c] \in Seq(Sendable) /\ \A j \in DOMAIN Plan[c] : Plan[c][j] \notin took[c]
      BY <1>0, <1>5, Plans DEF Talk, Counts
    <3> QED
      BY <3>1 DEF Reached
  <2> QED
    BY <1>1, <1>5, <2>1, AdvanceStep
<1>6. CASE /\ probe[c] = "batch" /\ f.type = "batch_ack"
           /\ Advance(c, next[c] + 1, counted[c] \cup IF f.accepted THEN {next[c]} ELSE {})
  <2> DEFINE plan == Plan[c]  n == next[c]  k == counted[c]  t == took[c]
             acknowledged == k \cup IF f.accepted THEN {n} ELSE {}
  <2>1. /\ plan \in Seq(Sendable) /\ n \in 1..(Len(plan) + 1) /\ n <= Len(plan)
        /\ k \subseteq 1..(n - 1)
        /\ \A j \in DOMAIN plan : /\ j < n => (plan[j] \in t <=> j \in k)
                                  /\ j > n => plan[j] \notin t
    BY <1>0, <1>6, Plans DEF Talk, Counts
  <2>2. f.accepted <=> plan[n] \in t
    BY <1>0, <1>1, <1>2, <1>6 DEF Talk, Flows
  <2> HIDE DEF plan, n, k, t
  <2>3. n + 1 \in 1..(Len(plan) + 1) /\ acknowledged \subseteq 1..((n + 1) - 1)
    BY <2>1
  <2>4. ASSUME NEW j \in DOMAIN plan
        PROVE  /\ j < n + 1 => (plan[j] \in t <=> j \in acknowledged)
               /\ j >= n + 1 => plan[j] \notin t
    <3>1. j \in Nat /\ n \in Nat
      BY <2>1
    <3>2. CASE j < n
      BY <2>1, <3>1, <3>2
    <3>3. CASE j = n
      <4>1. n \notin k
        BY <2>1
      <4> QED
        BY <2>2, <3>1, <3>3, <4>1
    <3>4. CASE j > n
      BY <2>1, <3>1, <3>4
    <3> QED
      BY <3>1, <3>2, <3>3, <3>4
  <2>5. Reached(plan, n + 1, acknowledged, t)
    BY <2>3, <2>4 DEF Reached
  <2> QED
    BY <1>1, <1>6, <2>5, AdvanceStep DEF plan, n, k, t
<1> QED
  BY <1>1, <1>4, <1>5, <1>6 DEF ProbeHears, Waiting, f

(* Its connection is gone, or it is killed.                                  *)
LEMMA ProbeEndsStep ==
  ASSUME ServiceInv, NEW c \in Probes, ProbeLoses(c) \/ ProbeDies(c)
  PROVE  ServiceInv'
<1>1. /\ probe[c] \in Waiting /\ Leave(c, "4")
      /\ UNCHANGED <<guards, accepted, store, took, said, backlog, serving, toClient>>
  BY DEF ProbeLoses, ProbeDies, vars, serverVars, Waiting
<1>2. toClient' \in [Clients -> Seq(Answers)]
  BY <1>1 DEF ServiceInv, ServiceTypes
<1> QED
  BY <1>1, <1>2, LeaveStep

(* The other clients connect, hang up and say what they like; no probe is    *)
(* one of them.                                                              *)
LEMMA PeerStep ==
  ASSUME ServiceInv, NEW p \in Peers,
         PeerConnects(p) \/ HangUp(p) \/ \E f \in Frames : Say(p, f)
  PROVE  ServiceInv'
<1>0. /\ ServiceTypes /\ Connected /\ p \in Clients
      /\ \A d \in Probes : Talk(d) /\ d \in Clients /\ d # p
  BY WhoIsWho DEF ServiceInv
<1>1. UNCHANGED <<guards, accepted, store, toClient, probe, next, counted, took, serving>>
  BY DEF PeerConnects, HangUp, Say, Connect, vars, serverVars, probeVars
<1>2. SavedIsPrefix'
  BY <1>1, SavedSame DEF ServiceInv
<1>3. /\ line' \in [Clients -> {"none", "open", "hungup", "cut", "closed"}]
      /\ toServer' \in [Clients -> Seq(Sendable)] /\ said' \in [Peers -> Nat]
      /\ backlog' \in Seq(Clients) /\ Connected'
      /\ \A d \in Clients : d # p => line'[d] = line[d] /\ toServer'[d] = toServer[d]
  <2>1. CASE PeerConnects(p)
    <3>1. /\ Connect(p) /\ toServer' = toServer /\ said' = said
      BY <2>1 DEF PeerConnects
    <3>2. /\ line' = [line EXCEPT ![p] = "open"] /\ backlog' \in Seq(Clients) /\ Connected'
          /\ line' \in [Clients -> {"none", "open", "hungup", "cut", "closed"}]
      BY <1>0, <3>1, ConnectKeeps
    <3> QED
      BY <1>0, <3>1, <3>2 DEF ServiceTypes
  <2>2. CASE HangUp(p)
    <3>1. /\ line[p] = "open"
          /\ line' = [line EXCEPT ![p] = IF @ = "open" THEN "hungup" ELSE @]
          /\ UNCHANGED <<backlog, toServer, said>>
      BY <2>2 DEF HangUp, HungUp, serverVars
    <3>2. \A d \in Clients : line'[d] = "none" => line[d] = "none"
      BY <1>0, <3>1 DEF ServiceTypes
    <3>3. Connected'
      BY <1>0, <1>1, <3>1, <3>2 DEF ServiceTypes, Connected
    <3> QED
      BY <1>0, <3>1, <3>3 DEF ServiceTypes
  <2>3. CASE \E f \in Frames : Say(p, f)
    <3>1. PICK f \in Frames : Say(p, f)
      BY <2>3
    <3>2. /\ said' = [said EXCEPT ![p] = @ + 1]
          /\ toServer' = [toServer EXCEPT ![p] = Append(@, f)]
          /\ UNCHANGED <<backlog, line>>
      BY <3>1 DEF Say, serverVars
    <3>3. f \in Sendable /\ toServer[p] \in Seq(Sendable) /\ said[p] + 1 \in Nat
      BY <1>0, FramesHoldBatches DEF ServiceTypes
    <3>4. Append(toServer[p], f) \in Seq(Sendable)
      BY <3>3
    <3>5. Connected'
      BY <1>0, <1>1, <3>2 DEF Connected
    <3> QED
      BY <1>0, <3>2, <3>3, <3>4, <3>5 DEF ServiceTypes
  <2> QED
    BY <2>1, <2>2, <2>3
<1>4. ServiceTypes'
  BY <1>0, <1>1, <1>3 DEF ServiceTypes
<1>5. ASSUME NEW d \in Probes PROVE Talk(d)'
  BY <1>0, <1>1, <1>3, TalkSame
<1> QED
  BY <1>2, <1>3, <1>4, <1>5 DEF ServiceInv

(* A connection is cut. *)
LEMMA CutStep ==
  ASSUME ServiceInv, NEW c \in Clients, Cut(c)
  PROVE  ServiceInv'
<1>0. /\ ServiceTypes /\ Connected /\ \A d \in Probes : Talk(d) /\ d \in Clients
  BY WhoIsWho DEF ServiceInv
<1>1. /\ line[c] = "open" /\ line' = [line EXCEPT ![c] = "cut"]
      /\ UNCHANGED <<guards, accepted, store, probe, next, counted, took, said, backlog, serving>>
  BY DEF Cut, vars, serverVars, probeVars
<1>2. PICK s \in Beginnings(toServer[c]), t \in Beginnings(toClient[c]) :
        /\ toServer' = [toServer EXCEPT ![c] = s]
        /\ toClient' = [toClient EXCEPT ![c] = t]
  BY DEF Cut
<1>3. toServer[c] \in Seq(Sendable) /\ toClient[c] \in Seq(Answers)
  BY <1>0 DEF ServiceTypes
<1>4. /\ s \in Seq(Sendable) /\ Begins(s, toServer[c])
      /\ t \in Seq(Answers) /\ Begins(t, toClient[c])
  BY <1>3, BeginningsBegin
<1>5. ServiceTypes'
  <2>1. /\ line' \in [Clients -> {"none", "open", "hungup", "cut", "closed"}]
        /\ toServer' \in [Clients -> Seq(Sendable)] /\ toClient' \in [Clients -> Seq(Answers)]
    BY <1>0, <1>1, <1>2, <1>4 DEF ServiceTypes
  <2> QED
    BY <1>0, <1>1, <2>1 DEF ServiceTypes
<1>6. Connected'
  <2>1. \A d \in Clients : line'[d] = "none" => line[d] = "none"
    BY <1>0, <1>1 DEF ServiceTypes
  <2>2. \A j \in DOMAIN backlog : backlog[j] \in Clients
    BY <1>0 DEF ServiceTypes
  <2>3. serving # Nobody => serving \in Clients
    BY <1>0 DEF ServiceTypes
  <2> QED
    BY <1>0, <1>1, <2>1, <2>2, <2>3 DEF Connected
<1>7. SavedIsPrefix'
  BY <1>1, SavedSame DEF ServiceInv
<1>8. ASSUME NEW d \in Probes PROVE Talk(d)'
  <2>1. CASE d # c
    <3>1. /\ line'[d] = line[d] /\ toServer'[d] = toServer[d] /\ toClient'[d] = toClient[d]
      BY <1>0, <1>1, <1>2, <2>1 DEF ServiceTypes
    <3> QED
      BY <1>0, <1>1, <3>1, TalkSame
  <2>2. CASE d = c
    <3>1. /\ line'[d] = "cut" /\ toServer'[d] = s /\ toClient'[d] = t
      BY <1>0, <1>1, <1>2, <2>2 DEF ServiceTypes
    <3>2. Takes
      BY <1>1 DEF Takes
    <3>3. /\ Begins(toServer'[d], toServer[d]) /\ Begins(toClient'[d], toClient[d])
          /\ line'[d] # "open" /\ (line'[d] = "none" <=> line[d] = "none")
      BY <1>1, <1>4, <2>2, <3>1
    <3>4. /\ probe'[d] = probe[d] /\ next'[d] = next[d] /\ counted'[d] = counted[d]
          /\ took'[d] = took[d]
      BY <1>1
    <3>5. Breaks(d)
      BY <3>3, <3>4 DEF Breaks
    <3> QED
      BY <1>0, <1>5, <3>2, <3>5, TalkBreaks
  <2> QED
    BY <2>1, <2>2
<1> QED
  BY <1>5, <1>6, <1>7, <1>8 DEF ServiceInv

----------------------------------------------------------------------------
(* The invariant and what follows from it. *)

(* At first nobody is connected and nothing was accepted.                    *)
LEMMA InitServiceInv == ServiceInit => ServiceInv
<1> SUFFICES ASSUME ServiceInit PROVE ServiceInv
  OBVIOUS
<1>0. /\ <<>> \in Seq(Sendable) /\ <<>> \in Seq(Answers) /\ <<>> \in Seq(Clients)
      /\ <<>> \in Seq(Batch)
  OBVIOUS
<1>1. ServiceTypes
  BY <1>0 DEF ServiceInit, ServiceTypes
<1>2. Connected
  BY DEF ServiceInit, Connected
<1>3. SavedIsPrefix
  <2>1. NewGuard \in GuardState /\ NewGuard.initialized = FALSE
    BY DEF NewGuard, GuardState
  <2>2. /\ guards = [s \in Sources |-> NewGuard] /\ accepted = [s \in Sources |-> <<>>]
        /\ store.guards = guards /\ store.accepted = accepted
    BY DEF ServiceInit, Init, Empty
  <2>3. Fence(guards, accepted)
    BY <1>0, <2>1, <2>2 DEF Fence
  <2>4. ASSUME NEW s \in Sources PROVE IsPrefix(store.accepted[s], accepted[s])
    <3>1. accepted[s] \in Seq(Batch) /\ store.accepted[s] = accepted[s]
      BY <1>0, <2>2
    <3>2. IsPrefix(accepted[s], accepted[s])
      BY <3>1, PrefixElements
    <3> QED
      BY <3>1, <3>2
  <2> QED
    BY <2>2, <2>3, <2>4 DEF SavedIsPrefix
<1>4. ASSUME NEW c \in Probes PROVE Talk(c)
  <2>1. /\ Plan[c] \in Seq(Sendable) /\ c \in Clients
    BY Plans, WhoIsWho
  <2>2. /\ probe[c] = "start" /\ next[c] = 1 /\ counted[c] = {} /\ took[c] = {}
        /\ line[c] = "none" /\ toServer[c] = <<>> /\ toClient[c] = <<>>
    BY <2>1 DEF ServiceInit
  <2>3. Counts(Plan[c], "start", 1, {}, {})
    BY <2>1 DEF Counts
  <2> DEFINE nothing == <<>>
  <2>4. nothing = <<>> /\ Len(nothing) <= 1
    BY EmptySeq
  <2> HIDE DEF nothing
  <2>5. Flows(Plan[c], "start", 1, {}, "none", nothing, nothing)
    BY <2>4 DEF Flows, Waiting
  <2> QED
    BY <2>2, <2>3, <2>4, <2>5 DEF Talk
<1> QED
  BY <1>1, <1>2, <1>3, <1>4 DEF ServiceInv

(* Every step preserves it. *)
LEMMA ServiceStep == ServiceInv /\ [ServiceNext]_allVars => ServiceInv'
<1> SUFFICES ASSUME ServiceInv, [ServiceNext]_allVars PROVE ServiceInv'
  OBVIOUS
<1>1. CASE UNCHANGED allVars
  <2>1. UNCHANGED <<guards, accepted, store, line, toServer, toClient, probe, next, counted, took,
                    said, backlog, serving>>
    BY <1>1 DEF allVars, vars, sessionVars, serverVars, probeVars, lineVars
  <2>2. ServiceTypes' /\ Connected' /\ SavedIsPrefix'
    BY <2>1, SavedSame DEF ServiceInv, ServiceTypes, Connected
  <2> QED
    BY <2>1, <2>2 DEF ServiceInv, Talk
<1>2. CASE ServerStep
  <2>1. CASE RefuseBatchFrame \/ HandleOther
    BY <2>1, RefuseStep DEF RefuseBatchFrame, HandleOther, Heard
  <2>2. CASE HandleBye
    BY <2>2, FinishStep DEF HandleBye, Heard
  <2> QED
    BY <1>2, <2>1, <2>2, AcceptConnectionStep, HelloStep, BatchStep, ReadFailsStep, SaveStep
       DEF ServerStep
<1>3. CASE Restart
  BY <1>3, RestartStep
<1>4. CASE \E c \in Probes : ProbeConnects(c) \/ ProbeStep(c) \/ ProbeDies(c)
  BY <1>4, ProbeConnectsStep, ProbeHearsStep, ProbeEndsStep DEF ProbeStep
<1>5. CASE \E p \in Peers : PeerConnects(p) \/ HangUp(p) \/ \E f \in Frames : Say(p, f)
  BY <1>5, PeerStep
<1>6. CASE \E c \in Clients : Cut(c)
  BY <1>6, CutStep
<1> QED
  BY <1>1, <1>2, <1>3, <1>4, <1>5, <1>6 DEF ServiceNext

(* The invariant of the service: counting, what is on its way, and what is   *)
(* saved agree in every state.                                               *)
THEOREM ServiceInvariance == ServiceSpec => []ServiceInv
<1> QED
  BY InitServiceInv, ServiceStep, PTL DEF ServiceSpec

(* What a probe believes of its batches is true, and a probe that exits with *)
(* 0 has every batch accepted, whatever broke on the way.                    *)
THEOREM ProbesAreToldTheTruth == ServiceSpec => []AnswersAreTrue
<1>1. ServiceInv => AnswersAreTrue
  <2> SUFFICES ASSUME ServiceInv, NEW c \in Probes, NEW i \in DOMAIN Plan[c]
               PROVE  /\ i < next[c] => (Plan[c][i] \in took[c] <=> i \in counted[c])
                      /\ i > next[c] => Plan[c][i] \notin took[c]
                      /\ probe[c] = "0" => Plan[c][i] \in took[c]
    BY DEF AnswersAreTrue
  <2>1. Counts(Plan[c], probe[c], next[c], counted[c], took[c])
    BY DEF ServiceInv, Talk
  <2>2. Plan[c] \in Seq(Sendable)
    BY Plans
  <2>3. probe[c] = "0" => i < next[c] /\ i \in counted[c]
    BY <2>1, <2>2 DEF Counts
  <2> QED
    BY <2>1, <2>3 DEF Counts
<1> QED
  BY <1>1, ServiceInvariance, PTL

(* While a probe is served, one of the two has something to read, or the     *)
(* connection is broken, or the probe has exited.                            *)
THEOREM NobodyWaitsForNobody == ServiceSpec => []SomeoneSpeaks
<1>1. ServiceInv => SomeoneSpeaks
  <2> SUFFICES ASSUME ServiceInv, serving \in Probes
               PROVE  \/ probe[serving] \in ExitCodes \/ line[serving] # "open"
                      \/ toServer[serving] # <<>> \/ toClient[serving] # <<>>
    BY DEF SomeoneSpeaks
  <2>1. line[serving] # "none" /\ Talk(serving)
    BY WhoIsWho DEF ServiceInv, Connected
  <2>2. probe[serving] \in {"start"} \cup Waiting \cup ExitCodes
    BY DEF ServiceInv, ServiceTypes
  <2> QED
    BY <2>1, <2>2 DEF Talk, Flows
<1> QED
  BY <1>1, ServiceInvariance, PTL

(* What a store holds is not accepted again, by whatever server is started   *)
(* on it, and a saved batch stays saved.                                     *)
THEOREM SavedOnceForAll == ServiceSpec => SavedIsFinal
<1>1. ServiceInv /\ [ServiceNext]_allVars =>
        [/\ \A c \in Clients : \A f \in took'[c] \ took[c] :
              f.batch \notin Range(store.accepted[f.source])
         /\ \A s \in Sources : IsPrefix(store.accepted[s], store'.accepted[s])]_allVars
  <2> SUFFICES ASSUME ServiceInv, ServiceNext
               PROVE  /\ \A c \in Clients : \A f \in took'[c] \ took[c] :
                           f.batch \notin Range(store.accepted[f.source])
                      /\ \A s \in Sources : IsPrefix(store.accepted[s], store'.accepted[s])
    OBVIOUS
  <2>0. /\ ServiceTypes /\ Fence(guards, accepted) /\ Fence(store.guards, store.accepted)
        /\ \A s \in Sources : IsPrefix(store.accepted[s], accepted[s])
    BY DEF ServiceInv, SavedIsPrefix
  <2>1. ASSUME NEW c \in Clients, NEW f \in took'[c] \ took[c]
        PROVE  f.batch \notin Range(store.accepted[f.source])
    <3>1. took' # took
      BY <2>1
    <3>2. HandleBatch
      BY <3>1 DEF ServiceNext, ServerStep, Accept, HandleHello, RefuseBatchFrame, HandleOther,
         HandleBye, ReadFails, Save, Restart, ProbeConnects, ProbeStep, ProbeHears, ProbeLoses,
         ProbeDies, PeerConnects, HangUp, Say, Cut
    <3> DEFINE frame == Head(toServer[serving])
    <3>3. /\ Heard("batch") /\ Admits(frame)
          /\ took' = [took EXCEPT ![serving] = @ \cup {frame}]
      BY <3>1, <3>2 DEF HandleBatch
    <3>4. f = frame
      BY <2>0, <2>1, <3>3 DEF ServiceTypes
    <3>5. f.source \in Sources /\ Verdict(f.source, f.batch, FALSE) = "accept"
      BY <3>3, <3>4 DEF Admits
    <3>6. f.batch \notin Accepted(f.source)
      BY <2>0, <3>5, FenceRefuses DEF RedeliveryFenced, Stale
    <3>7. /\ store.accepted[f.source] \in Seq(Batch) /\ accepted[f.source] \in Seq(Batch)
          /\ IsPrefix(store.accepted[f.source], accepted[f.source])
      BY <2>0, <3>5 DEF Fence
    <3>8. ASSUME NEW i \in DOMAIN store.accepted[f.source]
          PROVE  store.accepted[f.source][i] \in Accepted(f.source)
      <4>1. /\ i \in 1..Len(store.accepted[f.source])
            /\ Len(store.accepted[f.source]) <= Len(accepted[f.source])
            /\ store.accepted[f.source][i] = accepted[f.source][i]
        BY <3>7, PrefixElements
      <4>2. i \in DOMAIN accepted[f.source]
        BY <3>7, <4>1
      <4> QED
        BY <4>1, <4>2 DEF Accepted
    <3> QED
      BY <3>6, <3>8 DEF Range
  <2>2. ASSUME NEW s \in Sources PROVE IsPrefix(store.accepted[s], store'.accepted[s])
    <3>1. CASE Save
      BY <2>0, <3>1 DEF Save
    <3>2. CASE ~Save
      <4>1. store' = store
        BY <3>2 DEF ServiceNext, ServerStep, Accept, HandleHello, RefuseBatchFrame, HandleBatch,
           HandleOther, HandleBye, ReadFails, Restart, ProbeConnects, ProbeStep, ProbeHears,
           ProbeLoses, ProbeDies, PeerConnects, HangUp, Say, Cut, Connect, serverVars,
           Refuse, Answer, Finish, Fail
      <4>2. store.accepted[s] \in Seq(Batch)
        BY <2>0 DEF Fence
      <4> QED
        BY <4>1, <4>2, PrefixElements
    <3> QED
      BY <3>1, <3>2
  <2> QED
    BY <2>1, <2>2
<1> QED
  BY <1>1, ServiceInvariance, PTL DEF ServiceSpec, SavedIsFinal
=============================================================================

