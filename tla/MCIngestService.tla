-------------------------- MODULE MCIngestService --------------------------
(* A probe with two batches, a run that repeats them and has one more, which *)
(* is over the budget of a connection, and a peer that sends what it likes:  *)
(* another content for the second position, and a batch of a source nobody   *)
(* registered.                                                               *)
EXTENDS IngestService, TLC
CONSTANTS p1, p2, peer, s1, s2, x, y
MCPositions == [incarnation : {1}, epoch : {0}, sequence : 1..3]
At1(source, sequence, content) ==
  [type |-> "batch", source |-> source,
   batch |-> [position |-> [incarnation |-> 1, epoch |-> 0, sequence |-> sequence],
              content |-> content]]
MCPlan ==
  (p1 :> <<At1(s1, 1, x), At1(s1, 2, x)>>) @@ (p2 :> <<At1(s1, 1, x), At1(s1, 2, x), At1(s1, 3, x)>>)
MCFrames ==
  {[type |-> t] : t \in {"hello", "hello_other", "refused", "damaged"}}
    \cup {At1(s1, 2, y), At1(s2, 1, x)}
=============================================================================
