-------------------------- MODULE MCEngineRestart --------------------------
(* A source that boots twice: two batches for the first route, and one for   *)
(* the second.                                                               *)
EXTENDS EngineRestart
B(incarnation, sequence, ordinal, observed) ==
  [position |-> [incarnation |-> incarnation, epoch |-> 0, sequence |-> sequence],
   ordinal |-> ordinal, observed |-> observed]
MCBatches == {B(1, 2, 1, 1), B(2, 1, 1, 2), B(2, 2, 2, 3)}
MCContents == {"batch", "sample"} \X MCBatches
=============================================================================
