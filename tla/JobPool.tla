------------------------------- MODULE JobPool -------------------------------
(***************************************************************************)
(* What the worker runtime of src/include/jitter/runtime.hpp promises its  *)
(* clients, without threads, locks and condition variables: jobs are       *)
(* numbered as they are accepted, wait in a bounded line, start in that    *)
(* order, each once, and end; the oldest may make room for a new one, and  *)
(* all that wait may be given up at once.                                  *)
(***************************************************************************)
EXTENDS Integers, Sequences

CONSTANT Capacity  (* jobs that may wait, one at least                      *)

VARIABLES
  accepted,  (* how many jobs have been accepted                           *)
  pending,   (* those that wait, oldest first                              *)
  busy       (* those that have started and not ended                      *)

poolVars == <<accepted, pending, busy>>

Init == accepted = 0 /\ pending = <<>> /\ busy = {}

Accept ==
  /\ Len(pending) < Capacity
  /\ accepted' = accepted + 1 /\ pending' = Append(pending, accepted + 1)
  /\ UNCHANGED busy

AcceptForOldest ==
  /\ Len(pending) = Capacity
  /\ accepted' = accepted + 1 /\ pending' = Append(Tail(pending), accepted + 1)
  /\ UNCHANGED busy

StartOldest ==
  /\ pending # <<>>
  /\ busy' = busy \cup {Head(pending)} /\ pending' = Tail(pending)
  /\ UNCHANGED accepted

End ==
  /\ \E job \in busy : busy' = busy \ {job}
  /\ UNCHANGED <<accepted, pending>>

GiveUp == pending' = <<>> /\ UNCHANGED <<accepted, busy>>

Next == Accept \/ AcceptForOldest \/ StartOldest \/ End \/ GiveUp

Spec == Init /\ [][Next]_poolVars
=============================================================================
