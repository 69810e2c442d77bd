----------------------------- MODULE MCRuntime -----------------------------
(* Small instances of Runtime: two workers, two clients, a queue of one or   *)
(* two jobs, one restart.                                                    *)
EXTENDS Runtime, TLC
Symmetry == Permutations(Workers) \cup Permutations(Clients)
=============================================================================
