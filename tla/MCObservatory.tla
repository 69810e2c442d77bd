--------------------------- MODULE MCObservatory ---------------------------
(* Two paths: one with a series, whose routes change, and one without.  One  *)
(* source, whose batches are numbered within one incarnation and epoch.      *)
EXTENDS Observatory, TLC
CONSTANTS Elsewhere, Bypass   (* the path without series, and its route      *)
Symmetry == Permutations(Topologies \ {Bypass})
MCPathOf == [s \in Series |-> CHOOSE p \in Paths : p # Elsewhere]
MCRoutes == [p \in Paths |-> IF p = Elsewhere THEN {Bypass} ELSE Topologies \ {Bypass}]
MCPositions == [incarnation : {1}, epoch : {0}, sequence : 1..2]
MCContents == [series : Series, ordinal : 1..MaxOrdinal, stamp : 0..MaxTime]
=============================================================================
