------------------------------ MODULE Listings ------------------------------
(* Finite sets written down in order, parts of sequences, and what an order *)
(* or a sum makes of them.                                                  *)
EXTENDS Integers, FiniteSets, SequencesExt

(* The elements of S, each once, in the order R, a set of pairs.             *)
Listing(S, R) ==
  [i \in 1..Cardinality(S) |->
     CHOOSE x \in S : Cardinality({y \in S : <<y, x>> \in R}) = i - 1]

Increasing(I) == Listing(I, {q \in I \X I : q[1] < q[2]})

(* What is left of s without the elements outside T. *)
Filtered(s, T) ==
  LET kept == Increasing({i \in DOMAIN s : s[i] \in T})
  IN [k \in DOMAIN kept |-> s[kept[k]]]

(* The numbers of s from the least to the greatest; of equals the earlier    *)
(* comes first.                                                              *)
Sooner(s) ==
  {q \in (DOMAIN s) \X (DOMAIN s) : s[q[1]] < s[q[2]] \/ (s[q[1]] = s[q[2]] /\ q[1] < q[2])}

Sorted(s) ==
  LET places == Listing(DOMAIN s, Sooner(s)) IN [k \in DOMAIN places |-> s[places[k]]]

Sum(s) ==
  LET sum[i \in 0..Len(s)] == IF i = 0 THEN 0 ELSE sum[i - 1] + s[i] IN sum[Len(s)]
=============================================================================
