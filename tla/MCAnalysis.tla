----------------------------- MODULE MCAnalysis -----------------------------
(* Integers of five bits; a nanosecond clock, one of two nanoseconds to the  *)
(* tick, and a counter of no rate; observations made in one order and        *)
(* received in any.                                                          *)
EXTENDS Analysis, TLC
CONSTANTS fine, coarse, counter, h1, h2
MCUnit(d) == IF d = coarse THEN "us" ELSE IF d = counter THEN "counter" ELSE "ns"
MCUnitOf == [d \in Domains |-> MCUnit(d)]
MCNanosPer == [ns |-> 1, us |-> 2, counter |-> 0]
Equal(a, b, until) ==
  [a |-> a, b |-> b, offset |-> 1, authority |-> 2, justified |-> TRUE, until |-> until]
MCOffers == {Equal(fine, Local, 2), Equal(Local, coarse, Forever)}
MCFreshnesses ==
  {[max_ingest |-> 1, expiry_ingest |-> 1, max_observation |-> 2, expiry_observation |-> 3,
    future |-> 1, require_observation |-> r] : r \in BOOLEAN}
MCWindows ==
  {[kind |-> "count", capacity |-> 3, count |-> 2],
   [kind |-> "time", capacity |-> 3, duration |-> 4],
   [kind |-> "tumbling", capacity |-> 2, duration |-> 2, anchor |-> 0]}
MCPolicy ==
  [min_terms |-> 1, min_fresh |-> 2, max_conflicts |-> 0, require_all |-> FALSE,
   rules |-> <<[metric |-> "AbsoluteDeltaMax", direction |-> "at_least",
                elevated_at |-> 2, unstable_at |-> 6],
               [metric |-> "SampleStdDev", direction |-> "at_least",
                elevated_at |-> 2, unstable_at |-> 6]>>]
MCMinLatency == -6
Made(d, sequence, observed, received, latency, arrived) ==
  [clock |-> d, origin |-> "synthetic", sequence |-> sequence, observed |-> observed,
   received |-> received, latency |-> latency, arrived |-> arrived]
At(domain, ticks) == [domain |-> domain, ticks |-> ticks]
First(d) == Made(d, 1, -1, 3, 1, h1 :> At(Local, 0))
Second(d) == Made(d, 2, 3, 3, 4, (h1 :> At(Local, 5)) @@ (h2 :> At(coarse, 1)))
Third(d) == Made(d, 3, 2, 2, 3, (h1 :> At(Local, 3)) @@ (h2 :> At(coarse, 3)))
Fourth(d) == Made(d, 4, -15, 3, -6, (h1 :> At(fine, 1)) @@ (h2 :> At(coarse, 9)))
OfSynthetic(samples) ==
  [samples |-> samples, clock |-> samples[1].clock, origin |-> "synthetic", claims |-> "registered"]
Good(d) == {OfSynthetic(<<First(d)>>), OfSynthetic(<<Third(d), Second(d)>>),
            OfSynthetic(<<Third(d)>>), OfSynthetic(<<Fourth(d)>>)}
(* Too slow, of unknown origin, claiming to be real, of another authority,   *)
(* of two clocks, too many.                                                  *)
Bad(d) ==
  LET b == OfSynthetic(<<First(d)>>) x == First(d) IN
  {[b EXCEPT !.samples[1].latency = MaxLatency + 1],
   [b EXCEPT !.samples[1].origin = "unknown"],
   [b EXCEPT !.samples[1].origin = "real", !.origin = "real"],
   [b EXCEPT !.claims = "another"],
   OfSynthetic(<<x, [x EXCEPT !.clock = counter]>>),
   OfSynthetic(<<x, x, x>>)}
MCBatches == UNION {Good(d) \cup Bad(d) : d \in Domains}
=============================================================================
