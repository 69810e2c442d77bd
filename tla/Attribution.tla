---------------------------- MODULE Attribution ----------------------------
(***************************************************************************)
(* Timing per hop: build_attribution_request and attribute_hops of         *)
(* src/src/attribution.cpp.  A sample carries the readings its hops took,  *)
(* `arrived': a function from the hops that did to [domain, ticks].        *)
(***************************************************************************)
EXTENDS ClockModel, Metrics, Listings

CONSTANT Hops  (* the hops of the path                                      *)

(* The readings of a hop over a selection, in window order: fresh or not.    *)
Arrivals(selected, hop) ==
  LET timed == Filtered(selected, {x \in Range(selected) : hop \in DOMAIN x.arrived})
  IN [i \in DOMAIN timed |-> timed[i].arrived[hop]]

(* to_nanos *)
Nanos(arrivals) ==
  [i \in DOMAIN arrivals |-> arrivals[i].ticks * Rate(arrivals[i].domain)]

InNanos(arrivals) ==
  /\ HasRate(arrivals[1].domain)
  /\ \A i \in DOMAIN arrivals : Fits(Nanos(arrivals)[i])

(* What the outcome of the metric makes of a hop. *)
HopValue(result) ==
  CASE result.code = "ok" -> [state |-> "attributed", value |-> result.value]
    [] result.code = "insufficient_evidence" -> [state |-> "insufficient"]
    [] OTHER -> [state |-> "unsupported"]

(* Plausible fault: the clock of the hop is not compared with the series'.   *)
HopAnyClock(arrivals, clock, key, minArrivals, at) ==
  CASE arrivals = <<>> -> [state |-> "absent"]
    [] arrivals # <<>> /\ Len(arrivals) < minArrivals -> [state |-> "insufficient"]
    [] OTHER -> HopValue(Compute(key, Nanos(arrivals)))

(* The attribution of one hop. *)
HopAttribution(arrivals, clock, key, minArrivals, at) ==
  LET d == arrivals[1].domain
      mixed == \E i \in DOMAIN arrivals : arrivals[i].domain # d
  IN CASE arrivals = <<>> -> [state |-> "absent"]
       [] arrivals # <<>> /\ (mixed \/ Comparability(d, clock, at) # "comparable") ->
            [state |-> "unsupported"]
       [] OTHER ->
            IF Len(arrivals) < minArrivals THEN [state |-> "insufficient"]
            ELSE IF ~InNanos(arrivals) THEN [state |-> "unsupported"]
            ELSE HopValue(Compute(key, Nanos(arrivals)))

(* attribute_hops over the selection of a window: nothing without samples.   *)
Completeness(hops, current) ==
  [hops |-> hops,
   complete |-> Hops # {} /\ current /\ \A h \in Hops : hops[h].state = "attributed"]

Attribution(selected, clock, key, minArrivals, current, at) ==
  Completeness([h \in Hops |->
                  HopAttribution(Arrivals(selected, h), clock, key, minArrivals, at)],
               current)
=============================================================================
