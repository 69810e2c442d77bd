---------------------------- MODULE SampleWindow ----------------------------
(***************************************************************************)
(* The bounded window of one series and generation, and the selection a    *)
(* policy makes from it: src/src/window.cpp.  The counters a window keeps  *)
(* for reports are left out.                                               *)
(***************************************************************************)
EXTENDS Checked, Listings

CONSTANTS
  MaxSpan,   (* Limits::kMaxWindowDurationNs                               *)
  NoTick     (* has_newest_ is false                                       *)

ASSUME WindowAssumption == MaxSpan \in 0..MaxInt

(* validate_window_policy *)
ValidWindow(w) ==
  /\ w.kind \in {"count", "time", "tumbling"} /\ w.capacity \in Nat \ {0}
  /\ w.kind = "count" => w.count \in 1..w.capacity
  /\ w.kind # "count" => w.duration \in 1..MaxSpan

NewWindow == [samples |-> <<>>, newest |-> NoTick]

(* Plausible fault: a late sample does not enter the window. *)
AddedInOrderOnly(win, x, w) ==
  IF x \in Range(win.samples) \/ (win.newest # NoTick /\ x.observed < win.newest)
  THEN win
  ELSE LET all == Append(win.samples, x) IN
       [samples |-> IF Len(all) > w.capacity THEN Tail(all) ELSE all,
        newest |-> x.observed]

(* add: a sample already retained is ignored, a late one is accepted, the    *)
(* earliest arrival makes room.                                              *)
AddSample(win, x, w) ==
  LET all == Append(win.samples, x)
      late == win.newest # NoTick /\ x.observed < win.newest
  IN IF x \in Range(win.samples) THEN win
     ELSE [samples |-> IF Len(all) > w.capacity THEN Tail(all) ELSE all,
           newest |-> IF late THEN win.newest ELSE x.observed]

(* store_samples: a batch enters the window in the order it states.          *)
Filled(win, batch, w) ==
  LET after[i \in 0..Len(batch)] ==
        IF i = 0 THEN win ELSE AddSample(after[i - 1], batch[i], w)
  IN after[Len(batch)]

(* sample_less; the identity that breaks the last tie is a digest, here the  *)
(* latency and then the receipt.                                             *)
SampleLess(x, y) ==
  LET Key(z) == <<z.observed, z.sequence, z.latency, z.received>> IN
  \E i \in 1..4 : /\ Key(x)[i] < Key(y)[i]
                  /\ \A j \in 1..(i - 1) : Key(x)[j] = Key(y)[j]

(* Sorting by sample_less; a window holds no sample twice.                   *)
Canonical(S) == Listing(S, {q \in S \X S : SampleLess(q[1], q[2])})
Ordered(win) == Canonical(Range(win.samples))

(* The bucket of a tick counted from the anchor. *)
Bucket(tick, w) == (tick - w.anchor) - ((tick - w.anchor) % w.duration)
InReach(tick, w) == tick >= w.anchor /\ tick - w.anchor <= MaxSpan

(* Plausible fault: the oldest samples are kept. *)
SelectOldest(win, w) ==
  LET all == Ordered(win) IN
  IF w.kind = "count" /\ Len(all) > w.count THEN SubSeq(all, 1, w.count) ELSE all

(* select: what belongs to the window, in canonical order.  A tumbling       *)
(* window whose newest sample lies before the anchor or far behind it falls  *)
(* back to the samples within one duration; the difference from the newest   *)
(* is not checked.                                                           *)
Select(win, w) ==
  LET all == Ordered(win)
      newest == all[Len(all)].observed
      Near == {x \in Range(all) : Wrapped(newest - x.observed) <= w.duration}
      SameBucket == {x \in Range(all) : /\ InReach(x.observed, w)
                                        /\ Bucket(x.observed, w) = Bucket(newest, w)}
  IN CASE all = <<>> -> <<>>
       [] all # <<>> /\ w.kind = "count" ->
            IF Len(all) > w.count THEN SubSeq(all, Len(all) - w.count + 1, Len(all)) ELSE all
       [] all # <<>> /\ w.kind = "time" -> Filtered(all, Near)
       [] all # <<>> /\ w.kind = "tumbling" ->
            IF InReach(newest, w) THEN Filtered(all, SameBucket) ELSE Filtered(all, Near)
=============================================================================
