--------------------------- MODULE RuntimeProofs ---------------------------
(***************************************************************************)
(* Proofs about Runtime, for every set of workers and clients, every queue *)
(* capacity, both backpressure policies and every bound: what the threads  *)
(* keep true, and that they implement the plain pool of JobPool.           *)
(***************************************************************************)
EXTENDS Runtime, FiniteSetTheorems, TLAPS

(* Where the owner is decides what the workers and the queue can be.         *)
Phases ==
  /\ opc # "idle" => running /\ stopping
  /\ opc = "idle" /\ running => ~stopping
  /\ ~running \/ opc = "joined" =>
       queue = <<>> /\ \A w \in Workers : wpc[w] = "down"
  /\ running /\ opc # "joined" => \A w \in Workers : wpc[w] # "down"
  /\ \A w \in Workers : wpc[w] = "exited" => stopping /\ queue = <<>>

(* The inductive invariant. *)
IInv == TypeOK /\ JobsConserved /\ Phases

----------------------------------------------------------------------------
(* Holders: the workers counted by in_flight_.                               *)

(* There are finitely many of them, none exactly when their count is zero.   *)
LEMMA HoldersFinite ==
  /\ IsFiniteSet(Holders)
  /\ Cardinality(Holders) \in Nat
  /\ Cardinality(Holders) = 0 <=> Holders = {}
<1>1. Holders \subseteq Workers
  BY DEF Holders
<1>2. IsFiniteSet(Holders)
  BY <1>1, FS_Subset, RuntimeAssumption DEF RuntimeAssumption
<1> QED
  BY <1>2, FS_CardinalityType, FS_EmptySet

(* A worker that takes an item becomes a holder. *)
LEMMA HolderAdded ==
  ASSUME NEW w \in Workers, NEW pc \in Busy, wpc \in [Workers -> WorkerPC],
         wpc[w] \notin Busy, wpc' = [wpc EXCEPT ![w] = pc]
  PROVE  Cardinality(Holders') = Cardinality(Holders) + 1
<1>1. Holders' = Holders \cup {w} /\ w \notin Holders
  BY DEF Holders
<1> QED
  BY <1>1, HoldersFinite, FS_AddElement

(* A worker that counted its item completed is no longer one. *)
LEMMA HolderRemoved ==
  ASSUME NEW w \in Workers, NEW pc, pc \notin Busy, wpc \in [Workers -> WorkerPC],
         wpc[w] \in Busy, wpc' = [wpc EXCEPT ![w] = pc]
  PROVE  /\ Cardinality(Holders') = Cardinality(Holders) - 1
         /\ Cardinality(Holders) > 0
<1>1. Holders' = Holders \ {w} /\ w \in Holders
  BY DEF Holders
<1>2. Cardinality(Holders) \in Nat /\ Cardinality(Holders) # 0
  BY <1>1, HoldersFinite
<1>3. Cardinality(Holders \ {w}) = Cardinality(Holders) - 1
  BY <1>1, HoldersFinite, FS_RemoveElement
<1> QED
  BY <1>1, <1>2, <1>3

(* Every other step leaves each worker on its side. *)
LEMMA HoldersKept ==
  ASSUME \A w \in Workers : wpc'[w] \in Busy <=> wpc[w] \in Busy
  PROVE  Holders' = Holders
  BY DEF Holders

----------------------------------------------------------------------------
(* The invariant holds initially. *)
LEMMA InitIInv == Init => IInv
<1> SUFFICES ASSUME Init PROVE IInv
  OBVIOUS
<1>0. queue \in Seq(Nat \ {0})
  BY DEF Init
<1>1. TypeOK
  BY <1>0 DEF Init, TypeOK, Stats, WorkerPC, ClientPC, OwnerPC
<1>2. Phases
  BY DEF Init, Phases
<1>3. Holders = {}
  BY DEF Init, Holders, Busy
<1>4. JobsConserved
  BY <1>3, FS_EmptySet DEF Init, JobsConserved
<1> QED
  BY <1>1, <1>2, <1>4 DEF IInv

----------------------------------------------------------------------------
(* Type correctness.  The only step that could leave the natural numbers is  *)
(* the decrement of in_flight_, and a worker that takes it is a holder.      *)

(* Every counter of stats_ is a natural number, and setting one to a natural *)
(* number keeps it so.                                                       *)
LEMMA StatsCounters ==
  ASSUME stats \in Stats
  PROVE  /\ stats.submitted \in Nat /\ stats.completed \in Nat
         /\ stats.failed \in Nat /\ stats.cancelled \in Nat
         /\ stats.rejected_backpressure \in Nat
         /\ stats.rejected_after_shutdown \in Nat
         /\ stats.dropped_oldest \in Nat /\ stats.peak_queue_depth \in Nat
  BY DEF Stats

(* The counters together. *)
LEMMA StatsUpdated ==
  ASSUME stats \in Stats, NEW n \in Nat,
         \/ stats' = [stats EXCEPT !.completed = n]
         \/ stats' = [stats EXCEPT !.failed = n]
         \/ stats' = [stats EXCEPT !.cancelled = n]
         \/ stats' = [stats EXCEPT !.rejected_backpressure = n]
         \/ stats' = [stats EXCEPT !.rejected_after_shutdown = n]
  PROVE  stats' \in Stats
  BY DEF Stats

(* The worker loop respects the types. *)
LEMMA WorkerType ==
  ASSUME IInv, NEW w \in Workers, WorkerStep(w) \/ SpuriousWake(w)
  PROVE  TypeOK'
<1>0. TypeOK /\ stats \in Stats
  BY DEF IInv, TypeOK
<1>1. CASE Wait(w) \/ SpuriousWake(w) \/ RunJob(w) \/ JobReturns(w) \/ Exit(w)
  BY <1>0, <1>1 DEF TypeOK, WorkerPC, ClientPC, WakeDrainers,
                    Wait, SpuriousWake, RunJob, JobReturns, Exit
<1>2. CASE Take(w)
  <2>1. Head(queue) \in Nat /\ Tail(queue) \in Seq(Nat \ {0})
    BY <1>0, <1>2 DEF Take, TypeOK
  <2> QED
    BY <1>0, <1>2, <2>1 DEF Take, TypeOK, WorkerPC
<1>3. CASE SkipLoad(w)
  BY <1>0, <1>3, StatsCounters DEF SkipLoad, TypeOK, WorkerPC
<1>4. CASE SkipStore(w)
  <2>1. stats' \in Stats
    <3>1. stats' = [stats EXCEPT !.cancelled = seen[w] + 1]
      BY <1>4 DEF SkipStore
    <3>2. seen[w] + 1 \in Nat
      BY <1>0 DEF TypeOK
    <3> QED
      BY <1>0, <3>1, <3>2, StatsUpdated
  <2> QED
    BY <1>0, <1>4, <2>1 DEF SkipStore, TypeOK, WorkerPC
<1>5. CASE CountFailed(w)
  <2>1. stats' \in Stats
    <3>1. stats' = [stats EXCEPT !.failed = stats.failed + 1]
      BY <1>5 DEF CountFailed
    <3>2. stats.failed + 1 \in Nat
      BY <1>0, StatsCounters
    <3> QED
      BY <1>0, <3>1, <3>2, StatsUpdated
  <2> QED
    BY <1>0, <1>5, <2>1 DEF CountFailed, TypeOK, WorkerPC
<1>6. CASE Finish(w)
  <2>1. w \in Holders
    BY <1>6 DEF Finish, Holders, Busy
  <2>2. inFlight - 1 \in Nat
    BY <2>1, HoldersFinite DEF IInv, JobsConserved
  <2>3. stats' \in Stats
    <3>1. stats' = [stats EXCEPT !.completed = stats.completed + 1]
      BY <1>6 DEF Finish
    <3>2. stats.completed + 1 \in Nat
      BY <1>0, StatsCounters
    <3> QED
      BY <1>0, <3>1, <3>2, StatsUpdated
  <2>4. cpc' \in [Clients -> ClientPC]
    BY <1>0, <1>6 DEF Finish, WakeDrainers, TypeOK, ClientPC
  <2> QED
    BY <1>0, <1>6, <2>2, <2>3, <2>4 DEF Finish, TypeOK, WorkerPC
<1> QED
  BY <1>1, <1>2, <1>3, <1>4, <1>5, <1>6 DEF WorkerStep

(* So do submit, drain and cancel. *)
LEMMA ClientType ==
  ASSUME IInv, NEW c \in Clients, ClientStep(c)
  PROVE  TypeOK'
<1>0. TypeOK /\ stats \in Stats
  BY DEF IInv, TypeOK
<1>1. CASE RefuseStopped(c)
  <2>1. stats' \in Stats
    <3>1. stats' = [stats EXCEPT !.rejected_after_shutdown = stats.rejected_after_shutdown + 1]
      BY <1>1 DEF RefuseStopped
    <3>2. stats.rejected_after_shutdown + 1 \in Nat
      BY <1>0, StatsCounters
    <3> QED
      BY <1>0, <3>1, <3>2, StatsUpdated
  <2> QED
    BY <1>0, <1>1, <2>1 DEF RefuseStopped, TypeOK
<1>2. CASE RefuseFull(c)
  <2>1. stats' \in Stats
    <3>1. stats' = [stats EXCEPT !.rejected_backpressure = stats.rejected_backpressure + 1]
      BY <1>2 DEF RefuseFull
    <3>2. stats.rejected_backpressure + 1 \in Nat
      BY <1>0, StatsCounters
    <3> QED
      BY <1>0, <3>1, <3>2, StatsUpdated
  <2> QED
    BY <1>0, <1>2, <2>1 DEF RefuseFull, TypeOK
<1>3. CASE Submit(c)
  <2> DEFINE q == Enqueued(Len(queue) >= Capacity)
  <2>1. q \in Seq(Nat \ {0})
    <3>1. stats.submitted + 1 \in Nat \ {0}
      BY <1>0, StatsCounters
    <3>2. Len(queue) >= Capacity => Tail(queue) \in Seq(Nat \ {0})
      BY <1>0, RuntimeAssumption DEF RuntimeAssumption, TypeOK
    <3> QED
      BY <1>0, <3>1, <3>2 DEF Enqueued, TypeOK
  <2>2. Larger(stats.peak_queue_depth, Len(q)) \in Nat
    BY <1>0, <2>1, StatsCounters DEF Larger
  <2>3. stats' \in Stats
    <3>1. stats' = [stats EXCEPT
                      !.submitted = stats.submitted + 1,
                      !.dropped_oldest = IF Len(queue) >= Capacity
                                           THEN stats.dropped_oldest + 1
                                           ELSE stats.dropped_oldest,
                      !.peak_queue_depth = Larger(stats.peak_queue_depth, Len(q))]
      BY <1>3 DEF Submit
    <3>2. /\ stats.submitted + 1 \in Nat
          /\ stats.dropped_oldest \in Nat /\ stats.dropped_oldest + 1 \in Nat
      BY <1>0, StatsCounters
    <3> QED
      BY <1>0, <2>2, <3>1, <3>2 DEF Stats
  <2> QED
    BY <1>0, <1>3, <2>1, <2>3 DEF Submit, TypeOK, ClientPC
<1>4. CASE NotifyOne(c)
  BY <1>0, <1>4 DEF NotifyOne, Waiting, TypeOK, ClientPC, WorkerPC
<1>5. CASE Drain(c) \/ DrainAgain(c) \/ Cancel(c)
  BY <1>0, <1>5 DEF Drain, DrainAgain, Cancel, TypeOK, ClientPC
<1> QED
  BY <1>1, <1>2, <1>3, <1>4, <1>5 DEF ClientStep

(* So do start and shutdown. *)
LEMMA OwnerType ==
  ASSUME IInv, OwnerStep
  PROVE  TypeOK'
<1>0. TypeOK /\ stats \in Stats
  BY DEF IInv, TypeOK
<1>1. CASE Start
  <2>1. starts' \in Nat
    BY <1>0, <1>1 DEF Start, TypeOK
  <2>2. wpc' \in [Workers -> WorkerPC]
    BY <1>1 DEF Start, WorkerPC
  <2>3. stopping' \in BOOLEAN /\ running' \in BOOLEAN
    BY <1>1 DEF Start
  <2> QED
    BY <1>0, <1>1, <2>1, <2>2, <2>3 DEF Start, TypeOK
<1>2. ASSUME NEW discard \in BOOLEAN, Shutdown(discard)
      PROVE  TypeOK'
  <2>1. Len(queue) \in Nat /\ <<>> \in Seq(Nat \ {0})
    BY <1>0 DEF TypeOK
  <2>2. stats' \in Stats
    <3>1. stats.cancelled + Len(queue) \in Nat
      BY <1>0, <2>1, StatsCounters
    <3> QED
      BY <1>0, <1>2, <3>1, StatsUpdated DEF Shutdown
  <2>3. queue' \in Seq(Nat \ {0}) /\ discarded' \in Nat
    <3>1. discarded + Len(queue) \in Nat
      BY <1>0, <2>1 DEF TypeOK
    <3> QED
      BY <1>0, <1>2, <2>1, <3>1 DEF Shutdown, TypeOK
  <2> QED
    BY <1>0, <1>2, <2>2, <2>3 DEF Shutdown, TypeOK, OwnerPC
<1>3. CASE NotifyAll
  BY <1>0, <1>3 DEF NotifyAll, TypeOK, WorkerPC, OwnerPC
<1>4. CASE Join
  BY <1>0, <1>4 DEF Join, TypeOK, WorkerPC, OwnerPC
<1>5. CASE Stopped
  BY <1>0, <1>5 DEF Stopped, TypeOK, OwnerPC
<1> QED
  BY <1>1, <1>2, <1>3, <1>4, <1>5 DEF OwnerStep

(* Every step respects the types. *)
LEMMA TypeStep == IInv /\ [Next]_vars => TypeOK'
<1> SUFFICES ASSUME IInv, [Next]_vars PROVE TypeOK'
  OBVIOUS
<1>1. CASE UNCHANGED vars
  BY <1>1 DEF vars, IInv, TypeOK
<1> QED
  BY <1>1, WorkerType, ClientType, OwnerType DEF Next
----------------------------------------------------------------------------
(* Job conservation.  The total depends on three counters, on the length of  *)
(* the queue and on in_flight_; the other counters do not matter.            *)

(* The worker loop conserves jobs. *)
LEMMA WorkerJobs ==
  ASSUME IInv, NEW w \in Workers, WorkerStep(w) \/ SpuriousWake(w)
  PROVE  JobsConserved'
<1>0. TypeOK /\ JobsConserved /\ stats \in Stats /\ wpc \in [Workers -> WorkerPC]
  BY DEF IInv, TypeOK
<1>1. CASE Wait(w) \/ SpuriousWake(w) \/ Exit(w)
  <2>1. Holders' = Holders
    BY <1>0, <1>1 DEF Wait, SpuriousWake, Exit, Holders, Busy
  <2> QED
    BY <1>0, <1>1, <2>1 DEF Wait, SpuriousWake, Exit, JobsConserved
<1>2. CASE RunJob(w) \/ JobReturns(w) \/ SkipLoad(w)
  <2>1. Holders' = Holders
    BY <1>0, <1>2 DEF RunJob, JobReturns, SkipLoad, Holders, Busy
  <2> QED
    BY <1>0, <1>2, <2>1 DEF RunJob, JobReturns, SkipLoad, JobsConserved
<1>3. CASE SkipStore(w) \/ CountFailed(w)
  <2>1. Holders' = Holders
    BY <1>0, <1>3 DEF SkipStore, CountFailed, Holders, Busy
  <2>2. /\ stats'.submitted = stats.submitted /\ stats'.completed = stats.completed
        /\ stats'.dropped_oldest = stats.dropped_oldest
    BY <1>0, <1>3 DEF SkipStore, CountFailed, Stats
  <2> QED
    BY <1>0, <1>3, <2>1, <2>2 DEF SkipStore, CountFailed, JobsConserved
<1>4. CASE Take(w)
  <2>1. Cardinality(Holders') = Cardinality(Holders) + 1
    <3>1. wpc[w] \notin Busy /\ "check" \in Busy /\ wpc' = [wpc EXCEPT ![w] = "check"]
      BY <1>4 DEF Take, Busy
    <3> QED
      BY <1>0, <3>1, HolderAdded
  <2>2. Len(queue') = Len(queue) - 1 /\ Len(queue) \in Nat
    BY <1>0, <1>4 DEF Take, TypeOK
  <2>3. stats' = stats /\ discarded' = discarded /\ inFlight' = inFlight + 1
    BY <1>4 DEF Take
  <2>4. /\ stats.submitted \in Nat /\ stats.completed \in Nat
        /\ stats.dropped_oldest \in Nat /\ discarded \in Nat /\ inFlight \in Nat
    BY <1>0, StatsCounters DEF TypeOK
  <2>5. inFlight' = Cardinality(Holders')
    BY <1>0, <2>1, <2>3 DEF JobsConserved
  <2>6. stats.submitted = stats.completed + stats.dropped_oldest + discarded
                            + Len(queue) + inFlight
    BY <1>0 DEF JobsConserved
  <2>7. stats.submitted = stats.completed + stats.dropped_oldest + discarded
                            + (Len(queue) - 1) + (inFlight + 1)
    <3> DEFINE accepted == stats.submitted
               finished == stats.completed
               evicted == stats.dropped_oldest
               queued == Len(queue)
    <3>1. /\ accepted \in Nat /\ finished \in Nat /\ evicted \in Nat /\ queued \in Nat
          /\ accepted = finished + evicted + discarded + queued + inFlight
      BY <2>2, <2>4, <2>6
    <3>2. accepted = finished + evicted + discarded + (queued - 1) + (inFlight + 1)
      <4> HIDE DEF accepted, finished, evicted, queued
      <4> QED
        BY <2>4, <3>1
    <3> QED
      BY <3>2
  <2> QED
    BY <2>2, <2>3, <2>5, <2>7 DEF JobsConserved
<1>5. CASE Finish(w)
  <2>1. Cardinality(Holders') = Cardinality(Holders) - 1
    <3>1. wpc[w] \in Busy /\ "top" \notin Busy /\ wpc' = [wpc EXCEPT ![w] = "top"]
      BY <1>5 DEF Finish, Busy
    <3> QED
      BY <1>0, <3>1, HolderRemoved
  <2>2. stats' = [stats EXCEPT !.completed = stats.completed + 1]
    BY <1>5 DEF Finish
  <2>3. /\ stats'.submitted = stats.submitted /\ stats'.completed = stats.completed + 1
        /\ stats'.dropped_oldest = stats.dropped_oldest
    BY <1>0, <2>2 DEF Stats
  <2>4. queue' = queue /\ discarded' = discarded /\ inFlight' = inFlight - 1
    BY <1>5 DEF Finish
  <2>5. Len(queue) \in Nat
    BY <1>0 DEF TypeOK
  <2>6. /\ stats.submitted \in Nat /\ stats.completed \in Nat
        /\ stats.dropped_oldest \in Nat /\ discarded \in Nat /\ inFlight \in Nat
    BY <1>0, StatsCounters DEF TypeOK
  <2>7. inFlight' = Cardinality(Holders')
    BY <1>0, <2>1, <2>4 DEF JobsConserved
  <2>8. stats.submitted = stats.completed + 1 + stats.dropped_oldest + discarded
                            + Len(queue) + (inFlight - 1)
    <3> DEFINE accepted == stats.submitted
               finished == stats.completed
               evicted == stats.dropped_oldest
               queued == Len(queue)
    <3>1. /\ accepted \in Nat /\ finished \in Nat /\ evicted \in Nat /\ queued \in Nat
          /\ accepted = finished + evicted + discarded + queued + inFlight
      BY <1>0, <2>5, <2>6 DEF JobsConserved
    <3>2. accepted = finished + 1 + evicted + discarded + queued + (inFlight - 1)
      <4> HIDE DEF accepted, finished, evicted, queued
      <4> QED
        BY <2>6, <3>1
    <3> QED
      BY <3>2
  <2> QED
    BY <2>3, <2>4, <2>7, <2>8 DEF JobsConserved
<1> QED
  BY <1>1, <1>2, <1>3, <1>4, <1>5 DEF WorkerStep

(* So do submit, drain and cancel. *)
LEMMA ClientJobs ==
  ASSUME IInv, NEW c \in Clients, ClientStep(c)
  PROVE  JobsConserved'
<1>0. TypeOK /\ JobsConserved /\ stats \in Stats /\ wpc \in [Workers -> WorkerPC]
  BY DEF IInv, TypeOK
<1>1. CASE RefuseStopped(c) \/ RefuseFull(c)
  <2>1. Holders' = Holders
    BY <1>1 DEF RefuseStopped, RefuseFull, Holders
  <2>2. /\ stats'.submitted = stats.submitted /\ stats'.completed = stats.completed
        /\ stats'.dropped_oldest = stats.dropped_oldest
    BY <1>0, <1>1 DEF RefuseStopped, RefuseFull, Stats
  <2> QED
    BY <1>0, <1>1, <2>1, <2>2 DEF RefuseStopped, RefuseFull, JobsConserved
<1>2. CASE Submit(c)
  <2> DEFINE full == Len(queue) >= Capacity
  <2>1. Holders' = Holders /\ discarded' = discarded /\ inFlight' = inFlight
    BY <1>2 DEF Submit, Holders
  <2>2. Len(queue) \in Nat /\ Len(queue') = (IF full THEN Len(queue) ELSE Len(queue) + 1)
    <3>1. queue' = Append(IF full THEN Tail(queue) ELSE queue, stats.submitted + 1)
      BY <1>2 DEF Submit, Enqueued
    <3>2. queue \in Seq(Nat \ {0}) /\ Capacity \in Nat \ {0}
      BY <1>0, RuntimeAssumption DEF RuntimeAssumption, TypeOK
    <3>3. stats.submitted + 1 \in Nat \ {0}
      BY <1>0, StatsCounters
    <3>4. CASE full
      <4>1. Tail(queue) \in Seq(Nat \ {0}) /\ Len(Tail(queue)) = Len(queue) - 1
        BY <3>2, <3>4
      <4> QED
        BY <3>1, <3>2, <3>3, <3>4, <4>1
    <3>5. CASE ~full
      BY <3>1, <3>2, <3>3, <3>5
    <3> QED
      BY <3>4, <3>5
  <2>3. /\ stats'.submitted = stats.submitted + 1
        /\ stats'.completed = stats.completed
        /\ stats'.dropped_oldest = (IF full THEN stats.dropped_oldest + 1
                                           ELSE stats.dropped_oldest)
    BY <1>0, <1>2 DEF Submit, Stats
  <2>4. /\ stats.submitted \in Nat /\ stats.completed \in Nat
        /\ stats.dropped_oldest \in Nat /\ discarded \in Nat /\ inFlight \in Nat
    BY <1>0, StatsCounters DEF TypeOK
  <2>5. stats.submitted = stats.completed + stats.dropped_oldest + discarded
                            + Len(queue) + inFlight
    BY <1>0 DEF JobsConserved
  <2>6. stats.submitted + 1 = stats.completed + stats'.dropped_oldest + discarded
                                + Len(queue') + inFlight
    <3> HIDE DEF full
    <3>1. CASE full
      <4>1. /\ stats'.dropped_oldest = stats.dropped_oldest + 1
            /\ Len(queue') = Len(queue)
        BY <2>2, <2>3, <3>1
      <4>2. stats.submitted + 1 = stats.completed + (stats.dropped_oldest + 1) + discarded
                                    + Len(queue) + inFlight
        <5> DEFINE accepted == stats.submitted
                   finished == stats.completed
                   evicted == stats.dropped_oldest
                   queued == Len(queue)
        <5>1. /\ accepted \in Nat /\ finished \in Nat /\ evicted \in Nat /\ queued \in Nat
              /\ accepted = finished + evicted + discarded + queued + inFlight
          BY <2>2, <2>4, <2>5
        <5>2. accepted + 1 = finished + (evicted + 1) + discarded + queued + inFlight
          <6> HIDE DEF accepted, finished, evicted, queued
          <6> QED
            BY <2>4, <5>1
        <5> QED
          BY <5>2
      <4> QED
        BY <4>1, <4>2
    <3>2. CASE ~full
      <4>1. /\ stats'.dropped_oldest = stats.dropped_oldest
            /\ Len(queue') = Len(queue) + 1
        BY <2>2, <2>3, <3>2
      <4>2. stats.submitted + 1 = stats.completed + stats.dropped_oldest + discarded
                                    + (Len(queue) + 1) + inFlight
        <5> DEFINE accepted == stats.submitted
                   finished == stats.completed
                   evicted == stats.dropped_oldest
                   queued == Len(queue)
        <5>1. /\ accepted \in Nat /\ finished \in Nat /\ evicted \in Nat /\ queued \in Nat
              /\ accepted = finished + evicted + discarded + queued + inFlight
          BY <2>2, <2>4, <2>5
        <5>2. accepted + 1 = finished + evicted + discarded + (queued + 1) + inFlight
          <6> HIDE DEF accepted, finished, evicted, queued
          <6> QED
            BY <2>4, <5>1
        <5> QED
          BY <5>2
      <4> QED
        BY <4>1, <4>2
    <3> QED
      BY <3>1, <3>2
  <2>7. inFlight' = Cardinality(Holders')
    BY <1>0, <2>1 DEF JobsConserved
  <2>8. stats'.submitted = stats'.completed + stats'.dropped_oldest + discarded'
                             + Len(queue') + inFlight'
    BY <2>1, <2>3, <2>6
  <2> QED
    BY <2>7, <2>8 DEF JobsConserved
<1>3. CASE NotifyOne(c)
  <2>1. Holders' = Holders
    BY <1>0, <1>3 DEF NotifyOne, Waiting, Holders, Busy
  <2> QED
    BY <1>0, <1>3, <2>1 DEF NotifyOne, JobsConserved
<1>4. CASE Drain(c) \/ DrainAgain(c) \/ Cancel(c)
  BY <1>0, <1>4 DEF Drain, DrainAgain, Cancel, JobsConserved, Holders
<1> QED
  BY <1>1, <1>2, <1>3, <1>4 DEF ClientStep

(* So do start and shutdown. *)
LEMMA OwnerJobs ==
  ASSUME IInv, OwnerStep
  PROVE  JobsConserved'
<1>0. /\ TypeOK /\ JobsConserved /\ Phases /\ stats \in Stats
      /\ wpc \in [Workers -> WorkerPC]
  BY DEF IInv, TypeOK
<1>1. CASE Start
  <2>1. Holders' = Holders
    BY <1>0, <1>1 DEF Start, Phases, Holders, Busy
  <2> QED
    BY <1>0, <1>1, <2>1 DEF Start, JobsConserved
<1>2. ASSUME NEW discard \in BOOLEAN, Shutdown(discard)
      PROVE  JobsConserved'
  <2>1. Holders' = Holders /\ inFlight' = inFlight
    BY <1>2 DEF Shutdown, Holders
  <2>2. Len(queue) \in Nat /\ discarded \in Nat /\ Len(<<>>) = 0
    BY <1>0 DEF TypeOK
  <2>3. CASE discard
    <3>1. queue' = <<>> /\ discarded' = discarded + Len(queue)
      BY <1>2, <2>3 DEF Shutdown
    <3>2. /\ stats'.submitted = stats.submitted /\ stats'.completed = stats.completed
          /\ stats'.dropped_oldest = stats.dropped_oldest
      BY <1>0, <1>2, <2>3 DEF Shutdown, Stats
    <3> QED
      BY <1>0, <2>1, <2>2, <3>1, <3>2, StatsCounters DEF JobsConserved, TypeOK
  <2>4. CASE ~discard
    BY <1>0, <1>2, <2>1, <2>4 DEF Shutdown, JobsConserved
  <2> QED
    BY <2>3, <2>4
<1>3. CASE NotifyAll
  <2>1. Holders' = Holders
    BY <1>0, <1>3 DEF NotifyAll, Holders, Busy
  <2> QED
    BY <1>0, <1>3, <2>1 DEF NotifyAll, JobsConserved
<1>4. CASE Join
  <2>1. Holders' = Holders
    BY <1>0, <1>4 DEF Join, Holders, Busy
  <2> QED
    BY <1>0, <1>4, <2>1 DEF Join, JobsConserved
<1>5. CASE Stopped
  BY <1>0, <1>5 DEF Stopped, JobsConserved, Holders
<1> QED
  BY <1>1, <1>2, <1>3, <1>4, <1>5 DEF OwnerStep

(* Every step conserves jobs. *)
LEMMA JobsStep == IInv /\ [Next]_vars => JobsConserved'
<1> SUFFICES ASSUME IInv, [Next]_vars PROVE JobsConserved'
  OBVIOUS
<1>1. CASE UNCHANGED vars
  BY <1>1 DEF vars, IInv, JobsConserved, Holders
<1> QED
  BY <1>1, WorkerJobs, ClientJobs, OwnerJobs DEF Next
----------------------------------------------------------------------------
(* The phases of start and shutdown.  A worker leaves the loop only when the *)
(* queue is empty, and while stopping is set nothing enters the queue again. *)

(* Every step keeps the phases. *)
LEMMA PhasesStep == IInv /\ [Next]_vars => Phases'
<1> SUFFICES ASSUME IInv, [Next]_vars PROVE Phases'
  OBVIOUS
<1>0. /\ TypeOK /\ Phases /\ wpc \in [Workers -> WorkerPC]
      /\ queue \in Seq(Nat \ {0}) /\ opc \in OwnerPC
  BY DEF IInv, TypeOK
<1>1. ASSUME NEW w \in Workers, WorkerStep(w) \/ SpuriousWake(w)
      PROVE  Phases'
  <2>1. CASE Wait(w) \/ SpuriousWake(w) \/ RunJob(w) \/ JobReturns(w)
    BY <1>0, <2>1 DEF Wait, SpuriousWake, RunJob, JobReturns, Phases
  <2>2. CASE Take(w)
    BY <1>0, <2>2 DEF Take, Phases
  <2>3. CASE Exit(w)
    BY <1>0, <2>3 DEF Exit, Phases
  <2>4. CASE SkipLoad(w) \/ SkipStore(w) \/ CountFailed(w)
    BY <1>0, <2>4 DEF SkipLoad, SkipStore, CountFailed, Phases
  <2>5. CASE Finish(w)
    BY <1>0, <2>5 DEF Finish, Phases
  <2> QED
    BY <1>1, <2>1, <2>2, <2>3, <2>4, <2>5 DEF WorkerStep
<1>2. ASSUME NEW c \in Clients, ClientStep(c)
      PROVE  Phases'
  <2>1. CASE RefuseStopped(c) \/ RefuseFull(c) \/ Drain(c) \/ DrainAgain(c) \/ Cancel(c)
    BY <1>0, <2>1 DEF RefuseStopped, RefuseFull, Drain, DrainAgain, Cancel, Phases
  <2>2. CASE Submit(c)
    BY <1>0, <2>2 DEF Submit, Phases
  <2>3. CASE NotifyOne(c)
    BY <1>0, <2>3 DEF NotifyOne, Waiting, Phases
  <2> QED
    BY <1>2, <2>1, <2>2, <2>3 DEF ClientStep
<1>3. CASE OwnerStep
  <2>1. CASE Start
    BY <1>0, <2>1 DEF Start, Phases
  <2>2. ASSUME NEW discard \in BOOLEAN, Shutdown(discard)
        PROVE  Phases'
    BY <1>0, <2>2 DEF Shutdown, Phases
  <2>3. CASE NotifyAll
    BY <1>0, <2>3 DEF NotifyAll, Phases
  <2>4. CASE Join
    <3>1. queue = <<>>
      BY <1>0, <2>4, RuntimeAssumption DEF Join, Phases, RuntimeAssumption
    <3> QED
      BY <1>0, <2>4, <3>1 DEF Join, Phases
  <2>5. CASE Stopped
    BY <1>0, <2>5 DEF Stopped, Phases
  <2> QED
    BY <1>3, <2>1, <2>2, <2>3, <2>4, <2>5 DEF OwnerStep
<1>4. CASE UNCHANGED vars
  BY <1>0, <1>4 DEF vars, Phases
<1> QED
  BY <1>1, <1>2, <1>3, <1>4 DEF Next

----------------------------------------------------------------------------
(* What follows for every reachable state.                                   *)

(* The runtime keeps its inductive invariant. *)
THEOREM Invariance == Spec => []IInv
<1>1. IInv /\ [Next]_vars => IInv'
  BY TypeStep, JobsStep, PhasesStep DEF IInv
<1> QED
  BY <1>1, InitIInv, PTL DEF Spec

(* Types are respected; in particular in_flight_ never wraps below zero.     *)
THEOREM TypeCorrect == Spec => []TypeOK
<1>1. IInv => TypeOK
  BY DEF IInv
<1> QED
  BY <1>1, Invariance, PTL

(* No accepted job is lost or counted twice by runtime.cpp, whatever the     *)
(* interleaving of submit, the workers, drain, cancel, start and shutdown.   *)
THEOREM Conservation == Spec => []JobsConserved
<1>1. IInv => JobsConserved
  BY DEF IInv
<1> QED
  BY <1>1, Invariance, PTL

(* When shutdown has joined the workers, nothing accepted is left behind.    *)
THEOREM ShutdownComplete == Spec => []NothingLeftBehind
<1>1. IInv => NothingLeftBehind
  <2> SUFFICES ASSUME IInv, ~running \/ opc = "joined" PROVE Idle /\ \A w \in Workers : wpc[w] = "down"
    BY DEF NothingLeftBehind
  <2>1. queue = <<>> /\ \A w \in Workers : wpc[w] = "down"
    BY DEF IInv, Phases
  <2>2. Holders = {}
    BY <2>1 DEF Holders, Busy
  <2>3. inFlight = 0
    BY <2>2, FS_EmptySet DEF IInv, JobsConserved
  <2> QED
    BY <2>1, <2>3 DEF Idle
<1> QED
  BY <1>1, Invariance, PTL
----------------------------------------------------------------------------
(* Wakeups. *)

(* A worker that is running the loop, and so will look at the queue again.   *)
OnTheWay(w) == wpc[w] \notin {"waiting", "down", "exited"}

(* While there is work, the workers are neither stopped nor gone.            *)
LEMMA WorkersPresent ==
  ASSUME IInv, queue # <<>>
  PROVE  \A w \in Workers : OnTheWay(w) \/ wpc[w] = "waiting"
  BY DEF IInv, Phases, OnTheWay

(* Every step keeps a worker or a notification on its way to queued work.    *)
LEMMA WakeupStep == IInv /\ NoLostWakeup /\ [Next]_vars => NoLostWakeup'
<1> SUFFICES ASSUME IInv, NoLostWakeup, [Next]_vars PROVE NoLostWakeup'
  OBVIOUS
<1>0. /\ TypeOK /\ Phases /\ wpc \in [Workers -> WorkerPC]
      /\ cpc \in [Clients -> ClientPC] /\ opc \in OwnerPC
  BY DEF IInv, TypeOK
<1>1. ASSUME NEW w \in Workers, WorkerStep(w) \/ SpuriousWake(w)
      PROVE  NoLostWakeup'
  <2>1. CASE Wait(w)
    BY <1>0, <2>1 DEF Wait, NoLostWakeup, Waiting, Phases
  <2>2. CASE SpuriousWake(w) \/ RunJob(w) \/ JobReturns(w)
    BY <1>0, <2>2 DEF SpuriousWake, RunJob, JobReturns, NoLostWakeup, Waiting
  <2>3. CASE Take(w)
    BY <1>0, <2>3 DEF Take, NoLostWakeup, Waiting
  <2>4. CASE Exit(w)
    BY <1>0, <2>4 DEF Exit, NoLostWakeup, Waiting
  <2>5. CASE SkipLoad(w) \/ SkipStore(w) \/ CountFailed(w)
    BY <1>0, <2>5 DEF SkipLoad, SkipStore, CountFailed, NoLostWakeup, Waiting
  <2>6. CASE Finish(w)
    BY <1>0, <2>6 DEF Finish, NoLostWakeup, Waiting
  <2> QED
    BY <1>1, <2>1, <2>2, <2>3, <2>4, <2>5, <2>6 DEF WorkerStep
<1>2. ASSUME NEW c \in Clients, ClientStep(c)
      PROVE  NoLostWakeup'
  <2>1. CASE RefuseStopped(c) \/ RefuseFull(c) \/ Cancel(c)
    BY <2>1 DEF RefuseStopped, RefuseFull, Cancel, NoLostWakeup, Waiting
  <2>2. CASE Submit(c)
    <3>1. cpc'[c] = "notify"
      BY <1>0, <2>2 DEF Submit
    <3> QED
      BY <2>2, <3>1 DEF Submit, NoLostWakeup, Waiting
  <2>3. CASE NotifyOne(c)
    <3>1. opc = "join" => Waiting' = {}
      BY <1>0, <2>3 DEF NotifyOne, NoLostWakeup, Waiting
    <3>2. queue # <<>> => \E w \in Workers : wpc'[w] \notin {"waiting", "down", "exited"}
      <4>1. CASE Waiting = {}
        BY <2>3, <4>1, WorkersPresent, RuntimeAssumption
        DEF NotifyOne, Waiting, OnTheWay, RuntimeAssumption
      <4>2. CASE \E w \in Waiting : wpc' = [wpc EXCEPT ![w] = "top"]
        BY <1>0, <4>2 DEF Waiting
      <4> QED
        BY <2>3, <4>1, <4>2 DEF NotifyOne
    <3> QED
      BY <2>3, <3>1, <3>2 DEF NotifyOne, NoLostWakeup
  <2>4. CASE Drain(c) \/ DrainAgain(c)
    <3>1. \A d \in Clients : cpc[d] = "notify" => cpc'[d] = "notify"
      BY <1>0, <2>4 DEF Drain, DrainAgain
    <3> QED
      BY <2>4, <3>1 DEF Drain, DrainAgain, NoLostWakeup, Waiting
  <2> QED
    BY <1>2, <2>1, <2>2, <2>3, <2>4 DEF ClientStep
<1>3. CASE OwnerStep
  <2>1. CASE Start
    BY <1>0, <2>1 DEF Start, NoLostWakeup, Phases
  <2>2. ASSUME NEW discard \in BOOLEAN, Shutdown(discard)
        PROVE  NoLostWakeup'
    BY <2>2 DEF Shutdown, NoLostWakeup
  <2>3. CASE NotifyAll
    <3>1. Waiting' = {}
      BY <1>0, <2>3 DEF NotifyAll, Waiting
    <3>2. queue # <<>> => \E w \in Workers : wpc'[w] \notin {"waiting", "down", "exited"}
      BY <1>0, <2>3, WorkersPresent, RuntimeAssumption
      DEF NotifyAll, OnTheWay, RuntimeAssumption
    <3> QED
      BY <2>3, <3>1, <3>2 DEF NotifyAll, NoLostWakeup
  <2>4. CASE Join
    <3>1. queue = <<>>
      BY <1>0, <2>4, RuntimeAssumption DEF Join, Phases, RuntimeAssumption
    <3> QED
      BY <2>4, <3>1 DEF Join, NoLostWakeup
  <2>5. CASE Stopped
    BY <1>0, <2>5 DEF Stopped, NoLostWakeup, Phases
  <2> QED
    BY <1>3, <2>1, <2>2, <2>3, <2>4, <2>5 DEF OwnerStep
<1>4. CASE UNCHANGED vars
  BY <1>4 DEF vars, NoLostWakeup, Waiting
<1> QED
  BY <1>1, <1>2, <1>3, <1>4 DEF Next

(* Notifying one worker per submission and all of them on shutdown, and      *)
(* testing the predicate under mutex_, never loses a wakeup.                 *)
THEOREM Wakeups == Spec => []NoLostWakeup
<1>1. Init => NoLostWakeup
  BY DEF Init, NoLostWakeup
<1> QED
  BY <1>1, WakeupStep, Invariance, PTL DEF Spec
----------------------------------------------------------------------------
(* The blocked drainers.  Whoever makes the runtime idle wakes them, except  *)
(* shutdown(true), which leaves that to the workers it is about to stop.     *)

(* in_flight_ is zero exactly when no worker holds an item. *)
LEMMA IdleWithoutHolders ==
  ASSUME IInv
  PROVE  inFlight = 0 <=> Holders = {}
  BY HoldersFinite DEF IInv, JobsConserved

(* notify_all leaves nobody blocked on idle_. *)
LEMMA WakeDrainersEmpties ==
  ASSUME cpc \in [Clients -> ClientPC], WakeDrainers
  PROVE  \A c \in Clients : cpc'[c] # "drainWait"
  BY DEF WakeDrainers, ClientPC

(* Every step keeps a reason for each blocked drainer. *)
LEMMA DrainersStep == IInv /\ DrainersWoken /\ [Next]_vars => DrainersWoken'
<1> SUFFICES ASSUME IInv, DrainersWoken, [Next]_vars PROVE DrainersWoken'
  OBVIOUS
<1>0. /\ Phases /\ wpc \in [Workers -> WorkerPC] /\ cpc \in [Clients -> ClientPC]
      /\ opc \in OwnerPC /\ inFlight \in Nat /\ queue \in Seq(Nat \ {0})
  BY DEF IInv, TypeOK
<1>1. ASSUME NEW w \in Workers, WorkerStep(w) \/ SpuriousWake(w)
      PROVE  DrainersWoken'
  <2>1. CASE Wait(w) \/ SpuriousWake(w)
    BY <1>0, <2>1 DEF Wait, SpuriousWake, DrainersWoken, Idle
  <2>2. CASE Take(w)
    BY <1>0, <2>2 DEF Take, DrainersWoken, Idle
  <2>3. CASE Exit(w)
    BY <1>0, <2>3, WakeDrainersEmpties DEF Exit, DrainersWoken
  <2>4. CASE RunJob(w) \/ JobReturns(w)
    BY <1>0, <2>4 DEF RunJob, JobReturns, DrainersWoken, Idle
  <2>5. CASE SkipLoad(w) \/ SkipStore(w) \/ CountFailed(w)
    BY <1>0, <2>5 DEF SkipLoad, SkipStore, CountFailed, DrainersWoken, Idle
  <2>6. CASE Finish(w)
    <3>1. CASE Idle'
      BY <1>0, <2>6, <3>1, WakeDrainersEmpties DEF Finish, DrainersWoken, Idle
    <3>2. CASE ~Idle'
      BY <3>2 DEF DrainersWoken
    <3> QED
      BY <3>1, <3>2
  <2> QED
    BY <1>1, <2>1, <2>2, <2>3, <2>4, <2>5, <2>6 DEF WorkerStep
<1>2. ASSUME NEW c \in Clients, ClientStep(c)
      PROVE  DrainersWoken'
  <2>1. CASE RefuseStopped(c) \/ RefuseFull(c) \/ Cancel(c)
    BY <2>1 DEF RefuseStopped, RefuseFull, Cancel, DrainersWoken, Idle
  <2>2. CASE Submit(c)
    <3>1. queue' # <<>>
      <4>1. (IF Len(queue) >= Capacity THEN Tail(queue) ELSE queue) \in Seq(Nat \ {0})
        BY <1>0, RuntimeAssumption DEF RuntimeAssumption
      <4> QED
        BY <2>2, <4>1 DEF Submit, Enqueued
    <3> QED
      BY <3>1 DEF DrainersWoken, Idle
  <2>3. CASE NotifyOne(c)
    BY <1>0, <2>3 DEF NotifyOne, Waiting, DrainersWoken, Idle
  <2>4. CASE Drain(c)
    BY <2>4 DEF Drain, DrainersWoken, Idle
  <2>5. CASE DrainAgain(c)
    BY <1>0, <2>5 DEF DrainAgain, DrainersWoken, Idle
  <2> QED
    BY <1>2, <2>1, <2>2, <2>3, <2>4, <2>5 DEF ClientStep
<1>3. CASE OwnerStep
  <2>1. CASE Start
    BY <1>0, <2>1 DEF Start, DrainersWoken, Idle
  <2>2. ASSUME NEW discard \in BOOLEAN, Shutdown(discard)
        PROVE  DrainersWoken'
    <3>1. inFlight = 0 => \E w \in Workers : wpc[w] \in {"top", "waiting"}
      BY <1>0, <2>2, IdleWithoutHolders, RuntimeAssumption
      DEF Shutdown, Phases, Holders, Busy, WorkerPC, RuntimeAssumption
    <3> QED
      BY <2>2, <3>1 DEF Shutdown, DrainersWoken, Idle
  <2>3. CASE NotifyAll
    BY <1>0, <2>3 DEF NotifyAll, DrainersWoken, Idle
  <2>4. CASE Join
    <3>1. \A w \in Workers : wpc[w] = "exited"
      BY <2>4 DEF Join
    <3>2. Idle
      BY <1>0, <3>1, IdleWithoutHolders, RuntimeAssumption
      DEF Phases, Holders, Busy, Idle, RuntimeAssumption
    <3> QED
      BY <2>4, <3>1, <3>2 DEF Join, DrainersWoken
  <2>5. CASE Stopped
    <3>1. \A w \in Workers : wpc[w] = "down"
      BY <1>0, <2>5 DEF Stopped, Phases
    <3> QED
      BY <2>5, <3>1 DEF Stopped, DrainersWoken, Idle
  <2> QED
    BY <1>3, <2>1, <2>2, <2>3, <2>4, <2>5 DEF OwnerStep
<1>4. CASE UNCHANGED vars
  BY <1>4 DEF vars, DrainersWoken, Idle
<1> QED
  BY <1>1, <1>2, <1>3, <1>4 DEF Next

(* No drain() is left blocked on an idle runtime.                            *)
THEOREM DrainersNotForgotten == Spec => []DrainersWoken
<1>1. Init => DrainersWoken
  BY DEF Init, DrainersWoken
<1> QED
  BY <1>1, DrainersStep, Invariance, PTL DEF Spec

----------------------------------------------------------------------------
(* The bound of the queue. *)

(* Every step keeps the bound. *)
LEMMA BoundStep == IInv /\ QueueBounded /\ [Next]_vars => QueueBounded'
<1> SUFFICES ASSUME IInv, QueueBounded, [Next]_vars PROVE QueueBounded'
  OBVIOUS
<1>0. /\ queue \in Seq(Nat \ {0}) /\ stats \in Stats /\ stats.peak_queue_depth \in Nat
      /\ Len(queue) \in Nat /\ Capacity \in Nat \ {0}
  BY StatsCounters, RuntimeAssumption DEF IInv, TypeOK, RuntimeAssumption
<1>1. ASSUME Len(queue') <= Len(queue), Len(queue') \in Nat,
             stats'.peak_queue_depth = stats.peak_queue_depth
      PROVE  QueueBounded'
  BY <1>0, <1>1 DEF QueueBounded
<1>2. ASSUME NEW w \in Workers, WorkerStep(w) \/ SpuriousWake(w)
      PROVE  QueueBounded'
  <2>1. Len(queue') <= Len(queue) /\ Len(queue') \in Nat
    BY <1>0, <1>2 DEF WorkerStep, SpuriousWake, Wait, Take, Exit, SkipLoad, SkipStore,
                      RunJob, JobReturns, CountFailed, Finish
  <2>2. stats'.peak_queue_depth = stats.peak_queue_depth
    BY <1>0, <1>2 DEF WorkerStep, SpuriousWake, Wait, Take, Exit, SkipLoad, SkipStore,
                      RunJob, JobReturns, CountFailed, Finish, Stats
  <2> QED
    BY <1>1, <2>1, <2>2
<1>3. ASSUME NEW c \in Clients, ClientStep(c)
      PROVE  QueueBounded'
  <2>1. CASE Submit(c)
    <3> DEFINE q == Enqueued(Len(queue) >= Capacity)
    <3>1. Len(q) \in Nat /\ Len(q) <= Capacity
      <4>1. stats.submitted + 1 \in Nat \ {0}
        BY <1>0, StatsCounters
      <4>2. CASE Len(queue) >= Capacity
        <5>1. Len(queue) = Capacity
          BY <1>0, <4>2 DEF QueueBounded
        <5>2. Tail(queue) \in Seq(Nat \ {0}) /\ Len(Tail(queue)) = Capacity - 1
          BY <1>0, <5>1
        <5> QED
          BY <1>0, <4>1, <4>2, <5>2 DEF Enqueued
      <4>3. CASE ~(Len(queue) >= Capacity)
        BY <1>0, <4>1, <4>3 DEF Enqueued
      <4> QED
        BY <4>2, <4>3
    <3>2. queue' = q /\ stats'.peak_queue_depth = Larger(stats.peak_queue_depth, Len(q))
      BY <1>0, <2>1 DEF Submit, Stats
    <3> HIDE DEF q
    <3> QED
      BY <1>0, <3>1, <3>2 DEF QueueBounded, Larger
  <2>2. CASE RefuseStopped(c) \/ RefuseFull(c)
    <3>1. queue' = queue /\ stats'.peak_queue_depth = stats.peak_queue_depth
      BY <1>0, <2>2 DEF RefuseStopped, RefuseFull, Stats
    <3> QED
      BY <1>0, <1>1, <3>1
  <2>3. CASE NotifyOne(c) \/ Drain(c) \/ DrainAgain(c) \/ Cancel(c)
    BY <1>0, <1>1, <2>3 DEF NotifyOne, Drain, DrainAgain, Cancel
  <2> QED
    BY <1>3, <2>1, <2>2, <2>3 DEF ClientStep
<1>4. CASE OwnerStep
  <2>1. ASSUME NEW discard \in BOOLEAN, Shutdown(discard)
        PROVE  QueueBounded'
    <3>1. stats'.peak_queue_depth = stats.peak_queue_depth
      BY <1>0, <2>1 DEF Shutdown, Stats
    <3>2. Len(queue') <= Len(queue) /\ Len(queue') \in Nat
      BY <1>0, <2>1 DEF Shutdown
    <3> QED
      BY <1>1, <3>1, <3>2
  <2>2. CASE Start \/ NotifyAll \/ Join \/ Stopped
    BY <1>0, <1>1, <2>2 DEF Start, NotifyAll, Join, Stopped
  <2> QED
    BY <1>4, <2>1, <2>2 DEF OwnerStep
<1>5. CASE UNCHANGED vars
  BY <1>0, <1>1, <1>5 DEF vars
<1> QED
  BY <1>2, <1>3, <1>4, <1>5 DEF Next

(* The queue respects its capacity under both backpressure policies.         *)
THEOREM Bounded == Spec => []QueueBounded
<1>1. Init => QueueBounded
  BY RuntimeAssumption DEF Init, QueueBounded, RuntimeAssumption
<1> QED
  BY <1>1, BoundStep, Invariance, PTL DEF Spec

----------------------------------------------------------------------------
(* The pool: the threads implement JobPool, a plain bounded line of jobs.    *)

(* TicketsUnique alone is not inductive: while the queue is empty it says    *)
(* nothing that keeps the next ticket above those that are held.             *)
Unique ==
  /\ TicketsUnique
  /\ \A w \in Holders : held[w] <= stats.submitted

(* What the refinement rests on. *)
PInv == IInv /\ QueueBounded /\ Unique

----------------------------------------------------------------------------
(* The queue, as a sequence of tickets. *)

(* The first of a queue, and the rest of it. *)
LEMMA QueueTail ==
  ASSUME NEW s \in Seq(Nat \ {0}), s # <<>>
  PROVE  /\ Head(s) = s[1] /\ 1 \in DOMAIN s
         /\ Tail(s) \in Seq(Nat \ {0}) /\ Len(Tail(s)) = Len(s) - 1
         /\ \A i \in DOMAIN Tail(s) : i + 1 \in DOMAIN s /\ Tail(s)[i] = s[i + 1]
  OBVIOUS

(* A queue and one ticket more. *)
LEMMA QueueAppend ==
  ASSUME NEW s \in Seq(Nat \ {0}), NEW k \in Nat \ {0}
  PROVE  /\ Append(s, k) \in Seq(Nat \ {0}) /\ Len(Append(s, k)) = Len(s) + 1
         /\ \A i \in DOMAIN Append(s, k) :
              \/ i \in DOMAIN s /\ Append(s, k)[i] = s[i]
              \/ i = Len(s) + 1 /\ Append(s, k)[i] = k
         /\ \A i \in DOMAIN s : i < Len(s) + 1
  OBVIOUS

(* The tickets of a queue grow from the front to the back, none is above a   *)
(* bound, and all are above those that workers hold.                         *)
Ascending(s, top) ==
  /\ \A i, j \in DOMAIN s : i < j => s[i] < s[j]
  /\ \A i \in DOMAIN s : s[i] <= top

Above(s) == \A w \in Holders : \A i \in DOMAIN s : held[w] < s[i]

(* It stays so without its first ticket ... *)
LEMMA TailAscending ==
  ASSUME NEW s \in Seq(Nat \ {0}), s # <<>>, NEW top \in Nat, Ascending(s, top)
  PROVE  /\ Ascending(Tail(s), top)
         /\ \A i \in DOMAIN Tail(s) : s[1] < Tail(s)[i]
<1>1. \A i \in DOMAIN Tail(s) : i \in Nat /\ 1 < i + 1
  BY QueueTail
<1>2. \A i \in DOMAIN Tail(s) : s[1] < Tail(s)[i]
  BY <1>1, QueueTail DEF Ascending
<1>3. \A i, j \in DOMAIN Tail(s) : i < j => Tail(s)[i] < Tail(s)[j]
  <2> SUFFICES ASSUME NEW i \in DOMAIN Tail(s), NEW j \in DOMAIN Tail(s), i < j
               PROVE  Tail(s)[i] < Tail(s)[j]
    OBVIOUS
  <2>1. i + 1 < j + 1
    BY <1>1
  <2> QED
    BY <2>1, QueueTail DEF Ascending
<1> QED
  BY <1>2, <1>3, QueueTail DEF Ascending

(* ... and with the next one behind it.                                      *)
LEMMA AppendAscending ==
  ASSUME NEW s \in Seq(Nat \ {0}), NEW top \in Nat, Ascending(s, top)
  PROVE  Ascending(Append(s, top + 1), top + 1)
<1> DEFINE t == Append(s, top + 1)
<1>1. \A i \in DOMAIN t : \/ i \in DOMAIN s /\ t[i] = s[i]
                          \/ i = Len(s) + 1 /\ t[i] = top + 1
  BY QueueAppend
<1>2. \A i \in DOMAIN s : i \in Nat /\ i < Len(s) + 1 /\ s[i] \in Nat /\ s[i] < top + 1
  BY QueueAppend DEF Ascending
<1>3. Len(s) \in Nat
  OBVIOUS
<1> HIDE DEF t
<1>4. \A i \in DOMAIN t : t[i] <= top + 1
  BY <1>1, <1>2
<1>5. \A i, j \in DOMAIN t : i < j => t[i] < t[j]
  BY <1>1, <1>2, <1>3 DEF Ascending
<1> QED
  BY <1>4, <1>5 DEF Ascending, t

----------------------------------------------------------------------------
(* Tickets are unique. *)

(* The parts of the invariant. *)
LEMMA UniqueParts ==
  Unique <=>
    /\ Ascending(queue, stats.submitted) /\ Above(queue)
    /\ \A v, w \in Holders : held[v] = held[w] => v = w
    /\ \A w \in Holders : held[w] <= stats.submitted
  BY DEF Unique, TicketsUnique, Ascending, Above

(* Steps that leave the queue, the holders and their tickets alone. *)
LEMMA UniqueKept ==
  ASSUME Unique, Holders' = Holders, queue' = queue, held' = held,
         stats'.submitted = stats.submitted
  PROVE  Unique'
  BY DEF Unique, TicketsUnique

(* The calls and worker steps that move no job.                              *)
Quiet ==
  \/ \E w \in Workers :
       \/ Wait(w) \/ SpuriousWake(w) \/ Exit(w) \/ SkipLoad(w) \/ SkipStore(w)
       \/ RunJob(w) \/ JobReturns(w) \/ CountFailed(w)
  \/ \E c \in Clients :
       RefuseStopped(c) \/ RefuseFull(c) \/ NotifyOne(c) \/ Drain(c) \/ DrainAgain(c) \/ Cancel(c)
  \/ Start \/ Shutdown(FALSE) \/ NotifyAll \/ Join \/ Stopped
  \/ UNCHANGED vars

(* They leave the queue, the holders and their tickets alone.                *)
LEMMA QuietKeeps ==
  ASSUME IInv, Quiet
  PROVE  /\ Holders' = Holders /\ queue' = queue /\ held' = held
         /\ stats'.submitted = stats.submitted
<1>0. /\ wpc \in [Workers -> WorkerPC] /\ stats \in Stats /\ Phases
  BY DEF IInv, TypeOK
<1>1. ASSUME NEW w \in Workers,
             \/ Wait(w) \/ SpuriousWake(w) \/ Exit(w) \/ SkipLoad(w)
             \/ RunJob(w) \/ JobReturns(w)
      PROVE  /\ \A v \in Workers : wpc'[v] \in Busy <=> wpc[v] \in Busy
             /\ queue' = queue /\ held' = held /\ stats' = stats
  BY <1>0, <1>1 DEF Wait, SpuriousWake, Exit, SkipLoad, RunJob, JobReturns, Busy
<1>2. ASSUME NEW w \in Workers, SkipStore(w) \/ CountFailed(w)
      PROVE  /\ \A v \in Workers : wpc'[v] \in Busy <=> wpc[v] \in Busy
             /\ queue' = queue /\ held' = held /\ stats'.submitted = stats.submitted
  BY <1>0, <1>2 DEF SkipStore, CountFailed, Busy, Stats
<1>3. ASSUME NEW c \in Clients,
             RefuseStopped(c) \/ RefuseFull(c) \/ Drain(c) \/ DrainAgain(c) \/ Cancel(c)
      PROVE  /\ \A v \in Workers : wpc'[v] \in Busy <=> wpc[v] \in Busy
             /\ queue' = queue /\ held' = held /\ stats'.submitted = stats.submitted
  BY <1>0, <1>3 DEF RefuseStopped, RefuseFull, Drain, DrainAgain, Cancel, Stats
<1>4. ASSUME NEW c \in Clients, NotifyOne(c)
      PROVE  /\ \A v \in Workers : wpc'[v] \in Busy <=> wpc[v] \in Busy
             /\ queue' = queue /\ held' = held /\ stats' = stats
  BY <1>0, <1>4 DEF NotifyOne, Waiting, Busy
<1>5. ASSUME Start
      PROVE  /\ \A v \in Workers : wpc'[v] \in Busy <=> wpc[v] \in Busy
             /\ queue' = queue /\ held' = held /\ stats' = stats
  BY <1>0, <1>5 DEF Start, Phases, Busy
<1>6. ASSUME Shutdown(FALSE) \/ NotifyAll \/ Join \/ Stopped \/ UNCHANGED vars
      PROVE  /\ \A v \in Workers : wpc'[v] \in Busy <=> wpc[v] \in Busy
             /\ queue' = queue /\ held' = held /\ stats' = stats
  BY <1>0, <1>6 DEF Shutdown, NotifyAll, Join, Stopped, vars, Busy
<1> QED
  BY <1>1, <1>2, <1>3, <1>4, <1>5, <1>6, HoldersKept DEF Quiet

(* The others are these.                                                     *)
LEMMA QuietOrNot ==
  ASSUME [Next]_vars
  PROVE  \/ Quiet \/ Shutdown(TRUE)
         \/ \E w \in Workers : Take(w) \/ Finish(w)
         \/ \E c \in Clients : Submit(c)
<1>1. ASSUME NEW w \in Workers, WorkerStep(w) \/ SpuriousWake(w)
      PROVE  Quiet \/ Take(w) \/ Finish(w)
  BY <1>1 DEF WorkerStep, Quiet
<1>2. ASSUME NEW c \in Clients, ClientStep(c)
      PROVE  Quiet \/ Submit(c)
  BY <1>2 DEF ClientStep, Quiet
<1>3. ASSUME OwnerStep PROVE Quiet \/ Shutdown(TRUE)
  BY <1>3 DEF OwnerStep, Quiet
<1> QED
  BY <1>1, <1>2, <1>3 DEF Next, Quiet

(* A worker takes the oldest item: it is new to the holders. *)
LEMMA TakeStep ==
  ASSUME PInv, NEW w \in Workers, Take(w)
  PROVE  /\ queue # <<>> /\ queue' = Tail(queue) /\ stats' = stats
         /\ Holders' = Holders \cup {w} /\ w \notin Holders
         /\ held'[w] = queue[1] /\ \A v \in Holders : held'[v] = held[v]
<1>0. /\ queue \in Seq(Nat \ {0}) /\ wpc \in [Workers -> WorkerPC] /\ held \in [Workers -> Nat]
  BY DEF PInv, IInv, TypeOK
<1>1. Holders' = Holders \cup {w} /\ w \notin Holders
  BY <1>0 DEF Take, Holders, Busy
<1>2. \A v \in Holders : v \in Workers /\ v # w
  BY <1>1 DEF Holders
<1> QED
  BY <1>0, <1>1, <1>2, QueueTail DEF Take

(* A worker is done: its item is no longer held. *)
LEMMA FinishStep ==
  ASSUME PInv, NEW w \in Workers, Finish(w)
  PROVE  /\ queue' = queue /\ stats'.submitted = stats.submitted
         /\ Holders' = Holders \ {w} /\ w \in Holders
         /\ \A v \in Holders \ {w} : held'[v] = held[v]
<1>0. /\ wpc \in [Workers -> WorkerPC] /\ held \in [Workers -> Nat] /\ stats \in Stats
  BY DEF PInv, IInv, TypeOK
<1>1. Holders' = Holders \ {w} /\ w \in Holders
  BY <1>0 DEF Finish, Holders, Busy
<1> QED
  BY <1>0, <1>1 DEF Finish, Stats, Holders

(* A submission puts the next ticket behind the queue, or behind what is     *)
(* left of a full one without its oldest.                                    *)
LEMMA SubmitStep ==
  ASSUME PInv, NEW c \in Clients, Submit(c)
  PROVE  /\ \/ Len(queue) < Capacity /\ queue' = Append(queue, stats.submitted + 1)
            \/ Len(queue) = Capacity /\ queue # <<>>
                 /\ queue' = Append(Tail(queue), stats.submitted + 1)
         /\ stats'.submitted = stats.submitted + 1
         /\ Holders' = Holders /\ held' = held
<1>0. /\ queue \in Seq(Nat \ {0}) /\ stats \in Stats /\ Capacity \in Nat \ {0}
      /\ Len(queue) \in Nat /\ stats.peak_queue_depth \in Nat
      /\ Len(queue) <= stats.peak_queue_depth /\ stats.peak_queue_depth <= Capacity
  BY StatsCounters, RuntimeAssumption DEF PInv, IInv, TypeOK, QueueBounded, RuntimeAssumption
<1>1. stats'.submitted = stats.submitted + 1
  BY <1>0 DEF Submit, Stats
<1>2. Holders' = Holders /\ held' = held
  BY DEF Submit, Holders
<1>3. CASE Len(queue) < Capacity
  BY <1>0, <1>1, <1>2, <1>3 DEF Submit, Enqueued
<1>4. CASE ~(Len(queue) < Capacity)
  <2>1. Len(queue) = Capacity /\ queue # <<>>
    BY <1>0, <1>4
  <2>2. queue' = Append(Tail(queue), stats.submitted + 1)
    BY <1>0, <2>1 DEF Submit, Enqueued
  <2> QED
    BY <1>1, <1>2, <2>1, <2>2
<1> QED
  BY <1>3, <1>4

(* Every step keeps the tickets unique. *)
LEMMA UniqueStep == PInv /\ [Next]_vars => Unique'
<1> SUFFICES ASSUME PInv, [Next]_vars PROVE Unique'
  OBVIOUS
<1>0. /\ queue \in Seq(Nat \ {0}) /\ stats.submitted \in Nat /\ held \in [Workers -> Nat]
      /\ Holders \subseteq Workers
  BY StatsCounters DEF PInv, IInv, TypeOK, Holders
<1>1. /\ Ascending(queue, stats.submitted) /\ Above(queue)
      /\ \A v, w \in Holders : held[v] = held[w] => v = w
      /\ \A w \in Holders : held[w] <= stats.submitted
  BY UniqueParts DEF PInv
<1>2. \A i \in DOMAIN queue : queue[i] \in Nat
  BY <1>0
<1>3. CASE Quiet
  BY <1>3, QuietKeeps, UniqueKept DEF PInv
<1>4. CASE Shutdown(TRUE)
  <2>1. /\ queue' = <<>> /\ held' = held /\ Holders' = Holders
        /\ stats'.submitted = stats.submitted
    BY <1>4 DEF Shutdown, Holders, PInv, IInv, TypeOK, Stats
  <2> QED
    BY <1>1, <2>1 DEF Unique, TicketsUnique
<1>5. ASSUME NEW w \in Workers, Take(w) PROVE Unique'
  <2>1. /\ queue # <<>> /\ queue' = Tail(queue) /\ stats' = stats
        /\ Holders' = Holders \cup {w} /\ w \notin Holders
        /\ held'[w] = queue[1] /\ \A v \in Holders : held'[v] = held[v]
    BY <1>5, TakeStep
  <2>2. 1 \in DOMAIN queue /\ \A i \in DOMAIN queue' : i + 1 \in DOMAIN queue /\ queue'[i] = queue[i + 1]
    BY <1>0, <2>1, QueueTail
  <2>3. Ascending(queue', stats'.submitted) /\ \A i \in DOMAIN queue' : queue[1] < queue'[i]
    BY <1>0, <1>1, <2>1, TailAscending
  <2>4. \A v \in Holders : held[v] < queue[1] /\ held[v] \in Nat
    BY <1>0, <1>1, <2>2 DEF Above
  <2>5. \A v \in Holders' : \A i \in DOMAIN queue' : held'[v] < queue'[i]
    BY <1>1, <2>1, <2>2, <2>3 DEF Above
  <2>6. \A v, u \in Holders' : held'[v] = held'[u] => v = u
    BY <1>1, <1>2, <2>1, <2>2, <2>4
  <2>7. \A v \in Holders' : held'[v] <= stats'.submitted
    BY <1>1, <2>1, <2>2 DEF Ascending
  <2> QED
    BY <2>3, <2>5, <2>6, <2>7 DEF Unique, TicketsUnique, Ascending
<1>6. ASSUME NEW w \in Workers, Finish(w) PROVE Unique'
  <2>1. /\ queue' = queue /\ stats'.submitted = stats.submitted
        /\ Holders' = Holders \ {w}
        /\ \A v \in Holders \ {w} : held'[v] = held[v]
    BY <1>6, FinishStep
  <2> QED
    BY <1>1, <2>1 DEF Unique, TicketsUnique, Ascending, Above
<1>7. ASSUME NEW c \in Clients, Submit(c) PROVE Unique'
  <2>1. PICK s \in {queue, Tail(queue)} :
          /\ s = queue \/ (s = Tail(queue) /\ queue # <<>>)
          /\ queue' = Append(s, stats.submitted + 1)
    BY <1>7, SubmitStep
  <2>2. /\ stats'.submitted = stats.submitted + 1 /\ Holders' = Holders /\ held' = held
    BY <1>7, SubmitStep
  <2>3. /\ s \in Seq(Nat \ {0}) /\ Ascending(s, stats.submitted) /\ Above(s)
    <3>1. CASE s = queue
      BY <1>0, <1>1, <3>1
    <3>2. CASE s = Tail(queue) /\ queue # <<>>
      BY <1>0, <1>1, <3>2, QueueTail, TailAscending DEF Above
    <3> QED
      BY <2>1, <3>1, <3>2
  <2>4. Ascending(queue', stats'.submitted)
    BY <1>0, <2>1, <2>2, <2>3, AppendAscending
  <2>5. \A v \in Holders : \A i \in DOMAIN queue' : held[v] < queue'[i]
    <3>1. \A i \in DOMAIN queue' : \/ i \in DOMAIN s /\ queue'[i] = s[i]
                                   \/ queue'[i] = stats.submitted + 1
      BY <1>0, <2>1, <2>3, QueueAppend
    <3>2. \A v \in Holders : held[v] \in Nat /\ held[v] < stats.submitted + 1
      BY <1>0, <1>1
    <3> QED
      BY <2>3, <3>1, <3>2 DEF Above
  <2>6. \A v \in Holders : held[v] <= stats.submitted + 1
    BY <1>0, <1>1
  <2> QED
    BY <1>1, <2>2, <2>4, <2>5, <2>6 DEF Unique, TicketsUnique, Ascending
<1> QED
  BY <1>3, <1>4, <1>5, <1>6, <1>7, QuietOrNot

(* The invariant of the refinement holds initially and is kept. *)
LEMMA PoolInvariance == Spec => []PInv
<1>1. Init => Unique
  <2> SUFFICES ASSUME Init PROVE Unique
    OBVIOUS
  <2>1. Holders = {} /\ queue = <<>>
    BY DEF Init, Holders, Busy
  <2> QED
    BY <2>1 DEF Unique, TicketsUnique
<1>2. PInv /\ [Next]_vars => Unique'
  BY UniqueStep
<1> QED
  BY <1>1, <1>2, Invariance, Bounded, PTL DEF Spec, PInv

(* No job is queued twice, taken twice or taken out of order by the workers  *)
(* of runtime.cpp, however many they are.                                    *)
THEOREM Uniqueness == Spec => []TicketsUnique
<1>1. PInv => TicketsUnique
  BY DEF PInv, Unique
<1> QED
  BY <1>1, PoolInvariance, PTL

----------------------------------------------------------------------------
(* The refinement. *)

(* What the pool sees as busy. *)
Running == {held[w] : w \in Holders}

(* Every step of the threads is a step of the pool or none.                  *)
LEMMA PoolStep == PInv /\ [Next]_vars => [Pool!Next]_(Pool!poolVars)
<1> SUFFICES ASSUME PInv, [Next]_vars PROVE [Pool!Next]_(Pool!poolVars)
  OBVIOUS
<1> DEFINE Unmoved == stats'.submitted = stats.submitted /\ queue' = queue /\ Running' = Running
<1>0. /\ queue \in Seq(Nat \ {0}) /\ Len(queue) \in Nat /\ Capacity \in Nat \ {0}
  BY RuntimeAssumption DEF PInv, IInv, TypeOK, RuntimeAssumption
<1>1. Unmoved => UNCHANGED Pool!poolVars
  BY DEF Pool!poolVars, Running
<1>2. CASE Quiet
  <2>1. Holders' = Holders /\ held' = held /\ queue' = queue /\ stats'.submitted = stats.submitted
    BY <1>2, QuietKeeps DEF PInv
  <2> QED
    BY <1>1, <2>1 DEF Running
<1>3. CASE Shutdown(TRUE)
  <2>1. /\ queue' = <<>> /\ held' = held /\ Holders' = Holders
        /\ stats'.submitted = stats.submitted
    BY <1>3 DEF Shutdown, Holders, PInv, IInv, TypeOK, Stats
  <2> QED
    BY <2>1 DEF Pool!Next, Pool!GiveUp
<1>4. ASSUME NEW w \in Workers, Take(w) PROVE Pool!Next
  <2>1. /\ queue # <<>> /\ queue' = Tail(queue) /\ stats' = stats
        /\ Holders' = Holders \cup {w} /\ w \notin Holders
        /\ held'[w] = queue[1] /\ \A v \in Holders : held'[v] = held[v]
    BY <1>4, TakeStep
  <2>2. Running' = Running \cup {Head(queue)}
    BY <1>0, <2>1, QueueTail DEF Running
  <2> QED
    BY <2>1, <2>2 DEF Pool!Next, Pool!StartOldest, Running
<1>5. ASSUME NEW w \in Workers, Finish(w) PROVE Pool!Next
  <2>1. /\ queue' = queue /\ stats'.submitted = stats.submitted
        /\ Holders' = Holders \ {w} /\ w \in Holders
        /\ \A v \in Holders \ {w} : held'[v] = held[v]
    BY <1>5, FinishStep
  <2>2. \A v \in Holders : held[v] = held[w] => v = w
    BY <2>1 DEF PInv, Unique, TicketsUnique
  <2>3. held[w] \in Running /\ Running' = Running \ {held[w]}
    BY <2>1, <2>2 DEF Running
  <2> QED
    BY <2>1, <2>3 DEF Pool!Next, Pool!End, Running
<1>6. ASSUME NEW c \in Clients, Submit(c) PROVE Pool!Next
  <2>1. Running' = Running /\ stats'.submitted = stats.submitted + 1
    BY <1>6, SubmitStep DEF Running
  <2>2. \/ Len(queue) < Capacity /\ queue' = Append(queue, stats.submitted + 1)
        \/ Len(queue) = Capacity /\ queue' = Append(Tail(queue), stats.submitted + 1)
    BY <1>6, SubmitStep
  <2>3. CASE Len(queue) < Capacity /\ queue' = Append(queue, stats.submitted + 1)
    <3>1. Len(queue) + 1 <= Capacity
      BY <1>0, <2>3
    <3> QED
      BY <2>1, <2>3, <3>1 DEF Pool!Next, Pool!Accept, Running
  <2>4. CASE Len(queue) = Capacity /\ queue' = Append(Tail(queue), stats.submitted + 1)
    BY <2>1, <2>4 DEF Pool!Next, Pool!AcceptForOldest, Running
  <2> QED
    BY <2>2, <2>3, <2>4
<1> QED
  BY <1>2, <1>3, <1>4, <1>5, <1>6, QuietOrNot

(* The runtime of runtime.cpp implements the pool that its header promises:  *)
(* jobs start in the order of acceptance, each once, from a bounded line.    *)
THEOREM ImplementsPool == Spec => PoolSpec
<1>1. Init => Pool!Init
  BY DEF Init, Pool!Init, Holders, Busy
<1> QED
  BY <1>1, PoolStep, PoolInvariance, PTL DEF Spec, PoolSpec, Pool!Spec
=============================================================================
