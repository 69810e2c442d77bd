------------------------------ MODULE Runtime ------------------------------
(***************************************************************************)
(* The bounded worker runtime of src/src/runtime.cpp: a mutex-protected    *)
(* job queue, the two condition variables work_available_ and idle_, the   *)
(* worker loop, and the calls submit, drain, cancel, start and shutdown.   *)
(*                                                                         *)
(* One action is one critical section of mutex_ (or one step between two   *)
(* of them).  A condition variable is the set of threads blocked on it:    *)
(* the workers with wpc = "waiting" (work_available_), the clients with    *)
(* cpc = "drainWait" (idle_).  A job is its ticket, the value of           *)
(* stats_.submitted when it was accepted; what the job does to the engine  *)
(* is the subject of the other modules.                                    *)
(***************************************************************************)
EXTENDS Integers, Sequences, FiniteSets

CONSTANTS
  Workers,       (* the threads start() creates                            *)
  Clients,       (* the threads that call submit, drain and cancel         *)
  Capacity,      (* config_.queue_capacity                                 *)
  Backpressure,  (* config_.backpressure: "reject" or "drop_oldest"        *)
  MaxSubmitted,  (* bound: jobs accepted in a behaviour                    *)
  MaxRefused,    (* bound: submissions refused, of each kind               *)
  MaxStarts      (* bound: calls of start() that succeed                   *)

(* validate_runtime_config: at least one worker, a non-zero capacity. *)
ASSUME RuntimeAssumption ==
  /\ Workers # {} /\ IsFiniteSet(Workers)
  /\ Capacity \in Nat \ {0}
  /\ Backpressure \in {"reject", "drop_oldest"}
  /\ MaxSubmitted \in Nat /\ MaxRefused \in Nat /\ MaxStarts \in Nat

VARIABLES
  queue,      (* queue_: tickets, oldest first                             *)
  running,    (* running_                                                  *)
  stopping,   (* stopping_                                                 *)
  inFlight,   (* in_flight_                                                *)
  token,      (* token_.cancelled()                                        *)
  stats,      (* stats_                                                    *)
  starts,     (* stats_.workers_started / config_.worker_threads           *)
  wpc,        (* where each worker is                                      *)
  held,       (* the ticket each worker took, 0 when it holds none         *)
  seen,       (* the value of stats_.cancelled a worker read at line 122   *)
  cpc,        (* where each client is                                      *)
  opc,        (* where the owner, the thread calling start/shutdown, is    *)
  discarded   (* history: jobs shutdown(true) removed from the queue       *)

vars == <<queue, running, stopping, inFlight, token, stats, starts, wpc, held,
          seen, cpc, opc, discarded>>

WorkerPC == {"down", "top", "waiting", "check", "skip", "run", "fail",
             "finish", "exited"}
ClientPC == {"idle", "notify", "drainWait", "drainCheck"}
OwnerPC  == {"idle", "notifyAll", "join", "joined"}

(* Between taking an item and counting it completed. *)
Busy == {"check", "skip", "run", "fail", "finish"}

Stats == [submitted : Nat, completed : Nat, failed : Nat,
          rejected_backpressure : Nat, rejected_after_shutdown : Nat,
          dropped_oldest : Nat, cancelled : Nat, peak_queue_depth : Nat]

TypeOK ==
  /\ queue \in Seq(Nat \ {0})
  /\ running \in BOOLEAN /\ stopping \in BOOLEAN /\ token \in BOOLEAN
  /\ inFlight \in Nat /\ starts \in Nat
  /\ stats \in Stats
  /\ wpc \in [Workers -> WorkerPC]
  /\ held \in [Workers -> Nat] /\ seen \in [Workers -> Nat]
  /\ cpc \in [Clients -> ClientPC]
  /\ opc \in OwnerPC
  /\ discarded \in Nat

Init ==
  /\ queue = <<>> /\ running = FALSE /\ stopping = FALSE /\ token = FALSE
  /\ inFlight = 0 /\ starts = 0
  /\ stats = [submitted |-> 0, completed |-> 0, failed |-> 0,
              rejected_backpressure |-> 0, rejected_after_shutdown |-> 0,
              dropped_oldest |-> 0, cancelled |-> 0, peak_queue_depth |-> 0]
  /\ wpc = [w \in Workers |-> "down"]
  /\ held = [w \in Workers |-> 0] /\ seen = [w \in Workers |-> 0]
  /\ cpc = [c \in Clients |-> "idle"]
  /\ opc = "idle"
  /\ discarded = 0

(* drain()'s predicate, evaluated with mutex_ held. *)
Idle == queue = <<>> /\ inFlight = 0

Waiting == {w \in Workers : wpc[w] = "waiting"}

(* Plausible fault, for the mutation runs: the notification is forgotten.    *)
WakeNobody == UNCHANGED cpc

(* idle_.notify_all(): every client blocked in drain() looks again. *)
WakeDrainers ==
  cpc' = [c \in Clients |-> IF cpc[c] = "drainWait" THEN "drainCheck" ELSE cpc[c]]

----------------------------------------------------------------------------
(* The owner: start and shutdown. *)

Start ==
  /\ opc = "idle" /\ ~running /\ starts < MaxStarts
  /\ stopping' = FALSE /\ running' = TRUE
  /\ starts' = starts + 1
  /\ wpc' = [w \in Workers |-> "top"]
  /\ UNCHANGED <<queue, inFlight, token, stats, held, seen, cpc, opc,
                 discarded>>

(* The first critical section of shutdown(discard_pending). *)
Shutdown(discard) ==
  /\ opc = "idle" /\ running
  /\ stopping' = TRUE
  /\ opc' = "notifyAll"
  /\ IF discard
       THEN /\ stats' = [stats EXCEPT !.cancelled = @ + Len(queue)]
            /\ discarded' = discarded + Len(queue)
            /\ queue' = <<>>
       ELSE UNCHANGED <<stats, discarded, queue>>
  /\ UNCHANGED <<running, inFlight, token, starts, wpc, held, seen, cpc>>

(* Plausible fault: notify_one where notify_all is needed. *)
NotifyAllOnlyOne ==
  /\ opc = "notifyAll"
  /\ opc' = "join"
  /\ \/ Waiting = {} /\ UNCHANGED wpc
     \/ \E w \in Waiting : wpc' = [wpc EXCEPT ![w] = "top"]
  /\ UNCHANGED <<queue, running, stopping, inFlight, token, stats, starts, held,
                 seen, cpc, discarded>>

(* work_available_.notify_all() *)
NotifyAll ==
  /\ opc = "notifyAll"
  /\ opc' = "join"
  /\ wpc' = [w \in Workers |-> IF wpc[w] = "waiting" THEN "top" ELSE wpc[w]]
  /\ UNCHANGED <<queue, running, stopping, inFlight, token, stats, starts, held,
                 seen, cpc, discarded>>

(* Every worker.join() returned; workers_.clear(). *)
Join ==
  /\ opc = "join"
  /\ \A w \in Workers : wpc[w] = "exited"
  /\ opc' = "joined"
  /\ wpc' = [w \in Workers |-> "down"]
  /\ UNCHANGED <<queue, running, stopping, inFlight, token, stats, starts, held,
                 seen, cpc, discarded>>

Stopped ==
  /\ opc = "joined"
  /\ opc' = "idle" /\ running' = FALSE
  /\ UNCHANGED <<queue, stopping, inFlight, token, stats, starts, wpc, held, seen,
                 cpc, discarded>>

----------------------------------------------------------------------------
(* The clients: submit, drain and cancel. *)

RefuseStopped(c) ==
  /\ cpc[c] = "idle" /\ (~running \/ stopping)
  /\ stats.rejected_after_shutdown < MaxRefused
  /\ stats' = [stats EXCEPT !.rejected_after_shutdown = @ + 1]
  /\ UNCHANGED <<queue, running, stopping, inFlight, token, starts, wpc, held, seen,
                 cpc, opc, discarded>>

RefuseFull(c) ==
  /\ cpc[c] = "idle" /\ running /\ ~stopping
  /\ Len(queue) >= Capacity /\ Backpressure = "reject"
  /\ stats.rejected_backpressure < MaxRefused
  /\ stats' = [stats EXCEPT !.rejected_backpressure = @ + 1]
  /\ UNCHANGED <<queue, running, stopping, inFlight, token, starts, wpc, held, seen,
                 cpc, opc, discarded>>

Larger(a, b) == IF a >= b THEN a ELSE b

(* Plausible fault: the new item goes first. *)
EnqueuedInFront(full) ==
  <<stats.submitted + 1>> \o (IF full THEN Tail(queue) ELSE queue)

(* The queue after push_back of the next ticket, an older item making room. *)
Enqueued(full) ==
  Append(IF full THEN Tail(queue) ELSE queue, stats.submitted + 1)

Submit(c) ==
  LET full == Len(queue) >= Capacity IN
  /\ cpc[c] = "idle" /\ running /\ ~stopping
  /\ full => Backpressure = "drop_oldest"
  /\ stats.submitted < MaxSubmitted
  /\ queue' = Enqueued(full)
  /\ stats' = [stats EXCEPT
                 !.submitted = @ + 1,
                 !.dropped_oldest = IF full THEN @ + 1 ELSE @,
                 !.peak_queue_depth = Larger(@, Len(Enqueued(full)))]
  /\ cpc' = [cpc EXCEPT ![c] = "notify"]
  /\ UNCHANGED <<running, stopping, inFlight, token, starts, wpc, held, seen, opc,
                 discarded>>

(* Plausible fault: the notification is forgotten. *)
NotifyNobody(c) ==
  /\ cpc[c] = "notify"
  /\ cpc' = [cpc EXCEPT ![c] = "idle"]
  /\ UNCHANGED <<queue, running, stopping, inFlight, token, stats, starts, wpc, held,
                 seen, opc, discarded>>

(* work_available_.notify_one(), after mutex_ has been released. *)
NotifyOne(c) ==
  /\ cpc[c] = "notify"
  /\ cpc' = [cpc EXCEPT ![c] = "idle"]
  /\ \/ /\ Waiting = {} /\ UNCHANGED wpc
     \/ \E w \in Waiting : wpc' = [wpc EXCEPT ![w] = "top"]
  /\ UNCHANGED <<queue, running, stopping, inFlight, token, stats, starts, held,
                 seen, opc, discarded>>

(* drain() on a running runtime with work left: the client blocks on idle_. *)
Drain(c) ==
  /\ cpc[c] = "idle" /\ running /\ ~Idle
  /\ cpc' = [cpc EXCEPT ![c] = "drainWait"]
  /\ UNCHANGED <<queue, running, stopping, inFlight, token, stats, starts, wpc, held,
                 seen, opc, discarded>>

(* A client woken from idle_ re-evaluates the predicate under mutex_. *)
DrainAgain(c) ==
  /\ cpc[c] = "drainCheck"
  /\ cpc' = [cpc EXCEPT ![c] = IF Idle THEN "idle" ELSE "drainWait"]
  /\ UNCHANGED <<queue, running, stopping, inFlight, token, stats, starts, wpc, held,
                 seen, opc, discarded>>

(* cancel(): takes no lock, and nothing ever clears the token. *)
Cancel(c) ==
  /\ cpc[c] = "idle" /\ ~token
  /\ token' = TRUE
  /\ UNCHANGED <<queue, running, stopping, inFlight, stats, starts, wpc, held, seen,
                 cpc, opc, discarded>>

----------------------------------------------------------------------------
(* worker_loop *)

(* Plausible fault: wait() without a predicate. *)
WaitBlindly(w) ==
  /\ wpc[w] = "top" /\ ~stopping
  /\ wpc' = [wpc EXCEPT ![w] = "waiting"]
  /\ UNCHANGED <<queue, running, stopping, inFlight, token, stats, starts, held, seen,
                 cpc, opc, discarded>>

(* wait() with its predicate false: release mutex_ and block. *)
Wait(w) ==
  /\ wpc[w] = "top" /\ ~stopping /\ queue = <<>>
  /\ wpc' = [wpc EXCEPT ![w] = "waiting"]
  /\ UNCHANGED <<queue, running, stopping, inFlight, token, stats, starts, held, seen,
                 cpc, opc, discarded>>

(* The standard allows wait() to return without a notification. *)
SpuriousWake(w) ==
  /\ wpc[w] = "waiting"
  /\ wpc' = [wpc EXCEPT ![w] = "top"]
  /\ UNCHANGED <<queue, running, stopping, inFlight, token, stats, starts, held, seen,
                 cpc, opc, discarded>>

(* Plausible fault: ++in_flight_ is forgotten. *)
TakeUncounted(w) ==
  /\ wpc[w] = "top" /\ queue # <<>>
  /\ held' = [held EXCEPT ![w] = Head(queue)]
  /\ queue' = Tail(queue)
  /\ wpc' = [wpc EXCEPT ![w] = "check"]
  /\ UNCHANGED <<running, stopping, inFlight, token, stats, starts, seen, cpc, opc,
                 discarded>>

Take(w) ==
  /\ wpc[w] = "top" /\ queue # <<>>
  /\ held' = [held EXCEPT ![w] = Head(queue)]
  /\ queue' = Tail(queue)
  /\ inFlight' = inFlight + 1
  /\ wpc' = [wpc EXCEPT ![w] = "check"]
  /\ UNCHANGED <<running, stopping, token, stats, starts, seen, cpc, opc, discarded>>

(* Plausible fault: a stopping worker leaves the queue as it is. *)
ExitAtOnce(w) ==
  /\ wpc[w] = "top" /\ stopping
  /\ wpc' = [wpc EXCEPT ![w] = "exited"]
  /\ WakeDrainers
  /\ UNCHANGED <<queue, running, stopping, inFlight, token, stats, starts, held, seen,
                 opc, discarded>>

Exit(w) ==
  /\ wpc[w] = "top" /\ queue = <<>> /\ stopping
  /\ wpc' = [wpc EXCEPT ![w] = "exited"]
  /\ WakeDrainers
  /\ UNCHANGED <<queue, running, stopping, inFlight, token, stats, starts, held, seen,
                 opc, discarded>>

(* ++stats_.cancelled without mutex_: a load ... *)
SkipLoad(w) ==
  /\ wpc[w] = "check" /\ token
  /\ seen' = [seen EXCEPT ![w] = stats.cancelled]
  /\ wpc' = [wpc EXCEPT ![w] = "skip"]
  /\ UNCHANGED <<queue, running, stopping, inFlight, token, stats, starts, held, cpc,
                 opc, discarded>>

(* ... and a store, with other threads' steps allowed in between. *)
SkipStore(w) ==
  /\ wpc[w] = "skip"
  /\ stats' = [stats EXCEPT !.cancelled = seen[w] + 1]
  /\ wpc' = [wpc EXCEPT ![w] = "finish"]
  /\ UNCHANGED <<queue, running, stopping, inFlight, token, starts, held, seen, cpc,
                 opc, discarded>>

RunJob(w) ==
  /\ wpc[w] = "check" /\ ~token
  /\ wpc' = [wpc EXCEPT ![w] = "run"]
  /\ UNCHANGED <<queue, running, stopping, inFlight, token, stats, starts, held, seen,
                 cpc, opc, discarded>>

(* The job returns, with success or a failure. *)
JobReturns(w) ==
  /\ wpc[w] = "run"
  /\ \E result \in {"finish", "fail"} : wpc' = [wpc EXCEPT ![w] = result]
  /\ UNCHANGED <<queue, running, stopping, inFlight, token, stats, starts, held, seen,
                 cpc, opc, discarded>>

CountFailed(w) ==
  /\ wpc[w] = "fail"
  /\ stats' = [stats EXCEPT !.failed = @ + 1]
  /\ wpc' = [wpc EXCEPT ![w] = "finish"]
  /\ UNCHANGED <<queue, running, stopping, inFlight, token, starts, held, seen, cpc,
                 opc, discarded>>

Finish(w) ==
  /\ wpc[w] = "finish"
  /\ inFlight' = inFlight - 1
  /\ stats' = [stats EXCEPT !.completed = @ + 1]
  /\ held' = [held EXCEPT ![w] = 0]
  /\ wpc' = [wpc EXCEPT ![w] = "top"]
  /\ IF queue = <<>> /\ inFlight' = 0 THEN WakeDrainers ELSE UNCHANGED cpc
  /\ UNCHANGED <<queue, running, stopping, token, starts, seen, opc, discarded>>

----------------------------------------------------------------------------
WorkerStep(w) ==
  \/ Wait(w) \/ Take(w) \/ Exit(w) \/ SkipLoad(w) \/ SkipStore(w)
  \/ RunJob(w) \/ JobReturns(w) \/ CountFailed(w) \/ Finish(w)

ClientStep(c) ==
  \/ RefuseStopped(c) \/ RefuseFull(c) \/ Submit(c) \/ NotifyOne(c)
  \/ Drain(c) \/ DrainAgain(c) \/ Cancel(c)

OwnerStep ==
  \/ Start \/ \E discard \in BOOLEAN : Shutdown(discard)
  \/ NotifyAll \/ Join \/ Stopped

Next ==
  \/ \E w \in Workers : WorkerStep(w) \/ SpuriousWake(w)
  \/ \E c \in Clients : ClientStep(c)
  \/ OwnerStep

Spec == Init /\ [][Next]_vars

(* A thread inside a runtime call keeps being scheduled, and jobs return;  *)
(* nobody is obliged to call submit, drain, cancel, start or shutdown.     *)
Fairness ==
  /\ \A w \in Workers : WF_vars(WorkerStep(w))
  /\ \A c \in Clients : WF_vars(NotifyOne(c)) /\ WF_vars(DrainAgain(c))
  /\ WF_vars(NotifyAll) /\ WF_vars(Join) /\ WF_vars(Stopped)

FairSpec == Spec /\ Fairness

----------------------------------------------------------------------------
Tickets(s) == {s[i] : i \in DOMAIN s}
Holders == {w \in Workers : wpc[w] \in Busy}

(* Every accepted job is in exactly one place: queued, in flight, completed, *)
(* dropped for a newer one, or discarded by shutdown; and in_flight_ counts  *)
(* the workers between taking an item and counting it completed.            *)
JobsConserved ==
  /\ stats.submitted = stats.completed + stats.dropped_oldest + discarded
                         + Len(queue) + inFlight
  /\ inFlight = Cardinality(Holders)

(* No job is queued twice, taken twice, or taken while still queued: the     *)
(* queue is in submission order and every ticket a worker holds is older     *)
(* than every ticket queued and different from every other held one.         *)
TicketsUnique ==
  /\ \A i, j \in DOMAIN queue : i < j => queue[i] < queue[j]
  /\ \A i \in DOMAIN queue : queue[i] <= stats.submitted
  /\ \A w \in Holders : \A i \in DOMAIN queue : held[w] < queue[i]
  /\ \A v, w \in Holders : held[v] = held[w] => v = w

(* The queue never outgrows its capacity, whichever policy applies, and the  *)
(* reported peak is an upper bound of what was queued.                       *)
QueueBounded ==
  /\ Len(queue) <= stats.peak_queue_depth
  /\ stats.peak_queue_depth <= Capacity

(* No lost wakeup: while workers exist, queued work always has a worker on   *)
(* its way to the queue or a notification still to be delivered; and once    *)
(* stopping is set no worker stays blocked after notify_all.                 *)
NoLostWakeup ==
  /\ queue # <<>> =>
       \/ \E w \in Workers : wpc[w] \notin {"waiting", "down", "exited"}
       \/ \E c \in Clients : cpc[c] = "notify"
       \/ opc = "notifyAll"
  /\ opc = "join" => Waiting = {}

(* A client blocked in drain() is blocked for a reason: there is still work, *)
(* or, after shutdown(true) emptied the queue, a worker that will wake it.   *)
DrainersWoken ==
  (\E c \in Clients : cpc[c] = "drainWait") =>
     \/ ~Idle
     \/ stopping /\ running /\ \E w \in Workers : wpc[w] \in {"top", "waiting"}

(* When the joins of shutdown have returned, no accepted work is left.       *)
NothingLeftBehind ==
  ~running \/ opc = "joined" => Idle /\ \A w \in Workers : wpc[w] = "down"

(* The threads together do what the class promises: whatever their steps,    *)
(* jobs start in the order of acceptance, each once, from a line that never  *)
(* outgrows its capacity, and only the oldest or all of them are given up.   *)
Pool == INSTANCE JobPool WITH
          accepted <- stats.submitted,
          pending <- queue,
          busy <- {held[w] : w \in Holders}

PoolSpec == Pool!Spec

(* Every drain() returns, once submissions stop (MaxSubmitted stops them).   *)
DrainReturns ==
  \A c \in Clients : cpc[c] \in {"drainWait", "drainCheck"} ~> cpc[c] = "idle"

(* Every shutdown() returns.                                                 *)
ShutdownReturns == opc # "idle" ~> opc = "idle"

(* Every accepted job leaves the queue and the worker that took it.          *)
AcceptedWorkFinishes ==
  \A k \in 1..MaxSubmitted :
     k \in Tickets(queue) \cup {held[w] : w \in Workers} ~>
       k \notin Tickets(queue) \cup {held[w] : w \in Workers}
=============================================================================
