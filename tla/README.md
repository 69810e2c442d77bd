# A verification project for Jitter Observatory

TLA+ modules that model the parts of Jitter Observatory where state, concurrency,
ordering and numbers matter, TLC runs that check them on small instances, and proofs that
hold for every value of the constants. Paths below are relative to the repository:
the library is `src/src/*.cpp`, its headers `src/include/jitter/*.hpp`, its
programs `src/apps/`.

## 1. The system

Jitter Observatory ingests batches of latency observations, keeps them in bounded
windows, and answers questions about timing instability. One `Observatory` object
holds everything behind one mutex. It is called directly, through a server that reads
batches from sockets, or by jobs of a bounded worker runtime.

| Component | State | Operations | What makes it correct |
| --- | --- | --- | --- |
| Worker runtime (`runtime.cpp`) | `queue_`, `running_`, `stopping_`, `in_flight_`, `token_`, `stats_`, two condition variables | `start`, `submit`, `drain`, `cancel`, `shutdown`, `worker_loop` | no accepted job is lost, run twice or reordered; nobody sleeps on work; `drain` and `shutdown` return |
| Source fence (`source.cpp`) | per source: incarnation, epoch, last sequence, last content | `evaluate_sequence`, `apply_sequence` | a batch counts once, in the order the source promises, whatever the network does |
| Contradiction log (`evidence.cpp`) | bounded map of conflict records | `append` | every record is a real contradiction; what is dropped is counted |
| Batch admission (`sample.cpp`, `engine.cpp`) | none | `validate_batch`, tests against the registries | nothing enters a window that its series does not measure |
| Path catalog (`path.cpp`) | descriptors, generations of each path | `register_path`, `observe_topology`, lookups | one open generation, ordinals never reused |
| Sample windows (`window.cpp`) | ring of samples per series and generation | `add`, `select` | bounded, duplicates ignored, closed generations frozen, the order of arrival without effect |
| Episode log (`episode.cpp`) | open episodes, bounded list of closed ones | `observe`, `retire` | at most one open per series and generation, opened and closed on evidence |
| Clock model (`time.cpp`) | clock domains, declared equivalences | `register_domain`, `declare_equivalence`, `assess` | incomparable clocks are never subtracted |
| Evidence freshness (`evidence.cpp`) | none | `assess_sample` | old evidence never supports a statement about now |
| Metrics (`metrics.cpp`) | none | `compute`, `compute_all` | a value is what its formula says |
| Summary and classification (`summary.cpp`, `classification.cpp`) | none | `summarize`, `classify` | no verdict without enough fresh evidence |
| Baselines, attribution (`baseline.cpp`, `attribution.cpp`) | a bounded baseline table | `capture`, `compare`, `attribute` | refuse rather than approximate |
| Engine (`engine.cpp`) | all of the above, registries | `register_*`, `observe_topology`, `ingest`, `summarize`, `compare`, `attribute`, `save`, `restore` | the parts move together: what is accepted is stored, what is refused leaves no trace |
| Store file (`persistence.cpp`) | a chained, checksummed record file | `create`, `reopen`, `append`, `append_trailer`, `load_store` | a crash leaves a file whose damage is found |
| Save and restore (`engine.cpp`, `codec.cpp`) | the engine against a file | `save`, `restore` | a restart neither revives evidence nor loosens the fence |
| Ingest transport (`transport.cpp`, `wire.cpp`, `platform/socket.cpp`), probe (`src/apps/jitter-ingest-probe`) | sessions, receive buffers | `hello`, `batch`, `bye` frames | what a client is told is true; a lost connection and a retry do no harm |
| Command line, scenarios (`src/apps/jitterctl`, `scenario.cpp`) | none | `serve` saves when it has served | |
| Reports, rendering, codecs, digests, lock audit | none that decides anything | formatting, encoding | |

**How they interact.** `ingest` checks the batch against the registries and the path
catalog, asks the fence of its source, finds or creates a window, stores the samples and
only then moves the guard. A contradiction goes to the conflict log and nothing else
changes. `observe_topology` closes a path's generation, opens the next, and retires the
episodes of every series on that path. `summarize` selects samples of a window, assesses
their freshness against the caller's clock, computes metrics of the fresh ones,
classifies, and feeds the verdict to the episode log. Every public entry point takes
`mutex_` and calls no other (`engine.cpp:1124-1128`), so calls of many threads
interleave only as whole calls, and each call is one action here. The runtime is the
exception: workers, submitters, drainers and the owner meet in critical sections of a
queue mutex, and one counter is written outside it. The runtime runs its jobs outside the
queue mutex, so the two mutexes are never nested by the runtime itself. The server
handles one connection after the other and saves when it has served them all.

**What is hard.** Notifications sent outside the lock and spurious wakeups; shutdown with
work queued, in flight or discarded; batches lost, repeated and reordered, from sources
that restart with or without a new incarnation; samples that age, clocks whose
equivalence expires, and route changes that happen, between a batch's measurement, its
arrival and the question asked about it; bounded tables when they are full; differences
that overflow; a crash between two records of a save; an acknowledgement that is lost.
`PROJECT.json` lists each of these under `hazards`, at the line where it bites, with the
properties that cover it, or why none does.

## 2. The modules

| Module | Models | Extends / instances |
| --- | --- | --- |
| `JobPool` | what the runtime promises, without threads | |
| `Runtime` | the worker runtime | instances `JobPool` |
| `SourceGuard` | the guard as operators: `Evaluate`, `Apply`, the order `Before` | |
| `SourceFence` | ingest reduced to the fence: one action per verdict, with the conflict log | `SourceGuard` |
| `PathCatalog` | paths and generations: state and the action of each operation | |
| `EpisodeLog` | open and closed episodes | |
| `Observatory` | the engine's calls over all of these | `PathCatalog`, `EpisodeLog`, `SourceGuard`; instances `SourceFence` for its actions |
| `Checked` | integers of a fixed width: `Fits` and `Wrapped` | |
| `ClockModel` | clock domains and equivalences | `Checked` |
| `Freshness` | the state of one observation at an instant, and of many | `ClockModel` |
| `Listings` | a finite set listed in an order, what is left of a sequence, sorted numbers and sums | |
| `SampleWindow` | a window, its three kinds of selection | `Checked`, `Listings` |
| `Metrics` | the eighteen metrics over exact fractions | `Checked`, `Listings` |
| `Formulas` | reference definitions of the same metrics, written without the code | `Metrics` |
| `Classification` | `summarize` and `classify` | `Freshness`, `Metrics`, `Listings` |
| `Baselines`, `Attribution` | comparison with a frozen measurement; timing per hop | `Freshness`; `ClockModel`, `Metrics`, `Listings` |
| `Admission` | the tests of a batch before the fence | |
| `Analysis` | every question the engine answers about one series | all modules from `ClockModel` on |
| `StoreFile` | the store file, its writer and its reader | |
| `EngineRestart` | an engine that saves, dies and is restored | `SourceGuard`, `EpisodeLog` |
| `IngestService` | server, clients, connections and the server process | `SourceFence` |
| `Induction` | lemmas about sets of naturals and the runs of a recursive function, and from them about listings, sums and sorted sequences | `Listings` |
| `EpisodeLogProofs` | lemmas about the list of closed episodes | `EpisodeLog`, `Induction` |
| `RuntimeProofs`, `ObservatoryProofs`, `AnalysisProofs`, `StoreFileProofs`, `EngineRestartProofs`, `IngestServiceProofs` | theorems; those of `SourceFence` are in `IngestServiceProofs` | the module they are named after, and the lemmas of the two above |
| `MC...` | the instances TLC checks | |

### Runtime and JobPool

One action is one critical section of `mutex_`, or a step between two. A condition
variable is the set of threads blocked on it: workers at `"waiting"` for
`work_available_`, clients at `"drainWait"` for `idle_`. `notify_one` moves any one
waiter, `notify_all` all of them; `SpuriousWake` moves one without a notification. A
submitter that queued a job releases the mutex before it notifies (`runtime.cpp:87`), so
`Submit` and `NotifyOne` are two actions. `++stats_.cancelled` at `runtime.cpp:122` is
executed without the mutex: it is a load (`SkipLoad`) and a store (`SkipStore`), with
steps of other threads in between, which is the weakest thing the build may do to a data
race short of tearing. A job is its ticket, the value of `stats_.submitted` when it was
accepted, and it returns, well or badly. The history variable `discarded` counts the jobs
that `shutdown(true)` gives up. One thread, the owner, calls `start` and
`shutdown`, as every caller in the repository does; any client calls `submit`, `drain`
and `cancel`. Nothing clears the token (`runtime.cpp:153`), so a runtime restarted after
`cancel` skips its jobs, and the model does too.

`JobPool` is the class as its users see it: accepted jobs wait in a bounded line, start
in the order of acceptance, each once, and end; the oldest may make room for a new one,
and all that wait may be given up. `PoolSpec` says that `Runtime` implements it, with
`stats.submitted`, the queue and the tickets the workers hold as its state.

### SourceGuard and SourceFence

`Evaluate` is `evaluate_sequence`, test by test, and `Apply` is `apply_sequence`, also
for positions it would only get from a restart. `SourceFence` keeps the guards, the
conflict log and the history of accepted batches. Each action is one verdict: the batch
is accepted and the guard moves, it is archival and the guard stays, it is a
contradiction and is recorded, or it is refused. Any batch may come at any time: that is
a network that loses, repeats and reorders, and sources that restart as they please. A
content is what the digest of a batch stands for; two batches with one digest are one
batch. A conflict record's identity covers source, sequence and the two contents, not the
incarnation or the epoch. The log drops the record with the smallest digest, so in the
model any record may go.

### PathCatalog, EpisodeLog, Observatory

These modules declare their own state, and `Observatory` extends them: each of its actions
is one call of the engine, with all the changes the call makes. A batch carries one
sample, and its content says for which series and generation and at what time it was
received. `Ingest` is the order of `ingest_locked`: admission, fence, window, samples,
guard. Its outcomes are the actions of `SourceFence` conjoined with what happens to the
windows, and no other call touches guards, log or history; that the engine behaves as the
fence is therefore by construction, and what the fence promises is checked and proved
there. What the composition adds is the order of the parts (`AcceptedIsStored`).
`Summarize` is `summarize_locked` with episode tracking: `Selections` are the samples a
count window may select (samples of one instant are told apart by digest, so any choice
among them), `Fresh` and `Expired` what the freshness policy makes of them now, `LevelsOf`
what `classify` may then say: once the evidence suffices, any level the rules can give.
How the level follows from the numbers is the subject of `Analysis`. `RegisterRoute` is
`register_path`, which is refused when the catalog is full, may open a generation and does
not retire episodes; `ObserveTopology` is the call that does. Time is a counter that the
caller advances (`context.now_utc_ns`).

Assumptions of `Observatory`, besides the bounds: a batch's clock is comparable with the
caller's and agrees with its stamp, so observation age and ingest age are one age; stamps
are not in the future; there is one instability policy and one window policy. `Analysis`
drops the first two. Digests are taken to determine what they digest.

### Analysis and its parts

`Analysis` is one series asked at any instant, with the clock, the freshness policy and
the window policy chosen at the start. A step registers a clock, declares an equivalence,
ingests a batch of one or two observations in either order, changes the route, captures
a baseline, or starts the engine again on its samples with another window policy.
`Summary`, `Comparison` and `HopReport` are the answers of `summarize_locked`,
`compare_locked` and `attribute_locked`, put together from the operators of the other
modules exactly as the engine does; time is no variable, since a question names its own
instant, and the properties ask at every one.

* `Checked`: where the code tests for overflow, `Fits` says whether the result can be
  represented; where it does not, `Wrapped` is what comes out. Widths are a constant.
* `ClockModel`: a domain is its identity, its unit and whether that has a rate are
  constants. `Comparability` is `assess`: unknown domains, units without a rate,
  authority, expiry.
* `Freshness`: `AssessSample` is the order of the tests in `assess_sample`. The
  observation age is a plain difference of ticks, as in the code.
* `Listings`: the listing of a set in an order says what a sort returns and not how, also
  of numbers, where equal ones may stand in several places (`Sorted`). `Sum` is a recursive
  function, so that proofs can follow it.
* `SampleWindow`: `AddSample` with duplicates, late samples and eviction in order of
  arrival, `Filled` for a whole batch (`store_samples`); `Select` for count, time and
  tumbling windows over the samples in the order of `sample_less` (`Canonical`).
* `Metrics`: the table of definitions and the estimators of `metrics.cpp`, over fractions
  instead of doubles. `Formulas` says what each is declared to be, by other means: order
  statistics by counting, variance by pairs, the smoothed delta in closed form.
* `Classification`: `SummaryOf` is `summarize` (only fresh observations enter the
  numbers), `Level` is `classify` with the rules and thresholds of the policy.
* `Baselines`, `Attribution`, `Admission`: the branches of the functions they name.

### StoreFile

A record on disk is a chunk: its body, the chain digest stored behind it, and whether it
is whole. A digest determines what it digests, so a chain value is the sequence of the
bodies before it, and `Readable` compares a chunk's chain with the one of the chunk before
it. `Valid` is how far `load_store` gets: to the first record it cannot trust, or to the
trailer. The flags of `StoreRecovery` are operators over the file. The writer appends to a
buffer (`pending`) that the stream may spill at any time, and that `flush`, `close` and
`append_trailer` empty; `Crash` loses the rest of it and may leave a torn record, and
stands for a write that fails as well. `Create` empties the file at once while the new
header is still in the buffer, as `std::ios::trunc` does. `Reopen` refuses or cuts the
file as `reopen` does and goes on from the last record kept. Between two writers the file
may be altered: a record damaged, its length raised past the end of the file, a record
removed, repeated or exchanged with the next, or the header damaged. Record types of newer
builds and the limit on bytes are left out. Nothing is appended behind a trailer, as in
`save`: the writer would accept it, and `load_store` would not read it.

### EngineRestart

An engine with one source, one series and one path, its store and the process after it.
The store is its records by kind; `Place` is the order in which `save_locked` writes the
kinds, and `Written(kind, n)` what is on disk once n records of a kind are. `DieSaving`
leaves any such beginning, with or without a torn end, which is what `StoreFile` shows a
store to be after a crash. `Restore` is `restore_locked`: the samples come back one
generation after the other, in any order of the map, each by time of observation
(`Grouped`), and each enters its window and moves the guard by its own digest
(`Rebuilt`); the stored guard then replaces the rebuilt one unless it has a lower
sequence; episodes join the list of closed ones, open ones closed as lost (`Imported`);
samples are withheld unless the caller and the configuration admit them. `image` and
`covered` are history: what the engine held, and had accepted, when it last began to save.
The digest of a batch is never that of its sample, which is why `Contents` are pairs.

### IngestService

The server takes one connection after the other; `serving` is the client it handles.
Frames travel whole and in order in `toServer` and `toClient`; a connection is open, hung
up by the client, closed by the server or cut, and a cut loses any end of what is on its
way. One action of the server is one frame: read, decided by the fence, answered. An
error frame ends the connection; a failed read ends `serve` and with it the process, which
then has saved nothing (`Fail`); so does an answer written to a connection that is gone,
because nobody handles the signal. `Save` ends the process after `MaxConnections`
connections, and `Restart` starts another on the store. A probe says hello, sends each
batch of its plan and waits for each answer, says bye and exits with 0, 2, 3 or 4. Peers
send any frame at any time, other versions, damaged and premature ones included. A save is
complete here: saves that are cut off are the subject of `EngineRestart`.

## 3. The runs

| Run | Instance | Shows |
| --- | --- | --- |
| `runtime` | 2 workers, 2 clients, queue of 2, `drop_oldest`, 3 jobs, 2 starts | conservation, wakeups, complete shutdown; the threads implement `JobPool` |
| `runtime_liveness` | 2 workers, 2 clients, queue of 1, `reject`, 2 jobs, 1 start | `drain` and `shutdown` return, accepted work finishes |
| `fence` | 1 source, 2 incarnations x 2 epochs x 2 sequences x 2 contents, log of 2 | the fence under every order and repetition of sixteen batches |
| `observatory` | 2 paths: one with a series, 2 topologies and 3 generations (history of 2), one with 1 topology and no series; 3 instants, 2 windows of 2 samples, log of 1, 2 closed episodes | generations, windows and episodes move together; a route change ends its own path's episodes and no others |
| `analysis` | integers of 5 bits, 4 clocks, 3 window policies, 2 freshness policies, 2 hops, 3 samples out of 4 good batches per clock and 6 bad ones, 2 generations, 1 baseline | selections, metrics, verdicts, comparisons and hop timings agree with independent definitions |
| `store` | 2 payloads, 4 records, 2 alterations | what is read back is a prefix of what was written; what was flushed survives |
| `restart` | 3 batches of a source that boots twice, 2 generations, window of 2, 2 lives, a configuration that does not admit persisted evidence | a restart neither revives evidence nor loosens the fence |
| `session` | 2 probes, 1 peer with 2 frames out of 6, 2 connections and 2 batches per connection, 1 fault, 2 server lives | what a probe counts is true; saved is final; every probe ends |
| `reroute`, `contradiction` | as `observatory`, without the second path | findings, section 6 |
| `metrics` | as `analysis` | a finding, section 6 |
| `withheld` | as `restart`, with a configuration that admits | a finding, section 6 |

**Why the bounds are enough.** *Runtime*: two workers and two clients give every race
between two threads of one kind and of two kinds; a third of a kind would only repeat a
role. Three jobs over a queue of two reach the full queue, and a second start follows a
shutdown of either kind and a cancelled token. *Fence*: the guard is compared with one
batch at a time, so two values of each component cover every sign of every comparison,
and a log of two with three recordings overflows. *Engine*: three generations over a
history of two trim the history; two windows for three generations fill the table; three
instants over budgets of 0 and 1 make a sample fresh, stale and expired; two samples per
window and `MinFresh` of two give every count of fresh samples around the threshold, and
`CloseWindows` of two an episode half-way to recovery. The second path changes its route
once, at any moment of the first one's history, which is what could disturb episodes
elsewhere. Three cases are left to the proofs: several series on a path, an episode inserted
in the middle of the closed ones, which takes four batches where the run ingests three
(`EpisodesKept` is about any list), and a catalog
without room for a second path. *Analysis*: an observation at -15
makes its age at any instant and its distance from the others overflow five bits, and its
latency is negative, so that sums are of either sign and none; one of
the clocks counts nanoseconds, one two of them, one has no rate; one
equivalence expires between the two instants, the other never does; the
samples tie in none of their keys and are received out of order; a policy of capacity two
evicts; thresholds separate stable, elevated and unstable. Three readings are the
fewest for which every metric is defined and quantiles interpolate. *Store*: four
records leave room for one to be lost, one to be torn and two to follow a reopening, and
crashes and reopenings are not bounded; two alterations include every pair, such as an
exchange and a damage. *Restart*: an earlier boot with a higher sequence, the later boot
with a lower one and a batch of the next route are what the merging of guards could
confuse; a save is cut behind every record. *Session*: the second probe repeats the first's
plan and goes over the budget of a connection; the peer may contradict it; one fault is a
cut or a killed probe at any moment, and the failures of the server are not bounded by it.

Bounds on counters (`MaxSubmitted`, `MaxRefused`, `MaxStarts`, `MaxRecorded`,
`MaxArchived`, `MaxOrdinal`, `MaxTime`, `MaxForgotten`, `MaxTampers`, `MaxSamples`,
`MaxLives`, `MaxSaid`, `MaxFaults`, and `Routes`, the topologies each path sees) are
guards that only stop a behaviour. Deadlock is not checked where the bounded calls can run
out; that no thread of the runtime is left blocked is checked by `NoLostWakeup`,
`DrainersWoken` and the liveness properties, that no session is by `SomeoneSpeaks` and
`ProbesEnd`. Symmetry is used for workers and clients (the safety run), contents
(`fence`), the topologies of the path with a series (`observatory`) and payloads, in
safety runs only, and nothing there tells the members apart: the position of a content in
a batch, or of a topology in a generation, is an argument and never a constant of the
instance.

**Properties.**

* Runtime. `JobsConserved`: an accepted job is in exactly one place. `PoolSpec`: jobs are
  started once and in order. `NoLostWakeup` and `DrainersWoken`: whoever is blocked is
  blocked for a reason. `NothingLeftBehind`: a finished shutdown leaves no job.
* Fence. `AcceptedInOrder`, `GuardIsLastAccepted` and `RedeliveryFenced`: no position
  counts twice. `ConflictLogTrue`: every conflict record is one, and what the
  log dropped is counted.
* Engine. `OneOpenGeneration`, `GenerationsOnlyClose`: route history.
  `ClosedWindowsFrozen`: a route change segments evidence. `AcceptedIsStored`: a full
  window table never lets the guard pass over evidence that was not stored.
  `OneOpenEpisode`, `ClosedEpisodesKept`, `EpisodesNeedFreshEvidence`,
  `EpisodesEndWithGeneration`: episodes. `EpisodesCloseForCause`: what closes was open and
  closes for the reason it states, so a route change leaves the episodes of other paths
  alone; and a summary that comes after its generation has closed neither opens an episode
  nor extends one.
* Analysis. `SelectionAsDeclared`: a selection is what its policy says of the retained
  samples (`Chosen`), except for readings further apart than an integer can say.
  `OrderIndependent`: short of eviction the order of arrival is without effect.
  `MetricsFollowFormulas`: fifteen of the eighteen metrics have the declared value, and
  fail exactly where they must, and the metric of a hop is that of its readings in
  nanoseconds, but for one difference whose negation overflows (section 6).
  `VerdictNeedsEvidence`: a positive level is about the open generation and rests on
  enough observations that are young and of a clock that can be dated. `VerdictSupported`:
  it follows, by the rules of the policy, whatever rules those are, from the declared
  values over the fresh observations, and from no others; rules over the three metrics
  without a declared value (section 6) are excluded. `ComparisonGrounded`: changes are
  reported only within one generation and window policy, between values that have enough
  observations behind them. `AttributionGrounded`: a hop's value comes from enough
  readings of one comparable clock. `NeverRefreshed`: an observation that has aged is not
  fresh at a later instant, whatever happens to clocks in between.
* Store. `RecoveredIsPrefix`: no alteration of the file invents, exchanges or skips a
  record. `FlushedSurvives`: crashes and reopenings lose nothing that was flushed.
  `TrailerMeansComplete`: a clean file without a trailer may be a partial save, one with a
  trailer is not. `CrashIsNotCorruption`: a crash never leaves a file that every reopening
  refuses.
* Restart. `PersistedNotCurrent`: evidence out of a store is not current where the
  configuration does not admit it, however often it arrives again. `ReplayFenced`: what
  was accepted and came back with its samples is not accepted again, also when the save
  was cut before the guards. `RestoreReturnsTheSaved`: all of a finished save comes back,
  of another a part and nothing else.
* Session. `AnswersAreTrue`: although no answer names its batch, what a probe counts as
  acknowledged is what was accepted on its connection, and one batch at most is in
  doubt. `SavedIsFinal`: a saved batch stays saved and is not accepted again.
  `SomeoneSpeaks`, `ProbesEnd`: nobody waits for one who waits for him.

Each property is also run against a plausible fault of the code (`mutants` in
`PROJECT.json`): operators such as `TakeUncounted` or `IngestGuardFirst`, kept beside what
they break and used nowhere else.

## 4. Fairness

Two modules state liveness. In `Runtime` a worker that can take a step keeps being
scheduled (`WF` on `WorkerStep`), which includes that a job returns; `submit` delivers
its notification, a woken `drain` looks again, and `shutdown` goes on once its joins can
return. These are threads inside a call, which the operating system runs. Weak fairness
is enough: none of these steps is disabled for ever again and again by others, because a
woken thread re-evaluates its predicate under the mutex and either goes on or blocks.
Spurious wakeups happen but are never relied on, and nobody is obliged to call anything.
`DrainReturns` needs submissions to stop, which `MaxSubmitted` provides: `drain` waits for
an instant at which the runtime is empty, and the code promises none under endless load.

In `IngestService` a server process and a probe that can take their next step take it
(`WF` on `ServerStep` and on `ProbeStep` of each probe). Nobody has to connect, to speak,
to hang up or to start a server again. Neither side has a timer (`docs/tooling.md:95`),
so `ProbesEnd` is conditional: a peer that keeps its connection open for ever keeps the
server from everybody else.

## 5. Proofs

TLAPS checks every step of eight modules, six with theorems about the components of section
2 and two with the lemmas those rest on; they hold for every value of the constants that the
named `ASSUME`s allow, and TLC evaluates those assumptions in every run. Every safety
property that a passing run checks is a theorem; what TLC alone checks is liveness.

**`RuntimeProofs`**, for any finite non-empty set of workers, any clients, any capacity,
either policy. The inductive invariant is `IInv == TypeOK /\ JobsConserved /\ Phases`.
`JobsConserved` alone is not inductive: that `in_flight_` counts the workers holding a
job is lost when `start` makes new workers, unless nobody holds one then.
`Phases` says so: it ties the owner's position to `running_`, `stopping_`, the queue and
the workers (in particular a worker leaves only a stopping runtime with an empty queue).
From `Invariance` follow `TypeCorrect`, `Conservation` and `ShutdownComplete`. `Bounded`
adds that the queue never outgrows the recorded peak, and the peak the capacity.
`Wakeups` and `DrainersNotForgotten` are invariants relative to `IInv`: their steps argue
about who is on the way to the queue when the last worker blocks or leaves.

That the threads implement `JobPool` is the last part of the module. The refinement rests
on `PInv`, which adds to `IInv` that tickets are unique: the queue ascends, every held
ticket lies below it, no two workers hold the same, and none is above the last one given
out (without that last part nothing protects the next ticket while the queue is empty).
`Uniqueness` is the invariant, `ImplementsPool` the refinement: each action maps to a step
of the pool or to a stutter, with one lemma per kind of step.

**The fence** (first part of `IngestServiceProofs`), for any sources, positions, contents
and log size. The inductive invariant is `TypeOK`, `GuardIsLastAccepted`,
`AcceptedInOrder`, `ConflictsAreReal`, `ConflictsAccounted` and that the log is finite.
The lemmas about the operators come first: `AcceptAdvances` (what `Evaluate` accepts lies
after the guard), `ApplyFollows` (`Apply` then stands where the batch was), `BeforeTotal`
and `BeforeTransitive`. `GuardIsLastAccepted` carries the induction: the order of the last
two accepted batches is the order of the guard and the new batch. `Redelivery` follows
without induction.

**`ObservatoryProofs`** is about the engine, for any paths, series, sources and bounds.
`OneGeneration` uses the type of the catalog (`CInv`); its core is `OpenedWellFormed`,
that closing the newest, appending and trimming a history keeps its ordinals consecutive
and its last one open. `ClosedRoutesFrozen` and `OneEpisode` each have an invariant of
their own (`WInv`, `EInv`). `EpisodesFollowRoutes` needs all of them and `RInv`, that
windows and open episodes belong to registered series: otherwise `observe_topology`, which
retires the episodes of the registered series of its path, might pass one over.

`RoutesOnlyClose` adds that every ordinal is below the bound (`OInv`) and says of
`OpenedWellFormed` what it does to each generation that is still there: it is what it was,
or that closed. `AcceptedStored` needs that the accepted batches of a source are a
sequence (`AInv`), so that the last one is the one just ingested, and looks at both ways a
full window takes a sample in. `EpisodesAreGrounded` follows the level that `Summarize`
draws back to the samples it was drawn from. `EpisodesKept` rests on `LogHeld` (each
series has a `Chronicle`: at most `MaxEpisodes` closed episodes in opening order) and on
`Follows`, a relation between a list and what it became. The property as the run states
it, about one step, does not compose: closing several episodes in one call drops one after
the other. `Follows` adds that a full list of episodes none of which opened before an
instant stays one, which makes it transitive (`FollowsOn`), so that it holds of any number
of insertions (`JoinedByAll`, in `EpisodeLogProofs`). `EpisodesHaveCauses` needs the
other direction: that nothing but the episodes being closed joins a list (`ClosedFrom`,
which the second half of `Gathered` carries through the insertions), what one observation
opens and closes (`ObservedFrom`), and that observing a changed topology does change the
history of the path, trimmed or not (`NewRoute`).

**`AnalysisProofs`**, for any clocks, units, policies, batches and any width of integers.
The lemmas come first. `ListingIs`: a listing holds each element of a finite set once, in
order, and an element's place is the number of those before it; so two listings of one set
are one, and what the last `count` of them are can be said without a sort. `FilledIs`: a
batch leaves in a window nothing but what was there and what it brought, each once, and all
of it where the capacity suffices (`HasRoom`). `SelectionIs`: each of the three selections
is `Chosen`; for tumbling windows that two readings have the same multiple of the duration
below them exactly when they lie between the same two (`SameMultiple`, from `DivisionExists`,
since the solvers know little of `%` by a variable). The inductive invariant is `TypeOK`,
`Kept` and `Measured`. `Kept` says that a window holds, each once, samples that its
generation was offered and that its clock may store, and all of them as long as every policy
had room for all: the last part is what survives a change of policy, which fills the windows
anew from what they retained. From it `SelectionsFollowPolicy` and
`OrderOfArrivalIrrelevant`. `Measured` says that a baseline has a value of a metric only if
enough of the observations it was taken from counted, and gives `ComparisonsAreGrounded`
together with the same fact about a summary (`SummaryFrom`).

`VerdictsNeedEvidence` adds that the clocks of the series and of the engine stay registered
(`ClocksKnown`): a sample of an unknown clock would be neither comparable nor
incomparable, and fresh under a policy that does not ask for an observation age. Then
whatever `assess_sample` calls fresh may count (`FreshMayCount`, over its eight tests), and
`classify` counts at least `min_fresh` of those before it says anything positive.
`AttributionsAreGrounded` does the same for the tests of `attribute_hops`; that clocks are
comparable does not depend on which is named first (`ComparableBothWays`). `EvidenceAges`
is about two instants and the step between: clocks are only ever added, a comparable pair
may become incomparable but not unknown, and ages grow.

`MetricsAreDeclared` is about numbers and needs no more of the state than that what a
window holds was admitted, so that latencies are within limits whose difference an integer
can hold (`KeptLimited`, `LatenciesAre`): no difference of two of them overflows. The rest
is algebra, for sequences of any length. The squared deviations from the mean and the squared
differences of all pairs are both expanded into the sum and the sum of squares
(`SquaresExpanded`, `PairsExpanded`), which makes them equal but for a factor
(`VarianceByPairs`, `VariancesAlike`, `RatiosAlike`). The k-th of the sorted readings has
fewer than k readings below it and at least k up to it (`SortedIs`), and one number at
most does (`RankIsOne`), so sorting and counting agree (`RankedIs`, `QuantileIs`; the
two interpolations differ by a factor only). Differences of neighbours add up to that of
the ends (`StepsAddUp`); the smoothed delta is a sum weighted by powers of 15 and 16, by
induction along both recursions at once (`SmoothedIs`, `PowerIs`). `ComputeIs` is when
`compute` has a value at all, `MetricIs` that it is then the declared one up to the way
the fraction is written (`Alike`, which also says that denominators are positive, without
which two fractions that are equal crosswise could be nothing of the kind). A hop has
readings of one clock with a rate (`HopIs`), so what it hands to `compute` are integers.
The three metrics of section 6 are outside, as in the property.

`VerdictsFollowPolicy` puts these together with `classify`: alike values breach the same
thresholds, also those of a root (`SameSide`, `BreachesAlike`), a rule can be evaluated
exactly when it is `Telling` of the readings (`RuleIs`), so the rules call for a level
exactly when the declared values reach it (`RulesAre`), and the readings are those of the
fresh observations of the selection (`SummaryIs`).

`AnalysisAssumption` says of batches what admission and the types of the code give: samples
are integers, and of two different samples of one clock one is less than the other
(`sample_less` breaks ties by the digest, which here stands behind latency and receipt).
Anchors of tumbling windows are not negative, as nothing in the repository sets one
(`window.hpp:39`) and `window.cpp:189-191` would overflow for a far enough negative one;
the limits on latencies are within 64 bits of each other (`limits.hpp:61` has an hour either
way); thresholds are numbers, as `classification.cpp:178` asks;
`WindowAssumption` is that `kMaxWindowDurationNs` is an integer.

**`StoreFileProofs`**, for any payloads, any number of records, crashes, reopenings and
alterations. What is read back is a chain of digests, so nothing about the file alone can
be inductive: `IInv` relates it to `log`, the history of what was appended. `AllGenuine`
says that every chunk, wherever an alteration has moved it, is one that was written for
this store: its chain value names the records before it. `InPlace` says that chunks are
where they were written while nobody has altered the file, and whenever a writer has it
open, since `reopen` cut what did not verify; only the last may be torn. `WriterInPlace`
says that the buffer continues the file and the writer's chain value and count are those
of everything written (without it a reopened file would go on from anywhere), and
`AckedOnDisk` that what a flush covered is in the file and whole. `NothingForged` follows
from `AllGenuine` alone: a readable beginning is a chain of genuine chunks that starts at
the first, hence a prefix of `log`. `Durability`, `Completeness` and `CrashesAreBenign`
need the rest.

**`IngestServiceProofs`**, for any probes, peers, plans, budgets and any number of
connections, cuts and server lives. `ServiceInv` says of each probe's connection
(`Talk`): which of its plan's batches the server took on it are the ones the probe has
counted, up to the one it waits for (`Counts`); at most one frame is under way, in one
direction, and an answer under way says whether the batch the probe is at was taken
(`Flows`). An answer does not name its batch, so without that nothing ties a count to a
batch. `SavedIsPrefix` says that the store's batches are the beginning of the engine's,
and that the guards stand where those end. `ServiceAssumption` holds what the code gives a
probe: its plan comes from one scenario, whose batches have a sequence number each
(`scenario.cpp:242-323`), so no two frames of a plan are alike; a probe that repeated
itself within one connection could not tell which of the two was taken. Positions share
one incarnation and epoch because the store is reduced to the fence here; the proofs do
not use that. From the invariant: `ProbesAreToldTheTruth`,
`NobodyWaitsForNobody` and `SavedOnceForAll`.

**`EngineRestartProofs`**, for any batches, windows, generations, episodes and number of
processes, and wherever a save is cut off. There are two invariants. `RestartInv` is about
the fence: the guard covers every accepted batch, the guard in the store covers every
batch accepted when it was written, and what came out of a store is withheld where the
configuration does not admit it. The guard that a restore leaves is the rebuilt one, which
covers every sample that came back in whatever order (`RebuiltCovers`), or the stored one,
which covers all that was accepted at the save; neither need cover what the other does, so
`Fenced` is about the batches that were accepted and came back. `HeldInv` is about the
content: an engine without a generation of the path holds nothing of it, windows hold
nothing twice and nothing of another generation (`Kept`), and what can be read back is the
beginning of `image`, all of it if the save was finished (`Beginning`, `Complete`). From
it `RestoreFaithful`: a restore adds samples with the operation that evicts, in another
order than they arrived in, and nothing is lost because all of a window's samples had room
together before (`AddedComesBack`, by counting); and episodes are inserted one by one into
a bounded list, of which only a counted one is missing (`JoinedByAll`).

**`Induction`**. What a recursive function is at n is proved by induction over n, but the
induction theorems of the library take an operator as parameter. `LeastNumber` (a
non-empty set of naturals has a least element, from the well-foundedness of `<`) does
without, so do `AllAlong` (a set that holds 0 and with each number the next holds all of
them) and `RunExists` (a function that is defined step by step exists). A recursive
function over `0..n` is then such a run, and what holds along it a set: this is how
`Samples`, `Rebuilt` and `Joined` are reasoned about, whose definitions are folds over
sequences of any length, and how `Sum` is (`SumIs`). The module also holds what several
proofs ask of listings (`ListingIs`, `IncreasingIs`) and of sorted numbers.

**Only model-checked.** All liveness (`DrainReturns`, `ShutdownReturns`,
`AcceptedWorkFinishes`, `ProbesEnd`), since the prover does not reason about `ENABLED`; and
that the three other metrics do not have their declared values, which a counterexample
settles (`metrics`).

## 6. Findings

* **A route learnt by registration leaves episodes open** (`reroute`). `register_path` of
  a path known without hops opens a generation (`path.cpp:138`), and only
  `observe_topology` retires episodes. The README says that a new topology closes open
  episodes. `EpisodesEndWithGeneration` shows that this is the only way.
* **Contradictions block nothing** (`contradiction`). The conflict log is read only by
  history and save; no summary ever counts a conflicting sample, so the test at
  `classification.cpp:244` never refuses, against `docs/boundary.md:47-48`.
* **Three metrics have another formula's value** (`metrics`). The definitions at
  `metrics.cpp:308-322` apply mean, median and span to the latencies themselves;
  `docs/metrics.md:34-37` and the formula strings beside them declare deviations from the
  mean, from the median, and the interquartile range.
* **A caller cannot withhold evidence** (`withheld`). Under a configuration that admits
  persisted evidence the withheld set is not consulted (`engine.cpp:443`), although
  `engine.cpp:930` and `docs/persistence.md:58` say both have to ask for it.

Further disagreements are in the models but not runs:

* `++stats_.cancelled` (`runtime.cpp:122`) loses counts when two workers skip jobs at
  once; `tests/concurrency/test_runtime_concurrency.cpp:197` asserts that none is lost.
* `episode.cpp:169` counts every summary that is neither a breach nor a loss as recovery,
  too few samples included; `episode.hpp:21` says that the level returned below the
  threshold.
* A damaged length field in the middle of a store reads as an incomplete tail
  (`persistence.cpp:264`), so `reopen` with repair authority cuts off the intact records
  behind it, while `docs/persistence.md:46` says that such a store is refused.
* `window.cpp:174` and `:199` subtract ticks without a test, although the comment at
  `window.cpp:171-172` says they cannot overflow and
  `tests/adversarial/test_adversarial.cpp:391-392` forbids arithmetic that wraps around:
  readings at both ends of the range select wrongly. `SelectionAsDeclared` excludes them.
* The guard of a restored engine is rebuilt from sample digests across incarnations and
  archival samples (`engine.cpp:945-966`), so it may stand elsewhere than the saved one,
  against `docs/persistence.md:67-68`. It still fences (`ReplayFenced`).
* `absolute_deltas` (`metrics.cpp:62`) negates a difference that was only tested to fit, so
  it may be the smallest integer, whose negation overflows (`Wrapped` here): the delta is
  then negative, or undefined, where `docs/metrics.md:24-28` says \|x_i - x_(i-1)\|.
  Latencies that pass admission are far smaller, but readings of hops have no limits but
  their type. `MetricsFollowFormulas` excludes this difference for hops;
  `MetricsAreDeclared` shows that it is the only exception.

What the models say beyond that, and a reader of the code may want to know: ages of a
clock that does not count nanoseconds are compared with budgets in nanoseconds as they
are, so a reading with a negative tick may count as younger than it is; a reading so old
that its age overflows has no age, and may count as fresh under a policy that does not
require one; `received_at` is taken from the sample and never tested for the future; an
equivalence that has expired cannot be declared again; with `require_all_rules` a rule
that cannot be evaluated makes a series stable; a baseline may be captured without fresh
evidence, and twice takes two places; attribution uses stale samples; beyond its capacity
a window evicts by arrival, so arrival order matters there. A store whose save was cut off
between records restores silently as a part; a save empties the previous store first; a
restore into an engine that has generations stops half-way, keeping only registrations. A
broken connection ends `serve` without a save, taking back what was acknowledged; a lost
acknowledgement makes the repeated batch answer `accepted = false`, so the probe exits
with 3 although everything is stored; batches over budget get an error frame and no
acknowledgement, other than `docs/tooling.md:92` says.

## 7. Not modelled

* Reports, rendering, JSON and text: output that only reads. Two observations belong
  there: `history_locked` computes the generations dropped from an already trimmed list
  (`engine.cpp:539`), and lists only closed episodes, so both counts are always 0.
* Identities, digests and codecs: pure encodings; a digest is taken to determine what it
  digests.
* Lock audit: diagnostics of one mutex, per thread.
* The commands of `jitterctl` other than `serve`, and the scenario generator:
  single-threaded drivers of the library.
* Rounding of doubles and the compensated summation against it: metrics are exact here.
* `PathCatalog`: `bump_revision` changes metadata only, and `close_current` has no caller.
* The byte stream under the frames, and the buffer bound of `read_frame`: frames are whole.
* In `EngineRestart`: clocks, baselines and contradictions, which are saved and restored
  record by record like the rest; and a restore that stops half-way through several paths
  (`engine.cpp:880`), which leaves generations without samples.
* In `StoreFile`: the limit on bytes, and the status of the flush in `append_trailer`, which
  the code does not test (`persistence.cpp:654`).
* In `IngestService`: an `accept` that fails and a connection reset because it is closed
  with unread data are not events of their own; `Fail` and `Cut` have their effects. A
  restart restores the saved guard as it is, which is what `engine.cpp:963-966` does within
  one incarnation and epoch.
* In `EpisodeLog`: which of two closed episodes of one series that opened at the same
  instant comes first (`episode.cpp:62-67` asks their identities, the model which closed
  first).
* In `Attribution`: several timings of one hop in one sample.
* Two processes on one store: nothing locks the file, and each model has one.
