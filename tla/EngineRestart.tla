--------------------------- MODULE EngineRestart ---------------------------
(***************************************************************************)
(* An engine, its store and its next life: save_locked and restore_locked  *)
(* of src/src/engine.cpp between ingest, route changes and summaries, with *)
(* processes that die in between or while they save.  One source measures  *)
(* one series of one path.                                                 *)
(*                                                                         *)
(* StoreFile shows that what is read back is the beginning of what was     *)
(* written, whole when the trailer is there: here the store is that        *)
(* beginning.  A batch carries one sample; the digest of a batch is not    *)
(* that of its sample.  Time stands still.  Clocks, baselines and the      *)
(* contradiction log, which are saved too, are left out, and an archival   *)
(* batch is any batch.                                                     *)
(***************************************************************************)
EXTENDS SourceGuard, EpisodeLog

CONSTANTS
  Batches,       (* [position, ordinal, observed]: batches that may arrive *)
  Capacity,      (* config_.window.capacity                                *)
  ConfigAdmits,  (* config_.admit_persisted_evidence                       *)
  NoStore,       (* no file, or one without a header                       *)
  MaxOrdinal,    (* bound: generations of the path                         *)
  MaxArchived,   (* bound: archival batches                                *)
  MaxLives       (* bound: processes; the last one does not save           *)

ASSUME RestartAssumption ==
  /\ \A b \in Batches : /\ b.position \in Position /\ b.observed \in Nat
                        /\ b.ordinal \in 1..MaxOrdinal
  /\ Contents = {"batch", "sample"} \X Batches
  /\ IsFiniteSet(Series) /\ Cardinality(Series) = 1
  /\ Capacity \in Nat \ {0} /\ ConfigAdmits \in BOOLEAN
  /\ MaxOrdinal \in Nat /\ MaxArchived \in Nat /\ MaxLives \in Nat

VARIABLES
  registered,   (* sources_, series_ and paths_ hold the one of each       *)
  generations,  (* generations_: whether each is open, by ordinal          *)
  windows,      (* windows_: the samples, in order of arrival              *)
  guard,        (* guards_ of the source                                   *)
  restored,     (* restored_: identities of samples a restore withheld     *)
  store,        (* the file: the records that can be read back             *)
  image,        (* history: what the engine held when it last began a save *)
  covered,      (* history: `accepted' at that moment                      *)
  accepted,     (* history: the batches accepted by this process, or by    *)
                (* the one before it and restored with their samples       *)
  loaded,       (* history: samples this process got from the store        *)
  archived, lives  (* history: counters of the bounds                      *)

engineVars == <<registered, generations, windows, guard, restored, episodeVars>>
saveVars == <<image, covered>>
vars == <<engineVars, store, loaded, accepted, saveVars, archived, lives>>

S == CHOOSE s \in Series : TRUE
Ordinals == 1..MaxOrdinal
IsOpen(o) == o \in DOMAIN generations /\ generations[o]

NoWindows == [o \in Ordinals |-> <<>>]
Nothing == [generations |-> <<>>, windows |-> NoWindows, guard |-> NewGuard,
            closed |-> <<>>, open |-> {}]

(* A process that has just been initialized. *)
Blank ==
  /\ registered' = FALSE /\ generations' = <<>> /\ windows' = NoWindows
  /\ guard' = NewGuard /\ restored' = {} /\ loaded' = {}
  /\ open' = {} /\ closed' = [s \in Series |-> <<>>] /\ forgotten' = 0 /\ accepted' = {}

Init ==
  /\ registered = FALSE /\ generations = <<>> /\ windows = NoWindows
  /\ guard = NewGuard /\ restored = {} /\ EpisodeInit
  /\ store = NoStore /\ image = Nothing /\ covered = {}
  /\ accepted = {} /\ loaded = {} /\ archived = 0 /\ lives = 1

----------------------------------------------------------------------------
(* The engine at work. *)

(* register_source, register_path and register_series. *)
Register ==
  /\ ~registered /\ registered' = TRUE /\ generations' = <<TRUE>>
  /\ UNCHANGED <<windows, guard, restored, episodeVars, store, loaded, accepted, saveVars,
                 archived, lives>>

(* observe_topology with a new topology. *)
ChangeRoute ==
  LET n == Len(generations) IN
  /\ registered /\ n < MaxOrdinal
  /\ generations' = [o \in 1..(n + 1) |-> o = n + 1]
  /\ Close({e \in open : e.ordinal # n + 1}, 0, "generation_changed")
  /\ UNCHANGED <<registered, windows, guard, restored, store, loaded, accepted, saveVars,
                 archived, lives>>

Added(window, b) ==
  LET all == Append(window, b) IN
  IF b \in Range(window) THEN window
  ELSE IF Len(all) > Capacity THEN Tail(all) ELSE all

(* ingest of a batch the guard lets through; the others change nothing here. *)
Ingest(b, historical) ==
  LET verdict == Evaluate(guard, b.position, <<"batch", b>>, historical) IN
  /\ registered /\ IsOpen(b.ordinal)
  /\ windows' = [windows EXCEPT ![b.ordinal] = Added(@, b)]
  /\ \/ /\ verdict = "accept" /\ accepted' = accepted \cup {b}
        /\ guard' = Apply(guard, b.position, <<"batch", b>>)
        /\ UNCHANGED archived
     \/ /\ verdict = "historical" /\ archived < MaxArchived /\ archived' = archived + 1
        /\ UNCHANGED <<guard, accepted>>
  /\ UNCHANGED <<registered, generations, restored, episodeVars, store, loaded,
                 saveVars, lives>>

(* assess: nothing but age can take this sample's freshness from it.         *)
MayBeFresh(b) == ConfigAdmits \/ b \notin restored

(* summarize_locked with track_episodes. *)
Summarize(o) ==
  /\ windows[o] # <<>>
  /\ LET usable == {b \in Range(windows[o]) : MayBeFresh(b)} IN
     \E level \in IF usable = {} THEN {"stale"} ELSE {"unstable", "stable"} :
       Observe(S, o, IsOpen(o), level, 0)
  /\ UNCHANGED <<registered, generations, windows, guard, restored, store, loaded,
                 accepted, saveVars, archived, lives>>

----------------------------------------------------------------------------
(* save *)

(* The samples of one window after the other. *)
Samples ==
  LET upTo[o \in 0..MaxOrdinal] == IF o = 0 THEN <<>> ELSE upTo[o - 1] \o windows[o]
  IN upTo[MaxOrdinal]

(* Plausible fault: open episodes are not written. *)
SnapshotOfClosed ==
  [registration |-> IF registered THEN <<TRUE>> ELSE <<>>,
   generation |-> generations, sample |-> Samples, episode |-> closed[S],
   guard |-> IF guard.initialized THEN <<guard>> ELSE <<>>]

(* The records of each kind. *)
Snapshot ==
  [registration |-> IF registered THEN <<TRUE>> ELSE <<>>,
   generation |-> generations, sample |-> Samples, episode |-> SetToSeq(open) \o closed[S],
   guard |-> IF guard.initialized THEN <<guard>> ELSE <<>>]

(* The order in which save_locked writes the kinds. *)
Place == [registration |-> 1, generation |-> 2, sample |-> 3, episode |-> 4, guard |-> 5]

(* What is written once n records of a kind are. *)
Written(kind, n) ==
  [k \in DOMAIN Place |-> IF Place[k] < Place[kind] THEN Snapshot[k]
                          ELSE IF k = kind THEN SubSeq(Snapshot[k], 1, n) ELSE <<>>]

Remember ==
  /\ image' = [generations |-> generations, windows |-> windows, guard |-> guard,
               closed |-> closed[S], open |-> open]
  /\ covered' = accepted

Save ==
  /\ registered /\ lives < MaxLives
  /\ store' = [records |-> Snapshot, sealed |-> TRUE, torn |-> FALSE]
  /\ Remember
  /\ UNCHANGED <<engineVars, loaded, accepted, archived, lives>>

(* The process dies. *)
Die ==
  /\ lives < MaxLives /\ lives' = lives + 1
  /\ Blank
  /\ UNCHANGED <<store, saveVars, archived>>

(* The process dies while it saves: the old store is gone, the new one ends  *)
(* behind a record or within one.                                            *)
DieSaving ==
  /\ registered /\ lives < MaxLives /\ lives' = lives + 1
  /\ \E kind \in DOMAIN Place, torn \in BOOLEAN : \E n \in 0..Len(Snapshot[kind]) :
       store' = [records |-> Written(kind, n), sealed |-> FALSE, torn |-> torn]
  /\ Remember /\ Blank
  /\ UNCHANGED archived

----------------------------------------------------------------------------
(* restore *)

(* The orders in which the samples are added: one generation after the       *)
(* other, in any order, and each by time of observation.                     *)
Grouped(samples) ==
  {q \in [1..Cardinality(samples) -> samples] :
     /\ Range(q) = samples
     /\ \A i, j \in DOMAIN q : i < j /\ q[i].ordinal = q[j].ordinal =>
          /\ q[i].observed <= q[j].observed
          /\ \A k \in i..j : q[k].ordinal = q[i].ordinal}

(* A sample enters its window, and its digest moves the guard.               *)
Readded(state, b) ==
  [windows |-> [state.windows EXCEPT ![b.ordinal] = Added(@, b)],
   guard |-> Apply(state.guard, b.position, <<"sample", b>>)]

(* The windows and the guard once all of them have.                          *)
Rebuilt(q) ==
  LET at[i \in 0..Len(q)] ==
        IF i = 0 THEN [windows |-> windows, guard |-> guard] ELSE Readded(at[i - 1], q[i])
  IN at[Len(q)]

(* Plausible fault: only the persisted guard counts. *)
GuardOfRecord(rebuilt) ==
  IF store.records.guard = <<>> THEN guard ELSE Head(store.records.guard)

(* The persisted guard replaces the rebuilt one unless its sequence is lower. *)
RestoredGuard(rebuilt) ==
  LET persisted == store.records.guard
      Wins(g) == ~rebuilt.initialized \/ g.last_sequence >= rebuilt.last_sequence
  IN IF persisted # <<>> /\ Wins(Head(persisted)) THEN Head(persisted) ELSE rebuilt

(* import_episode: an open episode comes back closed.                        *)
Imported(es) ==
  [i \in DOMAIN es |->
     IF "reason" \in DOMAIN es[i] THEN es[i] ELSE Closed(es[i], 0, "evidence_lost")]

(* Plausible fault: either of the caller and the configuration is enough.    *)
WithheldByNeither(admit) == ~(admit \/ ConfigAdmits)

Withheld(admit) == ~(admit /\ ConfigAdmits)

Readable(repair) == store # NoStore /\ (store.torn => repair)

(* restore_locked into an engine that has no generation of the path yet.     *)
Restore(repair, admit) ==
  /\ Readable(repair) /\ generations = <<>> /\ store.records.registration # <<>>
  /\ registered' = TRUE
  /\ generations' = store.records.generation
  /\ loaded' = Range(store.records.sample)
  /\ restored' = restored \cup (IF Withheld(admit) THEN loaded' ELSE {})
  /\ \E q \in Grouped(loaded') :
       windows' = Rebuilt(q).windows /\ guard' = RestoredGuard(Rebuilt(q).guard)
  /\ closed' = [closed EXCEPT ![S] = Joined(@, Imported(store.records.episode))]
  /\ forgotten' = forgotten + Len(closed[S]) + Len(store.records.episode) - Len(closed'[S])
  /\ forgotten' <= MaxForgotten
  /\ accepted' = covered \cap loaded'
  /\ UNCHANGED <<open, store, saveVars, archived, lives>>

(* Into any other engine it stops at the first generation, and leaves what   *)
(* it registered before.                                                     *)
RestoreStopped(repair) ==
  /\ Readable(repair) /\ generations # <<>> /\ store.records.generation # <<>>
  /\ UNCHANGED vars

Next ==
  \/ Register \/ ChangeRoute \/ Save \/ Die \/ DieSaving
  \/ \E b \in Batches, historical \in BOOLEAN : Ingest(b, historical)
  \/ \E o \in Ordinals : Summarize(o)
  \/ \E repair, admit \in BOOLEAN : Restore(repair, admit)
  \/ \E repair \in BOOLEAN : RestoreStopped(repair)

Spec == Init /\ [][Next]_vars

----------------------------------------------------------------------------
(* README.md:45, docs/persistence.md: what came out of a store never counts  *)
(* as current evidence in a process whose configuration does not admit it,   *)
(* whatever the caller asks for and whatever arrives again after the restart.*)
PersistedNotCurrent ==
  ~ConfigAdmits =>
    \A o \in Ordinals : \A b \in Range(windows[o]) : b \in loaded => ~MayBeFresh(b)

(* A restore brings back what was saved: all of it from a finished save,     *)
(* with the open episodes closed as lost, and part of it, nothing else, from *)
(* a save the process died in.                                               *)
RestoreReturnsTheSaved ==
  [][lives' = lives /\ generations = <<>> /\ loaded' # loaded =>
       /\ \A o \in Ordinals : Range(windows'[o]) \subseteq Range(image.windows[o])
       /\ IsPrefix(generations', image.generations)
       /\ open' = {} /\ Len(closed'[S]) <= MaxEpisodes
       /\ store.sealed =>
            /\ \A o \in Ordinals : Range(windows'[o]) = Range(image.windows[o])
            /\ generations' = image.generations
            /\ \/ forgotten' > forgotten
               \/ /\ Range(image.closed) \subseteq Range(closed'[S])
                  /\ \A e \in image.open : \E f \in Range(closed'[S]) :
                       f.ordinal = e.ordinal /\ f.reason = "evidence_lost"]_vars

(* docs/persistence.md:67: evidence that was accepted is not accepted again, *)
(* in this process or, saved and restored, in the next, also when the save   *)
(* was cut off before the guards.                                            *)
ReplayFenced ==
  \A b \in accepted : Evaluate(guard, b.position, <<"batch", b>>, FALSE) # "accept"

(* engine.cpp:930, docs/persistence.md:58: evidence is current after a       *)
(* restart only if the caller and the configuration both ask for it, so a    *)
(* sample a restore withheld cannot be fresh.                                *)
WithheldIsStale == \A b \in restored : ~MayBeFresh(b)
=============================================================================
