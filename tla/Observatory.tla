---------------------------- MODULE Observatory ----------------------------
(***************************************************************************)
(* The engine of src/src/engine.cpp: the source fence, the path catalog,   *)
(* the sample windows and the episode log, composed by the calls           *)
(* register_path, register_source, register_series, observe_topology,      *)
(* ingest and summarize.  Each call holds mutex_ from its first line to    *)
(* its last, so each is one action.                                        *)
(*                                                                         *)
(* A batch carries one sample.  Its content is the series and the          *)
(* generation it was measured for and the time it was received, which the  *)
(* batch states itself; a batch may be old when it arrives, never from     *)
(* the future.  Its source clock is comparable and agrees with the stamp,  *)
(* so one age stands for the observation age and the ingest age, and each  *)
(* budget is the smaller of the two of the freshness policy.               *)
(***************************************************************************)
EXTENDS PathCatalog, EpisodeLog, SourceGuard

CONSTANTS
  PathOf,         (* descriptor.path of each series                        *)
  MaxSources,     (* Limits::kMaxSources                                   *)
  MaxSeries,      (* Limits::kMaxSeries                                    *)
  Sources, Positions, MaxConflicts, MaxRecorded, MaxArchived,
  WindowCapacity, (* config_.window.capacity                               *)
  WindowCount,    (* config_.window.count, of a count window               *)
  MaxWindows,     (* config_.max_windows                                   *)
  FreshBudget,    (* the max_*_age_ns of config_.freshness                 *)
  ExpiryBudget,   (* the expiry_*_age_ns of config_.freshness              *)
  MinFresh,       (* policy.min_fresh_samples                              *)
  MaxTime         (* bound: clock ticks                                    *)

ASSUME ObservatoryAssumption ==
  /\ PathOf \in [Series -> Paths] /\ MaxSources \in Nat /\ MaxSeries \in Nat
  /\ Contents \subseteq [series : Series, ordinal : Nat \ {0}, stamp : Nat]
  /\ WindowCapacity \in Nat \ {0} /\ WindowCount \in 1..WindowCapacity
  /\ MaxWindows \in Nat \ {0} /\ MinFresh \in Nat \ {0} /\ MaxTime \in Nat
  /\ FreshBudget \in Nat /\ ExpiryBudget \in Nat /\ FreshBudget <= ExpiryBudget

VARIABLES
  now,         (* context.now_utc_ns                                       *)
  registered,  (* sources_ and series_: the identities registered          *)
  windows,     (* windows_: the retained samples, in order of arrival      *)
  guards, conflicts, dropped, recorded, accepted, archived  (* SourceFence *)

fenceVars == <<guards, conflicts, dropped, recorded, accepted, archived>>
vars == <<now, registered, windows, fenceVars, catalogVars, episodeVars>>

Fence == INSTANCE SourceFence

Sample == [source : Sources, position : Positions, stamp : Nat]
WindowKey == Series \X (1..MaxOrdinal)

TypeOK ==
  /\ now \in 0..MaxTime
  /\ registered \subseteq Sources \cup Series
  /\ windows \in [WindowKey -> Seq(Sample)]
  /\ Fence!TypeOK /\ CatalogTypeOK /\ EpisodeTypeOK

Init ==
  /\ now = 0 /\ registered = {}
  /\ windows = [k \in WindowKey |-> <<>>]
  /\ Fence!Init /\ CatalogInit /\ EpisodeInit

Tick ==
  /\ now < MaxTime /\ now' = now + 1
  /\ UNCHANGED <<registered, windows, fenceVars, catalogVars, episodeVars>>

----------------------------------------------------------------------------
(* Registration and routing. *)

(* SourceRegistry::register_source: a source already known changes nothing,  *)
(* its identity being the digest of all it declares.                         *)
EnterSource(src) ==
  /\ src \notin registered /\ Cardinality(registered \cap Sources) < MaxSources
  /\ registered' = registered \cup {src}

(* SeriesCatalog::register_series *)
EnterSeries(s) ==
  /\ s \notin registered /\ Cardinality(registered \cap Series) < MaxSeries
  /\ registered' = registered \cup {s}

RegisterSource(src) ==
  /\ EnterSource(src)
  /\ UNCHANGED <<now, windows, fenceVars, catalogVars, episodeVars>>

RegisterSeries(s) ==
  /\ Registered(PathOf[s]) /\ EnterSeries(s)
  /\ UNCHANGED <<now, windows, fenceVars, catalogVars, episodeVars>>

(* register_path_locked leaves the episode log alone.                        *)
RegisterRoute(p, t) ==
  /\ RegisterPath(p, t)
  /\ UNCHANGED <<now, registered, windows, fenceVars, episodeVars>>

(* Plausible fault: the test of the path is missing. *)
SeriesAnywhere(p) == registered \cap Series

SeriesOn(p) == {s \in registered \cap Series : PathOf[s] = p}

(* observe_topology_locked, when the topology is a new one: the episodes of  *)
(* every series of the path that belong to older generations are closed.     *)
ObserveTopology(p, t) ==
  /\ OpenGeneration(p, t)
  /\ Retire(SeriesOn(p), NextOrdinal(p), now)
  /\ UNCHANGED <<now, registered, windows, described, fenceVars>>

----------------------------------------------------------------------------
(* ingest *)

(* Plausible fault: a generation that is known is taken for an open one.     *)
AdmittedKnown(src, b) ==
  /\ src \in registered /\ b.content.series \in registered
  /\ Known(PathOf[b.content.series], b.content.ordinal)
  /\ b.content.stamp <= now

(* The tests before the guard is consulted; failing one changes nothing.     *)
Admitted(src, b) ==
  /\ src \in registered /\ b.content.series \in registered
  /\ IsCurrent(PathOf[b.content.series], b.content.ordinal)
  /\ b.content.stamp <= now

Key(b) == <<b.content.series, b.content.ordinal>>

(* Windows exist from their first sample on, and are never freed.            *)
Existing == {k \in WindowKey : windows[k] # <<>>}

(* window_for finds or creates the window; refused, ingest fails before the  *)
(* sample is stored and before the guard moves.                              *)
HasWindow(b) == Key(b) \in Existing \/ Cardinality(Existing) < MaxWindows

(* SampleWindow::add: a sample already retained is ignored, the earliest     *)
(* arrival makes room for a new one.                                         *)
Added(window, x) ==
  LET all == Append(window, x) IN
  IF x \in Range(window) THEN window
  ELSE IF Len(all) > WindowCapacity THEN Tail(all) ELSE all

Store(src, b) ==
  windows' = [windows EXCEPT ![Key(b)] =
    Added(@, [source |-> src, position |-> b.position, stamp |-> b.content.stamp])]

(* Plausible fault: the guard moves although the window table was full.      *)
IngestGuardFirst(src, b) ==
  /\ Admitted(src, b)
  /\ IF HasWindow(b) THEN Store(src, b) ELSE UNCHANGED windows
  /\ Fence!AcceptBatch(src, b) \/ Fence!ArchiveBatch(src, b)
  /\ UNCHANGED <<now, registered, catalogVars, episodeVars>>

(* Accepted and historical batches are stored; the others change nothing but *)
(* the conflict log.                                                         *)
Ingest(src, b) ==
  /\ Admitted(src, b)
  /\ \/ HasWindow(b) /\ Store(src, b)
          /\ (Fence!AcceptBatch(src, b) \/ Fence!ArchiveBatch(src, b))
     \/ UNCHANGED windows /\ (Fence!RecordConflict(src, b) \/ Fence!RefuseBatch(src, b))
  /\ UNCHANGED <<now, registered, catalogVars, episodeVars>>

----------------------------------------------------------------------------
(* summarize *)

(* select(): the WindowCount most recently observed samples; the tie between *)
(* samples of one instant is broken by digest.                               *)
Selections(window) ==
  LET all == Range(window)
      n == IF Cardinality(all) < WindowCount THEN Cardinality(all) ELSE WindowCount
  IN {S \in kSubset(n, all) : \A x \in S, y \in all \ S : x.stamp >= y.stamp}

Age(x) == now - x.stamp
Fresh(S) == {x \in S : Age(x) <= FreshBudget}
Expired(S) == {x \in S : Age(x) > ExpiryBudget}

(* Plausible fault: one fresh sample is enough for a verdict. *)
LevelsOfAnyFresh(S) ==
  CASE S = {}                           -> {"missing"}
    [] S # {} /\ Expired(S) = S         -> {"expired"}
    [] Fresh(S) = {} /\ Expired(S) # S  -> {"stale"}
    [] OTHER -> {"unstable", "elevated", "stable", "insufficient"}

(* What classify may say of a selection of the current generation: what the  *)
(* evidence allows, then whatever the numbers say.                           *)
LevelsOf(S) ==
  CASE S = {}                           -> {"missing"}
    [] S # {} /\ Expired(S) = S         -> {"expired"}
    [] Fresh(S) = {} /\ Expired(S) # S  -> {"stale"}
    [] Cardinality(Fresh(S)) \in 1..(MinFresh - 1) -> {"insufficient"}
    [] OTHER -> {"unstable", "elevated", "stable", "insufficient"}

(* summarize_locked with track_episodes; without a window it fails.          *)
Summarize(s, ordinal) ==
  LET current == IsCurrent(PathOf[s], ordinal) IN
  /\ <<s, ordinal>> \in Existing
  /\ \E S \in Selections(windows[<<s, ordinal>>]) :
       \E level \in (IF current THEN LevelsOf(S) ELSE {"unsupported"}) :
         Observe(s, ordinal, current, level, now)
  /\ UNCHANGED <<now, registered, windows, fenceVars, catalogVars>>

----------------------------------------------------------------------------
Next ==
  \/ Tick
  \/ \E src \in Sources : RegisterSource(src)
  \/ \E s \in Series : RegisterSeries(s)
  \/ \E p \in Paths, t \in Topologies \cup {Bare} : RegisterRoute(p, t)
  \/ \E p \in Paths, t \in Topologies : ObserveTopology(p, t)
  \/ \E src \in Sources, b \in Fence!Batch : Ingest(src, b)
  \/ \E s \in Series, ordinal \in 1..MaxOrdinal : Summarize(s, ordinal)

Spec == Init /\ [][Next]_vars

----------------------------------------------------------------------------
(* The samples of a closed generation never change again: a route change     *)
(* segments the history, and no late batch is blended into the old route.    *)
ClosedWindowsFrozen ==
  [][\A k \in WindowKey :
       windows'[k] # windows[k] => IsCurrent(PathOf[k[1]], k[2])]_vars

(* A batch counted as accepted is evidence: its sample is in the window of   *)
(* its series and generation when ingest returns, and nothing else moved in. *)
AcceptedIsStored ==
  [][\A src \in Sources : accepted'[src] # accepted[src] =>
       LET b == accepted'[src][Len(accepted'[src])]
           x == [source |-> src, position |-> b.position, stamp |-> b.content.stamp]
       IN /\ x \in Range(windows'[Key(b)])
          /\ \A k \in WindowKey : Range(windows'[k]) \subseteq
               Range(windows[k]) \cup (IF k = Key(b) THEN {x} ELSE {})]_vars

(* An episode opens, or stays open through a breach that resets its          *)
(* recovery, only on fresh evidence of the current generation.               *)
EpisodesNeedFreshEvidence ==
  [][\A e \in open' : e \notin open /\ e.recovery = 0 =>
       /\ IsCurrent(PathOf[e.series], e.ordinal)
       /\ Cardinality(Fresh(Range(windows[<<e.series, e.ordinal>>]))) >= MinFresh]_vars

(* An open episode outlives its generation only through register_path.       *)
EpisodesEndWithGeneration ==
  [][\A e \in open' :
       ~IsCurrent(PathOf[e.series], e.ordinal)' /\ described' = described =>
         ~IsCurrent(PathOf[e.series], e.ordinal)]_vars

(* Every episode that closes was open and closes for the reason it states:   *)
(* only a route change of its own path retires it, only what is known of its *)
(* own generation, while that is the current one, ends it otherwise, and an  *)
(* observation that comes after the generation has closed only supersedes    *)
(* it: an episode of a closed generation is neither opened nor extended.     *)
EpisodesCloseForCause ==
  [][/\ \A s \in Series : \A f \in Range(closed'[s]) \ Range(closed[s]) :
          LET p == PathOf[s] IN
          /\ \E e \in open \ open' :
               e.series = s /\ e.ordinal = f.ordinal /\ e.opened = f.opened
          /\ CASE f.reason = "generation_changed" -> generations'[p] # generations[p]
               [] f.reason = "superseded"         -> ~IsCurrent(p, f.ordinal)
               [] OTHER                           -> IsCurrent(p, f.ordinal)
     /\ \A e \in open' \ open : IsCurrent(PathOf[e.series], e.ordinal)]_vars

(* boundary.md:47-48: evidence that contradicts itself blocks a positive     *)
(* statement, unless the policy tolerates contradictions, and the default    *)
(* policy tolerates none: no episode opens while the contradiction of two    *)
(* contents of its series and generation is on record.                       *)
ContradictionBlocks ==
  [][\A e \in open' : e \notin open /\ e.recovery = 0 =>
       ~\E r \in conflicts : \A c \in {r.content_a, r.content_b} :
           c.series = e.series /\ c.ordinal = e.ordinal]_vars

(* README.md:39: a new topology opens a generation and closes open episodes, *)
(* so an episode that is open belongs to the open generation of its path.    *)
OpenEpisodesCurrent ==
  \A e \in open : IsCurrent(PathOf[e.series], e.ordinal)
=============================================================================
