------------------------- MODULE ObservatoryProofs -------------------------
(***************************************************************************)
(* Proofs about Observatory, for every set of paths, series, sources and   *)
(* batches and every bound of the configuration: the engine keeps its      *)
(* routes well formed, never adds to the evidence of a route that was      *)
(* left, and opens, keeps and closes its episodes for the right reasons.   *)
(***************************************************************************)
EXTENDS Observatory, EpisodeLogProofs

----------------------------------------------------------------------------
(* Routes. *)

(* A history of generations as OneOpenGeneration wants it.                   *)
WellFormed(h) ==
  /\ \A i \in DOMAIN h : h[i].open <=> i = Len(h)
  /\ \A i \in 1..(Len(h) - 1) : h[i + 1].ordinal = h[i].ordinal + 1
  /\ Len(h) <= MaxHistory

CInv == CatalogTypeOK /\ OneOpenGeneration

(* What a generation is when it has been closed.                             *)
LEMMA ClosedGeneration ==
  ASSUME NEW g \in Generation
  PROVE  /\ [g EXCEPT !.open = FALSE] \in Generation
         /\ [g EXCEPT !.open = FALSE].open = FALSE
         /\ [g EXCEPT !.open = FALSE].ordinal = g.ordinal
         /\ [g EXCEPT !.open = FALSE].topology = g.topology
  BY DEF Generation

(* The newest generation of a path, if it has one, and the number of the next.*)
LEMMA NewestGeneration ==
  ASSUME CInv, NEW p \in Paths
  PROVE  /\ generations[p] \in Seq(Generation) /\ Len(generations[p]) \in Nat
         /\ DOMAIN generations[p] = 1..Len(generations[p])
         /\ Len(generations[p]) <= MaxHistory /\ MaxHistory \in Nat \ {0}
         /\ \A i \in 1..Len(generations[p]) : generations[p][i] \in Generation
         /\ NextOrdinal(p) \in Nat \ {0}
<1>1. generations[p] \in Seq(Generation) /\ Len(generations[p]) <= MaxHistory
      /\ MaxHistory \in Nat \ {0}
  BY CatalogAssumption DEF CInv, CatalogTypeOK, OneOpenGeneration, CatalogAssumption
<1>2. /\ Len(generations[p]) \in Nat /\ DOMAIN generations[p] = 1..Len(generations[p])
      /\ \A i \in 1..Len(generations[p]) : generations[p][i] \in Generation
  BY <1>1
<1>3. NextOrdinal(p) \in Nat \ {0}
  <2>1. CASE generations[p] = <<>>
    <3>1. NextOrdinal(p) = 1
      BY ONLY <2>1 DEF NextOrdinal, HasCurrent
    <3> QED
      BY <3>1
  <2>2. CASE generations[p] # <<>>
    <3>1. Current(p) \in Generation
      BY <1>1, <1>2, <2>2 DEF Current
    <3>2. Current(p).ordinal \in Nat \ {0}
      BY <3>1 DEF Generation
    <3>3. NextOrdinal(p) = Current(p).ordinal + 1
      BY ONLY <2>2 DEF NextOrdinal, HasCurrent
    <3> QED
      BY <3>2, <3>3
  <2> QED
    BY <2>1, <2>2
<1> QED
  BY <1>1, <1>2, <1>3

(* A history whose newest generation has been closed. *)
Shut(old) ==
  [i \in DOMAIN old |-> IF i = Len(old) THEN [old[i] EXCEPT !.open = FALSE] ELSE old[i]]

(* It is as long as before and keeps its ordinals, and nothing in it is open  *)
(* if only the newest was.                                                   *)
LEMMA ShutShape ==
  ASSUME NEW old \in Seq(Generation)
  PROVE  /\ Shut(old) \in Seq(Generation) /\ Len(Shut(old)) = Len(old)
         /\ \A i \in 1..Len(old) : Shut(old)[i].ordinal = old[i].ordinal
         /\ \A i \in 1..Len(old) : Shut(old)[i].open => old[i].open /\ i # Len(old)
<1>1. Len(old) \in Nat /\ DOMAIN old = 1..Len(old) /\ \A i \in 1..Len(old) : old[i] \in Generation
  OBVIOUS
<1>2. \A i \in 1..Len(old) :
        Shut(old)[i] = IF i = Len(old) THEN [old[i] EXCEPT !.open = FALSE] ELSE old[i]
  BY <1>1 DEF Shut
<1>3. \A i \in 1..Len(old) :
        /\ Shut(old)[i] \in Generation /\ Shut(old)[i].ordinal = old[i].ordinal
        /\ Shut(old)[i].open => old[i].open /\ i # Len(old)
  <2> SUFFICES ASSUME NEW i \in 1..Len(old)
               PROVE  /\ Shut(old)[i] \in Generation /\ Shut(old)[i].ordinal = old[i].ordinal
                      /\ Shut(old)[i].open => old[i].open /\ i # Len(old)
    OBVIOUS
  <2>1. old[i] \in Generation
    BY <1>1
  <2>2. /\ [old[i] EXCEPT !.open = FALSE] \in Generation
        /\ [old[i] EXCEPT !.open = FALSE].open = FALSE
        /\ [old[i] EXCEPT !.open = FALSE].ordinal = old[i].ordinal
    BY <2>1, ClosedGeneration
  <2>3. CASE i = Len(old)
    <3>1. Shut(old)[i] = [old[i] EXCEPT !.open = FALSE]
      BY <1>2, <2>3
    <3> QED
      BY <2>2, <3>1
  <2>4. CASE i # Len(old)
    <3>1. Shut(old)[i] = old[i]
      BY <1>2, <2>4
    <3> QED
      BY <2>1, <2>4, <3>1
  <2> QED
    BY <2>3, <2>4
<1>4. DOMAIN Shut(old) = 1..Len(old) /\ Shut(old) = [i \in 1..Len(old) |-> Shut(old)[i]]
  BY <1>1 DEF Shut
<1>5. Shut(old) \in [1..Len(old) -> Generation]
  BY <1>3, <1>4
<1>6. Shut(old) \in Seq(Generation)
  BY <1>1, <1>5, SeqDef
<1>7. Len(Shut(old)) = Len(old)
  BY <1>1, <1>4, <1>6, LenProperties
<1> QED
  BY <1>3, <1>6, <1>7

(* observe_topology keeps a history well formed. *)
LEMMA OpenedWellFormed ==
  ASSUME CInv, NEW p \in Paths, NEW t \in Topologies
  PROVE  Opened(p, t) \in Seq(Generation) /\ WellFormed(Opened(p, t))
<1> DEFINE old == generations[p]
           n == Len(generations[p])
           gen == [ordinal |-> NextOrdinal(p), topology |-> t, open |-> TRUE]
           all == Append(Shut(old), gen)
<1>1. /\ old \in Seq(Generation) /\ n \in Nat /\ n <= MaxHistory /\ MaxHistory \in Nat \ {0}
      /\ NextOrdinal(p) \in Nat \ {0}
  BY NewestGeneration
<1>2. /\ \A i \in 1..n : old[i].open <=> i = n
      /\ \A i \in 1..(n - 1) : old[i + 1].ordinal = old[i].ordinal + 1
  BY NewestGeneration DEF CInv, OneOpenGeneration
<1>3. gen \in Generation /\ gen.open = TRUE /\ gen.ordinal = NextOrdinal(p)
  BY <1>1 DEF Generation
<1>4. /\ Shut(old) \in Seq(Generation) /\ Len(Shut(old)) = n
      /\ \A i \in 1..n : Shut(old)[i].ordinal = old[i].ordinal /\ ~Shut(old)[i].open
  BY <1>1, <1>2, ShutShape
<1>5. Opened(p, t) = IF Len(all) > MaxHistory THEN Tail(all) ELSE all
  BY DEF Opened, Shut
<1> HIDE DEF gen
<1>6. /\ all \in Seq(Generation) /\ Len(all) = n + 1 /\ all[n + 1] = gen
      /\ \A i \in 1..n : all[i] = Shut(old)[i]
  BY <1>1, <1>3, <1>4
<1> HIDE DEF all
<1>7. \A i \in 1..(n + 1) : all[i].open <=> i = n + 1
  BY <1>1, <1>3, <1>4, <1>6
<1>8. \A i \in 1..n : all[i + 1].ordinal = all[i].ordinal + 1
  <2> SUFFICES ASSUME NEW i \in 1..n PROVE all[i + 1].ordinal = all[i].ordinal + 1
    OBVIOUS
  <2>1. CASE i = n
    <3>1. old # <<>> /\ NextOrdinal(p) = old[n].ordinal + 1
      BY <1>1, <2>1 DEF NextOrdinal, HasCurrent, Current
    <3> QED
      BY <1>3, <1>4, <1>6, <2>1, <3>1
  <2>2. CASE i # n
    <3>1. i \in 1..(n - 1) /\ i + 1 \in 1..n
      BY <1>1, <2>2
    <3> QED
      BY <1>2, <1>4, <1>6, <3>1
  <2> QED
    BY <2>1, <2>2
<1>9. CASE ~(Len(all) > MaxHistory)
  <2>1. Opened(p, t) = all /\ DOMAIN all = 1..(n + 1)
    BY <1>5, <1>6, <1>9
  <2> QED
    BY <1>1, <1>6, <1>7, <1>8, <1>9, <2>1 DEF WellFormed
<1>10. CASE Len(all) > MaxHistory
  <2>1. /\ Tail(all) \in Seq(Generation) /\ Len(Tail(all)) = n /\ DOMAIN Tail(all) = 1..n
        /\ \A i \in 1..n : Tail(all)[i] = all[i + 1]
    BY <1>1, <1>6
  <2>2. \A i \in 1..n : Tail(all)[i].open <=> i = n
    BY <1>1, <1>7, <2>1
  <2>3. \A i \in 1..(n - 1) : Tail(all)[i + 1].ordinal = Tail(all)[i].ordinal + 1
    <3> SUFFICES ASSUME NEW i \in 1..(n - 1)
                 PROVE  Tail(all)[i + 1].ordinal = Tail(all)[i].ordinal + 1
      OBVIOUS
    <3>1. i \in 1..n /\ i + 1 \in 1..n
      BY <1>1
    <3> QED
      BY <1>8, <2>1, <3>1
  <2> QED
    BY <1>1, <1>5, <1>10, <2>1, <2>2, <2>3 DEF WellFormed
<1> QED
  BY <1>9, <1>10

(* What the engine does to the catalog: nothing, a descriptor, or one more   *)
(* generation of one path.                                                   *)
LEMMA CatalogSteps ==
  ASSUME [Next]_vars
  PROVE  \/ UNCHANGED catalogVars
         \/ \E p \in Paths, t \in Topologies \cup {Bare} : RegisterPath(p, t)
         \/ \E p \in Paths, t \in Topologies : OpenGeneration(p, t) /\ UNCHANGED described
<1>1. CASE UNCHANGED vars
  BY <1>1 DEF vars
<1>2. CASE Tick \/ (\E src \in Sources : RegisterSource(src)) \/ (\E s \in Series : RegisterSeries(s))
  BY <1>2 DEF Tick, RegisterSource, RegisterSeries
<1>3. CASE \E p \in Paths, t \in Topologies \cup {Bare} : RegisterRoute(p, t)
  BY <1>3 DEF RegisterRoute
<1>4. CASE \E p \in Paths, t \in Topologies : ObserveTopology(p, t)
  BY <1>4 DEF ObserveTopology
<1>5. CASE \E src \in Sources, b \in Fence!Batch : Ingest(src, b)
  BY <1>5 DEF Ingest
<1>6. CASE \E s \in Series, ordinal \in 1..MaxOrdinal : Summarize(s, ordinal)
  BY <1>6 DEF Summarize
<1> QED
  BY <1>1, <1>2, <1>3, <1>4, <1>5, <1>6 DEF Next

(* Every call keeps the histories well formed. *)
LEMMA CatalogStep == CInv /\ [Next]_vars => CInv'
<1> SUFFICES ASSUME CInv, [Next]_vars PROVE CInv'
  OBVIOUS
<1>0. /\ generations \in [Paths -> Seq(Generation)]
      /\ described \in [Paths -> Topologies \cup {Absent, Bare}]
      /\ \A p \in Paths : WellFormed(generations[p])
  BY DEF CInv, CatalogTypeOK, OneOpenGeneration, WellFormed
<1>1. ASSUME NEW p \in Paths, NEW t \in Topologies,
             generations' = [generations EXCEPT ![p] = Opened(p, t)]
      PROVE  /\ generations' \in [Paths -> Seq(Generation)]
             /\ \A q \in Paths : WellFormed(generations'[q])
  BY <1>0, <1>1, OpenedWellFormed
<1>2. ASSUME /\ generations' \in [Paths -> Seq(Generation)]
             /\ \A q \in Paths : WellFormed(generations'[q])
             /\ described' \in [Paths -> Topologies \cup {Absent, Bare}]
      PROVE  CInv'
  BY <1>2 DEF CInv, CatalogTypeOK, OneOpenGeneration, WellFormed
<1>3. CASE UNCHANGED catalogVars
  BY <1>0, <1>2, <1>3 DEF catalogVars
<1>4. ASSUME NEW p \in Paths, NEW t \in Topologies \cup {Bare}, RegisterPath(p, t)
      PROVE  CInv'
  <2>1. described' \in [Paths -> Topologies \cup {Absent, Bare}]
    BY <1>0, <1>4 DEF RegisterPath
  <2>2. CASE t # Bare /\ Changes(p, t)
    BY <1>1, <1>2, <1>4, <2>1, <2>2 DEF RegisterPath
  <2>3. CASE ~(t # Bare /\ Changes(p, t))
    BY <1>0, <1>2, <1>4, <2>1, <2>3 DEF RegisterPath
  <2> QED
    BY <2>2, <2>3
<1>5. ASSUME NEW p \in Paths, NEW t \in Topologies, OpenGeneration(p, t), UNCHANGED described
      PROVE  CInv'
  BY <1>0, <1>1, <1>2, <1>5 DEF OpenGeneration
<1> QED
  BY <1>3, <1>4, <1>5, CatalogSteps

(* The catalog is well formed from the beginning. *)
LEMMA CatalogInvariance == Spec => []CInv
<1>1. Init => CInv
  <2> SUFFICES ASSUME Init PROVE CInv
    OBVIOUS
  <2>1. \A p \in Paths : generations[p] = <<>>
    BY DEF Init, CatalogInit
  <2> QED
    BY <2>1, CatalogAssumption
    DEF Init, CatalogInit, CInv, CatalogTypeOK, OneOpenGeneration, CatalogAssumption
<1> QED
  BY <1>1, CatalogStep, PTL DEF Spec

(* Whatever is registered and observed, path.cpp keeps one generation of a   *)
(* path open, its newest, and numbers them without a gap or a repetition.    *)
THEOREM OneGeneration == Spec => []OneOpenGeneration
<1>1. CInv => OneOpenGeneration
  BY DEF CInv
<1> QED
  BY <1>1, CatalogInvariance, PTL

----------------------------------------------------------------------------
(* Windows. *)

(* The windows the engine keeps are sequences of samples.                    *)
WInv == windows \in [WindowKey -> Seq(Sample)]

(* SampleWindow::add gives a window again.                                   *)
LEMMA AddedWindow ==
  ASSUME NEW w \in Seq(Sample), NEW x \in Sample
  PROVE  Added(w, x) \in Seq(Sample)
<1>1. Append(w, x) \in Seq(Sample) /\ Append(w, x) # <<>>
  BY AppendProperties
<1>2. Tail(Append(w, x)) \in Seq(Sample)
  BY <1>1
<1> QED
  BY <1>1, <1>2 DEF Added

(* What a batch leaves in the windows: one more sample, in its own.          *)
LEMMA IngestWindows ==
  ASSUME WInv, NEW src \in Sources, NEW b \in Fence!Batch, Ingest(src, b)
  PROVE  /\ WInv'
         /\ \A k \in WindowKey : windows'[k] # windows[k] => k = Key(b)
<1> DEFINE x == [source |-> src, position |-> b.position, stamp |-> b.content.stamp]
<1>1. x \in Sample
  <2>1. b.position \in Positions /\ b.content \in Contents
    BY DEF Fence!Batch
  <2>2. b.content.stamp \in Nat
    BY <2>1, ObservatoryAssumption DEF ObservatoryAssumption
  <2> QED
    BY <2>1, <2>2 DEF Sample
<1>2. CASE UNCHANGED windows
  BY <1>2 DEF WInv
<1>3. CASE windows' = [windows EXCEPT ![Key(b)] = Added(@, x)]
  <2>1. \A k \in WindowKey : windows[k] \in Seq(Sample) /\ Added(windows[k], x) \in Seq(Sample)
    BY <1>1, AddedWindow DEF WInv
  <2> QED
    BY <1>3, <2>1 DEF WInv
<1> QED
  BY <1>2, <1>3 DEF Ingest, Store

(* The other calls leave the windows alone.                                  *)
LEMMA WindowSteps ==
  ASSUME [Next]_vars
  PROVE  \/ UNCHANGED windows
         \/ \E src \in Sources, b \in Fence!Batch : Ingest(src, b)
  BY DEF Next, vars, Tick, RegisterSource, RegisterSeries, RegisterRoute, ObserveTopology,
         Summarize

(* The windows stay what they are.                                           *)
LEMMA WindowInvariance == Spec => []WInv
<1>1. Init => WInv
  BY DEF Init, WInv
<1>2. WInv /\ [Next]_vars => WInv'
  <2> SUFFICES ASSUME WInv, [Next]_vars PROVE WInv'
    OBVIOUS
  <2>1. CASE UNCHANGED windows
    BY <2>1 DEF WInv
  <2> QED
    BY <2>1, WindowSteps, IngestWindows
<1> QED
  BY <1>1, <1>2, PTL DEF Spec

(* A late batch never enters the window of a route that was left: whatever   *)
(* arrives, in whatever order, only the windows of open generations change   *)
(* (the test of is_current in ingest_locked).                                *)
THEOREM ClosedRoutesFrozen == Spec => ClosedWindowsFrozen
<1> DEFINE Frozen == \A k \in WindowKey :
                       windows'[k] # windows[k] => IsCurrent(PathOf[k[1]], k[2])
<1>1. WInv /\ [Next]_vars => [Frozen]_vars
  <2> SUFFICES ASSUME WInv, [Next]_vars PROVE Frozen
    OBVIOUS
  <2>1. CASE UNCHANGED windows
    BY <2>1
  <2>2. ASSUME NEW src \in Sources, NEW b \in Fence!Batch, Ingest(src, b)
        PROVE  Frozen
    <3>1. IsCurrent(PathOf[b.content.series], b.content.ordinal)
      BY <2>2 DEF Ingest, Admitted
    <3>2. \A k \in WindowKey : windows'[k] # windows[k] => k = Key(b)
      BY <2>2, IngestWindows
    <3> QED
      BY <3>1, <3>2 DEF Key
  <2> QED
    BY <2>1, <2>2, WindowSteps
<1> QED
  BY <1>1, WindowInvariance, PTL DEF Spec, ClosedWindowsFrozen

----------------------------------------------------------------------------
(* Episodes. *)

(* The open episodes are one per series and generation; the clock dates them.*)
EInv == now \in Nat /\ open \subseteq OpenEpisode /\ OneOpenEpisode

(* Episodes that are only closed leave the others what they are.             *)
LEMMA FewerOpen ==
  ASSUME EInv, now' \in Nat, open' \subseteq open PROVE EInv'
  BY DEF EInv, OneOpenEpisode

(* So do steps that touch nothing but the counts of recovery.                *)
LEMMA SameOpen ==
  ASSUME EInv, now' = now, NEW E, NEW count \in [open -> Nat],
         open' = {IF e \in E THEN [e EXCEPT !.recovery = count[e]] ELSE e : e \in open}
  PROVE  EInv' /\ \A x \in open' : \E e \in open : x.series = e.series
<1> DEFINE After(e) == IF e \in E THEN [e EXCEPT !.recovery = count[e]] ELSE e
<1>1. \A e \in open : /\ After(e) \in OpenEpisode
                      /\ After(e).series = e.series /\ After(e).ordinal = e.ordinal
  <2> SUFFICES ASSUME NEW e \in open
               PROVE  /\ After(e) \in OpenEpisode
                      /\ After(e).series = e.series /\ After(e).ordinal = e.ordinal
    OBVIOUS
  <2>1. e \in OpenEpisode /\ count[e] \in Nat
    BY DEF EInv
  <2> QED
    BY <2>1 DEF OpenEpisode
<1>2. open' \subseteq OpenEpisode
  BY <1>1
<1>3. OneOpenEpisode'
  <2> SUFFICES ASSUME NEW x \in open', NEW y \in open',
                      x.series = y.series, x.ordinal = y.ordinal
               PROVE  x = y
    BY DEF OneOpenEpisode
  <2>1. PICK d \in open : x = After(d)
    OBVIOUS
  <2>2. PICK e \in open : y = After(e)
    OBVIOUS
  <2>3. d = e
    BY <1>1, <2>1, <2>2 DEF EInv, OneOpenEpisode
  <2> QED
    BY <2>1, <2>2, <2>3
<1>4. \A x \in open' : \E e \in open : x.series = e.series
  BY <1>1
<1> QED
  BY <1>2, <1>3, <1>4 DEF EInv

(* EpisodeLog::observe never opens a second episode beside an open one.      *)
LEMMA ObservedEpisodes ==
  ASSUME EInv, now' = now, NEW s \in Series, NEW ordinal \in Nat, NEW current, NEW level,
         Observe(s, ordinal, current, level, now)
  PROVE  EInv' /\ \A x \in open' : x.series = s \/ \E e \in open : x.series = e.series
<1>1. \A e \in open : e \in OpenEpisode /\ e.recovery \in Nat /\ e.recovery + 1 \in Nat
  BY DEF EInv, OpenEpisode
<1>2. ASSUME NEW E, NEW reason, Close(E, now, reason)
      PROVE  EInv' /\ open' \subseteq open
  BY <1>2, FewerOpen DEF Close, EInv
<1>3. CASE ObserveClosedGeneration(s, ordinal, now) \/ ObserveLoss(s, ordinal, now)
  BY <1>2, <1>3 DEF ObserveClosedGeneration, ObserveLoss
<1>4. CASE ObserveBreach(s, ordinal, now)
  <2>1. CASE OpenOf(s, ordinal) = {}
    <3> DEFINE new == [series |-> s, ordinal |-> ordinal, opened |-> now, recovery |-> 0]
    <3>1. open' = open \cup {new}
      BY <1>4, <2>1 DEF ObserveBreach
    <3>2. new \in OpenEpisode /\ new.series = s /\ new.ordinal = ordinal
      BY DEF EInv, OpenEpisode
    <3>3. \A e \in open : ~(e.series = s /\ e.ordinal = ordinal)
      BY <2>1 DEF OpenOf
    <3> HIDE DEF new
    <3> QED
      BY <3>1, <3>2, <3>3 DEF EInv, OneOpenEpisode
  <2>2. CASE OpenOf(s, ordinal) # {}
    <3> DEFINE E == OpenOf(s, ordinal)
               zero == [e \in open |-> 0]
    <3>1. open' = {IF e \in E THEN [e EXCEPT !.recovery = zero[e]] ELSE e : e \in open}
      BY <1>4, <2>2 DEF ObserveBreach
    <3>2. zero \in [open -> Nat]
      OBVIOUS
    <3> HIDE DEF zero, E
    <3> QED
      BY <3>1, <3>2, SameOpen
  <2> QED
    BY <2>1, <2>2
<1>5. CASE ObserveCalm(s, ordinal, now)
  <2> DEFINE E == OpenOf(s, ordinal)
             recovered == {e \in E : e.recovery + 1 >= CloseWindows}
             more == [e \in open |-> e.recovery + 1]
  <2>1. CASE recovered # {}
    BY <1>2, <1>5, <2>1 DEF ObserveCalm
  <2>2. CASE recovered = {}
    <3>1. open' = {IF e \in E THEN [e EXCEPT !.recovery = more[e]] ELSE e : e \in open}
      BY <1>5, <2>2 DEF ObserveCalm
    <3>2. more \in [open -> Nat]
      BY <1>1
    <3> HIDE DEF more, E
    <3> QED
      BY <3>1, <3>2, SameOpen
  <2> QED
    BY <2>1, <2>2
<1> QED
  BY <1>3, <1>4, <1>5 DEF Observe

(* Every call keeps the episodes apart.                                      *)
LEMMA EpisodeStep == EInv /\ [Next]_vars => EInv'
<1> SUFFICES ASSUME EInv, [Next]_vars PROVE EInv'
  OBVIOUS
<1>1. CASE UNCHANGED <<now, episodeVars>>
  BY <1>1, FewerOpen DEF EInv, episodeVars
<1>2. CASE Tick
  <2>1. now' \in Nat /\ open' = open
    BY <1>2 DEF Tick, EInv, episodeVars
  <2> QED
    BY <2>1, FewerOpen
<1>3. CASE \E p \in Paths, t \in Topologies : ObserveTopology(p, t)
  <2>1. now' = now /\ open' \subseteq open
    BY <1>3 DEF ObserveTopology, Retire, Close
  <2> QED
    BY <2>1, FewerOpen DEF EInv
<1>4. ASSUME NEW s \in Series, NEW ordinal \in 1..MaxOrdinal, Summarize(s, ordinal)
      PROVE  EInv'
  <2>1. ordinal \in Nat /\ now' = now
    BY <1>4, CatalogAssumption DEF CatalogAssumption, Summarize
  <2>2. \E current, level : Observe(s, ordinal, current, level, now)
    BY <1>4 DEF Summarize
  <2> QED
    BY <2>1, <2>2, ObservedEpisodes
<1>5. \/ UNCHANGED <<now, episodeVars>>
      \/ Tick
      \/ \E p \in Paths, t \in Topologies : ObserveTopology(p, t)
      \/ \E s \in Series, ordinal \in 1..MaxOrdinal : Summarize(s, ordinal)
  BY DEF Next, vars, RegisterSource, RegisterSeries, RegisterRoute, Ingest
<1> QED
  BY <1>1, <1>2, <1>3, <1>4, <1>5

(* However observations and route changes alternate, episode.cpp has at most *)
(* one episode of a series and generation open.                              *)
THEOREM OneEpisode == Spec => []OneOpenEpisode
<1>1. Init => EInv
  BY DEF Init, EpisodeInit, EInv, OneOpenEpisode
<1>2. EInv => OneOpenEpisode
  BY DEF EInv
<1> QED
  BY <1>1, <1>2, EpisodeStep, PTL DEF Spec

----------------------------------------------------------------------------
(* Routes and episodes. *)

(* Nothing is kept about a series that is not registered.                    *)
RInv ==
  /\ \A k \in WindowKey : windows[k] # <<>> => k[1] \in registered
  /\ \A e \in open : e.series \in registered

AllInv == CInv /\ WInv /\ EInv /\ RInv

(* No call forgets a registration, and each keeps this.                      *)
LEMMA RegisteredStep == WInv /\ EInv /\ RInv /\ [Next]_vars => RInv'
<1> SUFFICES ASSUME WInv, EInv, RInv, [Next]_vars PROVE RInv'
  OBVIOUS
<1>1. ASSUME registered \subseteq registered', UNCHANGED windows, open' \subseteq open
      PROVE  RInv'
  BY <1>1 DEF RInv
<1>2. CASE UNCHANGED vars \/ Tick \/ (\E src \in Sources : RegisterSource(src))
           \/ (\E s \in Series : RegisterSeries(s))
           \/ (\E p \in Paths, t \in Topologies \cup {Bare} : RegisterRoute(p, t))
  <2>1. registered \subseteq registered' /\ UNCHANGED windows /\ open' \subseteq open
    BY <1>2 DEF vars, episodeVars, Tick, RegisterSource, EnterSource, RegisterSeries,
                EnterSeries, RegisterRoute
  <2> QED
    BY <1>1, <2>1
<1>3. CASE \E p \in Paths, t \in Topologies : ObserveTopology(p, t)
  BY <1>1, <1>3 DEF ObserveTopology, Retire, Close
<1>4. ASSUME NEW src \in Sources, NEW b \in Fence!Batch, Ingest(src, b)
      PROVE  RInv'
  <2>1. b.content.series \in registered /\ UNCHANGED <<registered, open>>
    BY <1>4 DEF Ingest, Admitted, episodeVars
  <2>2. \A k \in WindowKey : windows'[k] # windows[k] => k = Key(b)
    BY <1>4, IngestWindows
  <2> QED
    BY <2>1, <2>2 DEF RInv, Key
<1>5. ASSUME NEW s \in Series, NEW ordinal \in 1..MaxOrdinal, Summarize(s, ordinal)
      PROVE  RInv'
  <2>1. /\ ordinal \in Nat /\ now' = now /\ UNCHANGED <<registered, windows>>
        /\ <<s, ordinal>> \in WindowKey /\ windows[<<s, ordinal>>] # <<>>
    BY <1>5, CatalogAssumption DEF CatalogAssumption, Summarize, Existing
  <2>2. s \in registered
    BY <2>1 DEF RInv
  <2>3. \E current, level : Observe(s, ordinal, current, level, now)
    BY <1>5 DEF Summarize
  <2>4. \A x \in open' : x.series = s \/ \E e \in open : x.series = e.series
    BY <2>1, <2>3, ObservedEpisodes
  <2> QED
    BY <2>1, <2>2, <2>4 DEF RInv
<1> QED
  BY <1>2, <1>3, <1>4, <1>5 DEF Next

(* All of it holds together.                                                 *)
LEMMA AllInvariance == Spec => []AllInv
<1>1. Init => RInv
  BY DEF Init, EpisodeInit, RInv
<1>2. Init => EInv
  BY DEF Init, EpisodeInit, EInv, OneOpenEpisode
<1> QED
  BY <1>1, <1>2, RegisteredStep, EpisodeStep, CatalogInvariance, WindowInvariance, PTL
  DEF Spec, AllInv

(* A new generation is none of those that were open.                         *)
LEMMA NextNotCurrent ==
  ASSUME CInv, NEW p \in Paths PROVE ~IsCurrent(p, NextOrdinal(p))
<1> SUFFICES ASSUME IsCurrent(p, NextOrdinal(p)) PROVE FALSE
  OBVIOUS
<1>1. PICK i \in DOMAIN generations[p] :
        generations[p][i].ordinal = NextOrdinal(p) /\ generations[p][i].open
  BY DEF IsCurrent, Find
<1>2. /\ DOMAIN generations[p] = 1..Len(generations[p]) /\ Len(generations[p]) \in Nat
      /\ generations[p][i] \in Generation
  BY <1>1, NewestGeneration
<1>3. i = Len(generations[p]) /\ generations[p] # <<>>
  BY <1>1, <1>2 DEF CInv, OneOpenGeneration
<1>4. NextOrdinal(p) = generations[p][i].ordinal + 1
  BY <1>3 DEF NextOrdinal, HasCurrent, Current
<1>5. generations[p][i].ordinal \in Nat
  BY <1>2 DEF Generation
<1> QED
  BY <1>1, <1>4, <1>5

(* Observing a new route closes the episodes of the old one: an episode left  *)
(* open on a closed generation was so before, unless register_path, which    *)
(* forgets about episodes, closed it (observe_topology_locked, retire).      *)
THEOREM EpisodesFollowRoutes == Spec => EpisodesEndWithGeneration
<1> DEFINE Follow == \A e \in open' :
             ~IsCurrent(PathOf[e.series], e.ordinal)' /\ described' = described =>
               ~IsCurrent(PathOf[e.series], e.ordinal)
<1>1. AllInv /\ [Next]_vars => [Follow]_vars
  <2> SUFFICES ASSUME AllInv, [Next]_vars PROVE Follow
    OBVIOUS
  <2>1. CASE UNCHANGED generations
    BY <2>1 DEF IsCurrent, Find
  <2>2. ASSUME NEW p \in Paths, NEW t \in Topologies \cup {Bare}, RegisterRoute(p, t)
        PROVE  Follow
    <3>1. described' # described
      BY <2>2, CatalogAssumption
      DEF RegisterRoute, RegisterPath, AllInv, CInv, CatalogTypeOK, CatalogAssumption
    <3> QED
      BY <3>1
  <2>3. ASSUME NEW p \in Paths, NEW t \in Topologies, ObserveTopology(p, t)
        PROVE  Follow
    <3> SUFFICES ASSUME NEW e \in open', IsCurrent(PathOf[e.series], e.ordinal)
                 PROVE  IsCurrent(PathOf[e.series], e.ordinal)'
      OBVIOUS
    <3>1. /\ generations' = [generations EXCEPT ![p] = Opened(p, t)]
          /\ e \in open /\ ~(e.series \in SeriesOn(p) /\ e.ordinal # NextOrdinal(p))
      BY <2>3 DEF ObserveTopology, OpenGeneration, Retire, Close
    <3>2. e.series \in registered \cap Series /\ PathOf[e.series] \in Paths
      BY <3>1, ObservatoryAssumption
      DEF AllInv, RInv, EInv, OpenEpisode, ObservatoryAssumption
    <3>3. CASE PathOf[e.series] = p
      <4>1. e.ordinal = NextOrdinal(p)
        BY <3>1, <3>2, <3>3 DEF SeriesOn
      <4> QED
        BY <3>3, <4>1, NextNotCurrent DEF AllInv
    <3>4. CASE PathOf[e.series] # p
      <4>1. generations'[PathOf[e.series]] = generations[PathOf[e.series]]
        BY <3>1, <3>2, <3>4 DEF AllInv, CInv, CatalogTypeOK
      <4> QED
        BY <4>1 DEF IsCurrent, Find
    <3> QED
      BY <3>3, <3>4
  <2>4. \/ UNCHANGED generations
        \/ \E p \in Paths, t \in Topologies \cup {Bare} : RegisterRoute(p, t)
        \/ \E p \in Paths, t \in Topologies : ObserveTopology(p, t)
    BY DEF Next, vars, catalogVars, Tick, RegisterSource, RegisterSeries, Ingest, Summarize
  <2> QED
    BY <2>1, <2>2, <2>3, <2>4
<1> QED
  BY <1>1, AllInvariance, PTL DEF Spec, EpisodesEndWithGeneration

----------------------------------------------------------------------------
(* The history of a path. *)

(* The ordinals of a history grow. *)
LEMMA OrdinalsGrow ==
  ASSUME CInv, NEW p \in Paths, NEW i \in 1..Len(generations[p])
  PROVE  \A j \in 1..Len(generations[p]) :
           i < j => generations[p][i].ordinal < generations[p][j].ordinal
<1> DEFINE h == generations[p]
           Bad == {j \in 1..Len(h) : i < j /\ ~(h[i].ordinal < h[j].ordinal)}
<1>1. /\ Len(h) \in Nat /\ \A m \in 1..Len(h) : h[m].ordinal \in Nat
      /\ \A m \in 1..(Len(h) - 1) : h[m + 1].ordinal = h[m].ordinal + 1
  BY NewestGeneration DEF CInv, OneOpenGeneration, Generation
<1> HIDE DEF h
<1> SUFFICES ASSUME Bad # {} PROVE FALSE
  BY DEF h
<1>2. PICK j \in Bad : \A m \in Bad : j <= m
  <2>1. Bad \subseteq Nat
    BY <1>1
  <2> HIDE DEF Bad
  <2> QED
    BY <2>1, LeastNumber
<1>3. j \in 1..Len(h) /\ i < j /\ ~(h[i].ordinal < h[j].ordinal)
  BY <1>2
<1>4. j - 1 \in 1..(Len(h) - 1) /\ h[j].ordinal = h[j - 1].ordinal + 1
  BY <1>1, <1>3
<1>5. CASE j - 1 = i
  BY <1>1, <1>3, <1>4, <1>5
<1>6. CASE j - 1 # i
  <2>1. j - 1 \in Bad
    BY <1>1, <1>3, <1>4, <1>6
  <2> QED
    BY <1>2, <1>3, <2>1
<1> QED
  BY <1>5, <1>6

(* A new generation comes last, and the others keep what they are, closed.   *)
LEMMA OpenedKeeps ==
  ASSUME CInv, NEW p \in Paths, NEW t \in Topologies
  PROVE  /\ Opened(p, t) # <<>>
         /\ Opened(p, t)[Len(Opened(p, t))].ordinal = NextOrdinal(p)
         /\ \A i \in DOMAIN generations[p], j \in DOMAIN Opened(p, t) :
              Opened(p, t)[j].ordinal = generations[p][i].ordinal =>
                /\ Opened(p, t)[j].topology = generations[p][i].topology
                /\ ~Opened(p, t)[j].open
         /\ \A j \in DOMAIN Opened(p, t) :
              \/ Opened(p, t)[j].ordinal = NextOrdinal(p)
              \/ \E i \in DOMAIN generations[p] :
                   Opened(p, t)[j].ordinal = generations[p][i].ordinal
<1> DEFINE old == generations[p]
           n == Len(generations[p])
           gen == [ordinal |-> NextOrdinal(p), topology |-> t, open |-> TRUE]
           all == Append(Shut(old), gen)
           new == Opened(p, t)
<1>1. /\ old \in Seq(Generation) /\ n \in Nat /\ DOMAIN old = 1..n
      /\ n <= MaxHistory /\ MaxHistory \in Nat \ {0} /\ NextOrdinal(p) \in Nat \ {0}
      /\ \A i \in 1..n : old[i] \in Generation
  BY NewestGeneration
<1>2. \A i \in 1..n : old[i].open <=> i = n
  BY NewestGeneration DEF CInv, OneOpenGeneration
<1>3. gen \in Generation /\ gen.ordinal = NextOrdinal(p)
  BY <1>1 DEF Generation
<1>4. /\ Shut(old) \in Seq(Generation) /\ Len(Shut(old)) = n
      /\ \A i \in 1..n : /\ Shut(old)[i].ordinal = old[i].ordinal /\ ~Shut(old)[i].open
                         /\ Shut(old)[i].topology = old[i].topology
  <2>1. \A i \in 1..n :
          Shut(old)[i] = IF i = n THEN [old[i] EXCEPT !.open = FALSE] ELSE old[i]
    BY <1>1 DEF Shut
  <2>2. \A i \in 1..n : [old[i] EXCEPT !.open = FALSE].topology = old[i].topology
    BY <1>1, ClosedGeneration
  <2>3. \A i \in 1..n : Shut(old)[i].topology = old[i].topology
    BY <2>1, <2>2
  <2> QED
    BY <1>1, <1>2, <2>3, ShutShape
<1>5. new = IF Len(all) > MaxHistory THEN Tail(all) ELSE all
  BY DEF Opened, Shut
<1> HIDE DEF gen, new
<1>6. /\ all \in Seq(Generation) /\ Len(all) = n + 1 /\ all[n + 1] = gen
      /\ \A i \in 1..n : all[i] = Shut(old)[i]
  BY <1>1, <1>3, <1>4
<1> HIDE DEF all
<1>7. /\ new \in Seq(Generation) /\ Len(new) \in Nat \ {0} /\ DOMAIN new = 1..Len(new)
      /\ new[Len(new)] = gen
      /\ \A j \in 1..Len(new) : new[j] = gen \/ \E m \in 1..n : new[j] = Shut(old)[m]
  <2>1. CASE Len(all) > MaxHistory
    <3>1. /\ Tail(all) \in Seq(Generation) /\ Len(Tail(all)) = n
          /\ \A j \in 1..n : Tail(all)[j] = all[j + 1]
      BY <1>1, <1>6
    <3>2. n # 0
      BY <1>1, <1>6, <2>1
    <3>3. \A j \in 1..n : j + 1 = n + 1 \/ j + 1 \in 1..n
      BY <1>1
    <3> QED
      BY <1>1, <1>5, <1>6, <2>1, <3>1, <3>2, <3>3
  <2>2. CASE ~(Len(all) > MaxHistory)
    <3>1. \A j \in 1..(n + 1) : j = n + 1 \/ j \in 1..n
      BY <1>1
    <3> QED
      BY <1>1, <1>5, <1>6, <2>2, <3>1
  <2> QED
    BY <2>1, <2>2
<1>8. \A i \in 1..n : old[i].ordinal < NextOrdinal(p)
  <2> SUFFICES ASSUME NEW i \in 1..n PROVE old[i].ordinal < NextOrdinal(p)
    OBVIOUS
  <2>1. n \in 1..n /\ old # <<>> /\ old[n].ordinal \in Nat /\ old[i].ordinal \in Nat
    BY <1>1 DEF Generation
  <2>2. NextOrdinal(p) = old[n].ordinal + 1
    BY <2>1 DEF NextOrdinal, HasCurrent, Current
  <2>3. i < n => old[i].ordinal < old[n].ordinal
    BY <2>1, OrdinalsGrow
  <2> QED
    BY <1>1, <2>1, <2>2, <2>3
<1>9. ASSUME NEW i \in 1..n, NEW j \in 1..Len(new), new[j].ordinal = old[i].ordinal
      PROVE  new[j].topology = old[i].topology /\ ~new[j].open
  <2>1. old[i].ordinal \in Nat
    BY <1>1 DEF Generation
  <2>2. new[j] # gen
    BY <1>1, <1>3, <1>8, <1>9, <2>1
  <2>3. PICK m \in 1..n : new[j] = Shut(old)[m]
    BY <1>7, <2>2
  <2>4. old[m].ordinal = old[i].ordinal
    BY <1>4, <1>9, <2>3
  <2>5. i = m
    <3>1. i < m => old[i].ordinal < old[m].ordinal
      BY OrdinalsGrow
    <3>2. m < i => old[m].ordinal < old[i].ordinal
      BY OrdinalsGrow
    <3> QED
      BY <2>1, <2>4, <3>1, <3>2
  <2> QED
    BY <1>4, <2>3, <2>5
<1>10. \A j \in 1..Len(new) : \/ new[j].ordinal = NextOrdinal(p)
                             \/ \E i \in 1..n : new[j].ordinal = old[i].ordinal
  BY <1>3, <1>4, <1>7
<1> QED
  BY <1>1, <1>3, <1>7, <1>9, <1>10, EmptySeq DEF new

(* Every generation has a number below the bound.                            *)
OInv == \A p \in Paths : \A i \in DOMAIN generations[p] : generations[p][i].ordinal \in 1..MaxOrdinal

LEMMA OrdinalInvariance == Spec => []OInv
<1>1. Init => OInv
  <2> SUFFICES ASSUME Init PROVE OInv
    OBVIOUS
  <2>1. \A p \in Paths : generations[p] = <<>>
    BY DEF Init, CatalogInit
  <2> QED
    BY <2>1 DEF OInv
<1>2. CInv /\ OInv /\ [Next]_vars => OInv'
  <2> SUFFICES ASSUME CInv, OInv, [Next]_vars PROVE OInv'
    OBVIOUS
  <2>1. ASSUME NEW q \in Paths, NEW t \in Topologies, NextOrdinal(q) <= MaxOrdinal,
               generations' = [generations EXCEPT ![q] = Opened(q, t)]
        PROVE  OInv'
    <3>1. NextOrdinal(q) \in 1..MaxOrdinal
      BY <2>1, NewestGeneration, CatalogAssumption DEF CatalogAssumption
    <3>2. \A j \in DOMAIN Opened(q, t) : Opened(q, t)[j].ordinal \in 1..MaxOrdinal
      BY <3>1, OpenedKeeps DEF OInv
    <3>3. \A p \in Paths : generations'[p] = generations[p] \/ (p = q /\ generations'[p] = Opened(q, t))
      BY <2>1 DEF CInv, CatalogTypeOK
    <3> QED
      BY <3>2, <3>3 DEF OInv
  <2>2. CASE UNCHANGED catalogVars
    BY <2>2 DEF catalogVars, OInv
  <2>3. CASE \E p \in Paths, t \in Topologies \cup {Bare} : RegisterPath(p, t)
    <3>1. CASE UNCHANGED generations
      BY <3>1 DEF OInv
    <3> QED
      BY <2>1, <2>3, <3>1 DEF RegisterPath
  <2>4. CASE \E p \in Paths, t \in Topologies : OpenGeneration(p, t) /\ UNCHANGED described
    BY <2>1, <2>4 DEF OpenGeneration
  <2> QED
    BY <2>2, <2>3, <2>4, CatalogSteps
<1> QED
  BY <1>1, <1>2, CatalogInvariance, PTL DEF Spec

(* A dropped or closed generation never comes back: path.cpp numbers         *)
(* generations on from its newest one, and only ever closes what is there.   *)
THEOREM RoutesOnlyClose == Spec => GenerationsOnlyClose
<1> DEFINE OnlyClose == \A p \in Paths :
             /\ \A i \in DOMAIN generations[p] : \A j \in DOMAIN generations'[p] :
                  generations'[p][j].ordinal = generations[p][i].ordinal =>
                    /\ generations'[p][j].topology = generations[p][i].topology
                    /\ generations'[p][j].open => generations[p][i].open
             /\ HasCurrent(p) => Current(p)'.ordinal >= Current(p).ordinal
<1>1. CInv /\ [Next]_vars => [OnlyClose]_catalogVars
  <2> SUFFICES ASSUME CInv, [Next]_vars, ~UNCHANGED catalogVars PROVE OnlyClose
    OBVIOUS
  <2> SUFFICES ASSUME NEW p \in Paths
               PROVE  /\ \A i \in DOMAIN generations[p] : \A j \in DOMAIN generations'[p] :
                           generations'[p][j].ordinal = generations[p][i].ordinal =>
                             /\ generations'[p][j].topology = generations[p][i].topology
                             /\ generations'[p][j].open => generations[p][i].open
                      /\ HasCurrent(p) => Current(p)'.ordinal >= Current(p).ordinal
    OBVIOUS
  <2>0. /\ DOMAIN generations[p] = 1..Len(generations[p]) /\ Len(generations[p]) \in Nat
        /\ \A i \in 1..Len(generations[p]) : generations[p][i].ordinal \in Nat
    BY NewestGeneration DEF Generation
  <2>1. CASE generations'[p] = generations[p]
    <3>1. ASSUME NEW i \in DOMAIN generations[p], NEW j \in DOMAIN generations[p],
                 generations[p][j].ordinal = generations[p][i].ordinal
          PROVE  i = j
      <4>1. i < j => generations[p][i].ordinal < generations[p][j].ordinal
        BY <2>0, OrdinalsGrow
      <4>2. j < i => generations[p][j].ordinal < generations[p][i].ordinal
        BY <2>0, OrdinalsGrow
      <4> QED
        BY <2>0, <3>1, <4>1, <4>2
    <3>2. HasCurrent(p) => Len(generations[p]) \in 1..Len(generations[p])
      BY <2>0, NewestGeneration, EmptySeq DEF HasCurrent
    <3> QED
      BY <2>0, <2>1, <3>1, <3>2 DEF Current
  <2>2. ASSUME NEW t \in Topologies, generations'[p] = Opened(p, t)
        PROVE  /\ \A i \in DOMAIN generations[p] : \A j \in DOMAIN generations'[p] :
                    generations'[p][j].ordinal = generations[p][i].ordinal =>
                      /\ generations'[p][j].topology = generations[p][i].topology
                      /\ generations'[p][j].open => generations[p][i].open
               /\ HasCurrent(p) => Current(p)'.ordinal >= Current(p).ordinal
    <3>1. HasCurrent(p) => NextOrdinal(p) = Current(p).ordinal + 1 /\ Current(p).ordinal \in Nat
      BY <2>0, NewestGeneration, EmptySeq DEF NextOrdinal, HasCurrent, Current
    <3>2. Current(p)'.ordinal = NextOrdinal(p)
      BY <2>2, OpenedKeeps DEF Current
    <3> QED
      BY <2>2, <3>1, <3>2, OpenedKeeps
  <2>3. generations \in [Paths -> Seq(Generation)]
    BY DEF CInv, CatalogTypeOK
  <2>4. generations'[p] = generations[p] \/ \E t \in Topologies : generations'[p] = Opened(p, t)
    <3>1. ASSUME NEW q \in Paths, NEW t \in Topologies,
                 generations' = [generations EXCEPT ![q] = Opened(q, t)]
          PROVE  generations'[p] = generations[p] \/ generations'[p] = Opened(p, t)
      BY <2>3, <3>1
    <3>2. CASE \E q \in Paths, t \in Topologies \cup {Bare} : RegisterPath(q, t)
      BY <3>1, <3>2 DEF RegisterPath
    <3>3. CASE \E q \in Paths, t \in Topologies : OpenGeneration(q, t) /\ UNCHANGED described
      BY <3>1, <3>3 DEF OpenGeneration
    <3> QED
      BY <3>2, <3>3, CatalogSteps
  <2> QED
    BY <2>1, <2>2, <2>4
<1> QED
  BY <1>1, CatalogInvariance, PTL DEF Spec, GenerationsOnlyClose

----------------------------------------------------------------------------
(* What is accepted is kept. *)

AInv == accepted \in [Sources -> Seq(Fence!Batch)]

(* A call accepts the batch it was given or none.                            *)
LEMMA AcceptedSteps ==
  ASSUME [Next]_vars
  PROVE  \/ UNCHANGED accepted
         \/ \E src \in Sources, b \in Fence!Batch :
              /\ Ingest(src, b) /\ Store(src, b)
              /\ accepted' = [accepted EXCEPT ![src] = Append(@, b)]
<1>1. ASSUME NEW src \in Sources, NEW b \in Fence!Batch, Ingest(src, b)
      PROVE  \/ UNCHANGED accepted
             \/ Store(src, b) /\ accepted' = [accepted EXCEPT ![src] = Append(@, b)]
  BY <1>1 DEF Ingest, Fence!AcceptBatch, Fence!ArchiveBatch, Fence!RecordConflict,
              Fence!RefuseBatch, Fence!vars
<1>2. \/ UNCHANGED accepted
      \/ \E src \in Sources, b \in Fence!Batch : Ingest(src, b)
  BY DEF Next, vars, fenceVars, Tick, RegisterSource, RegisterSeries, RegisterRoute,
         ObserveTopology, Summarize
<1> QED
  BY <1>1, <1>2

(* The accepted batches of a source are a sequence of batches.               *)
LEMMA AcceptedInvariance == Spec => []AInv
<1>1. Init => AInv
  BY EmptySeq DEF Init, Fence!Init, AInv
<1>2. AInv /\ [Next]_vars => AInv'
  BY AcceptedSteps DEF AInv
<1> QED
  BY <1>1, <1>2, PTL DEF Spec

(* What enters a window is in it then, and makes no other enter.             *)
LEMMA AddedRange ==
  ASSUME NEW w \in Seq(Sample), NEW x \in Sample
  PROVE  x \in Range(Added(w, x)) /\ Range(Added(w, x)) \subseteq Range(w) \cup {x}
<1> DEFINE all == Append(w, x)
<1>1. /\ Len(w) \in Nat /\ DOMAIN w = 1..Len(w)
      /\ all \in Seq(Sample) /\ Len(all) = Len(w) + 1 /\ DOMAIN all = 1..(Len(w) + 1)
      /\ all[Len(w) + 1] = x /\ \A i \in 1..Len(w) : all[i] = w[i]
  OBVIOUS
<1>2. \A i \in 1..(Len(w) + 1) : all[i] = x \/ all[i] \in Range(w)
  <2>1. \A i \in 1..(Len(w) + 1) : i = Len(w) + 1 \/ i \in 1..Len(w)
    BY <1>1
  <2> QED
    BY <1>1, <2>1 DEF Range
<1> HIDE DEF all
<1>3. CASE x \in Range(w)
  BY <1>3 DEF Added
<1>4. CASE x \notin Range(w) /\ Len(all) > WindowCapacity
  <2>1. Len(w) # 0
    BY <1>1, <1>4, ObservatoryAssumption DEF ObservatoryAssumption
  <2>2. /\ Len(Tail(all)) = Len(w) /\ DOMAIN Tail(all) = 1..Len(w)
        /\ \A i \in 1..Len(w) : Tail(all)[i] = all[i + 1]
    BY <1>1
  <2>3. Added(w, x) = Tail(all)
    BY <1>4 DEF Added, all
  <2>4. Len(w) \in 1..Len(w) /\ \A i \in 1..Len(w) : i + 1 \in 1..(Len(w) + 1)
    BY <1>1, <2>1
  <2>5. x \in Range(Tail(all))
    BY <1>1, <2>2, <2>4 DEF Range
  <2>6. Range(Tail(all)) \subseteq Range(w) \cup {x}
    BY <1>2, <2>2, <2>4 DEF Range
  <2> QED
    BY <2>3, <2>5, <2>6
<1>5. CASE x \notin Range(w) /\ ~(Len(all) > WindowCapacity)
  <2>1. Added(w, x) = all
    BY <1>5 DEF Added, all
  <2>2. x \in Range(all) /\ Range(all) \subseteq Range(w) \cup {x}
    BY <1>1, <1>2 DEF Range
  <2> QED
    BY <2>1, <2>2
<1> QED
  BY <1>3, <1>4, <1>5

(* Accepting and storing are one: whatever ingest counts as accepted is in   *)
(* its window when the call returns, also when the table of windows was full *)
(* before it (ingest_locked moves the guard last).                           *)
THEOREM AcceptedStored == Spec => AcceptedIsStored
<1> DEFINE Stored == \A src \in Sources : accepted'[src] # accepted[src] =>
             LET b == accepted'[src][Len(accepted'[src])]
                 x == [source |-> src, position |-> b.position, stamp |-> b.content.stamp]
             IN /\ x \in Range(windows'[Key(b)])
                /\ \A k \in WindowKey : Range(windows'[k]) \subseteq
                     Range(windows[k]) \cup (IF k = Key(b) THEN {x} ELSE {})
<1>1. WInv /\ OInv /\ AInv /\ [Next]_vars => [Stored]_vars
  <2> SUFFICES ASSUME WInv, OInv, AInv, [Next]_vars PROVE Stored
    OBVIOUS
  <2>1. CASE UNCHANGED accepted
    BY <2>1
  <2>2. ASSUME NEW src \in Sources, NEW b \in Fence!Batch, Ingest(src, b), Store(src, b),
               accepted' = [accepted EXCEPT ![src] = Append(@, b)]
        PROVE  Stored
    <3> DEFINE x == [source |-> src, position |-> b.position, stamp |-> b.content.stamp]
               was == accepted[src]
    <3>1. was \in Seq(Fence!Batch) /\ accepted'[src] = Append(was, b)
      BY <2>2 DEF AInv
    <3> HIDE DEF was
    <3>2. Append(was, b)[Len(Append(was, b))] = b
      BY <3>1
    <3>3. \A s \in Sources : accepted'[s] # accepted[s] => s = src
      BY <2>2 DEF AInv
    <3>4. b.position \in Positions /\ b.content \in Contents
      BY DEF Fence!Batch
    <3>5. /\ b.content.stamp \in Nat /\ b.content.series \in Series /\ b.content.ordinal \in Nat \ {0}
      BY <3>4, ObservatoryAssumption DEF ObservatoryAssumption
    <3>6. x \in Sample
      BY <3>4, <3>5 DEF Sample
    <3>7. Key(b) \in WindowKey
      <4>1. IsCurrent(PathOf[b.content.series], b.content.ordinal)
        BY <2>2 DEF Ingest, Admitted
      <4>2. PathOf[b.content.series] \in Paths
        BY <3>5, ObservatoryAssumption DEF ObservatoryAssumption
      <4>3. b.content.ordinal \in 1..MaxOrdinal
        BY <4>1, <4>2 DEF IsCurrent, Find, OInv
      <4> QED
        BY <3>5, <4>3 DEF Key, WindowKey
    <3>8. /\ windows[Key(b)] \in Seq(Sample) /\ windows'[Key(b)] = Added(windows[Key(b)], x)
          /\ \A k \in WindowKey : k # Key(b) => windows'[k] = windows[k]
      BY <2>2, <3>7 DEF WInv, Store
    <3> HIDE DEF x
    <3>9. /\ x \in Range(windows'[Key(b)])
          /\ \A k \in WindowKey : Range(windows'[k]) \subseteq
               Range(windows[k]) \cup (IF k = Key(b) THEN {x} ELSE {})
      <4>1. x \in Range(windows'[Key(b)]) /\ Range(windows'[Key(b)]) \subseteq Range(windows[Key(b)]) \cup {x}
        BY <3>6, <3>8, AddedRange
      <4> QED
        BY <3>8, <4>1
    <3> QED
      BY <3>1, <3>2, <3>3, <3>9 DEF x
  <2> QED
    BY <2>1, <2>2, AcceptedSteps
<1> QED
  BY <1>1, WindowInvariance, OrdinalInvariance, AcceptedInvariance, PTL DEF Spec, AcceptedIsStored

----------------------------------------------------------------------------
(* Episodes and evidence. *)

(* The selection of a breach has enough fresh samples.                       *)
LEMMA BreachIsFresh ==
  ASSUME WInv, now \in Nat, NEW k \in WindowKey, NEW S \in Selections(windows[k]),
         NEW level \in LevelsOf(S), level \in Breach
  PROVE  Cardinality(Fresh(Range(windows[k]))) >= MinFresh
<1> DEFINE all == Range(windows[k])
<1>1. windows[k] \in Seq(Sample) /\ MinFresh \in Nat \ {0}
  BY ObservatoryAssumption DEF WInv, ObservatoryAssumption
<1>2. IsFiniteSet(all)
  BY <1>1, RangeFinite
<1>3. S \subseteq all
  BY DEF Selections, kSubset
<1> HIDE DEF all
<1>4. /\ Fresh(S) \subseteq Fresh(all) /\ Fresh(all) \subseteq all
  BY <1>3 DEF Fresh
<1>5. IsFiniteSet(Fresh(all)) /\ IsFiniteSet(Fresh(S))
  BY <1>2, <1>4, FS_Subset
<1>6. /\ Cardinality(Fresh(S)) \in Nat /\ Cardinality(Fresh(all)) \in Nat
      /\ Cardinality(Fresh(S)) <= Cardinality(Fresh(all))
      /\ Cardinality(Fresh(S)) = 0 <=> Fresh(S) = {}
  BY <1>4, <1>5, FS_CardinalityType, FS_Subset, FS_EmptySet
<1>7. level = "unstable" \/ level = "elevated"
  BY DEF Breach
<1>8. ~(Cardinality(Fresh(S)) \in 1..(MinFresh - 1))
  BY <1>7 DEF LevelsOf
<1>9. Fresh(S) # {}
  BY <1>7 DEF LevelsOf
<1> QED
  BY <1>1, <1>6, <1>8, <1>9 DEF all

(* An episode that a summary opens, or whose recovery it resets.             *)
LEMMA OpenedByBreach ==
  ASSUME EInv, NEW s \in Series, NEW ordinal \in Nat, NEW current, NEW level,
         Observe(s, ordinal, current, level, now),
         NEW e \in open', e \notin open, e.recovery = 0
  PROVE  current /\ level \in Breach /\ e.series = s /\ e.ordinal = ordinal
<1>1. \A x \in open : x \in OpenEpisode /\ x.recovery \in Nat
  BY DEF EInv, OpenEpisode
<1>2. ASSUME NEW E, NEW reason, Close(E, now, reason) PROVE FALSE
  BY <1>2 DEF Close
<1>3. ~ObserveClosedGeneration(s, ordinal, now) /\ ~ObserveLoss(s, ordinal, now)
  BY <1>2 DEF ObserveClosedGeneration, ObserveLoss
<1>4. ~ObserveCalm(s, ordinal, now)
  <2> SUFFICES ASSUME ObserveCalm(s, ordinal, now) PROVE FALSE
    OBVIOUS
  <2> DEFINE E == OpenOf(s, ordinal)
  <2>1. open' = {IF x \in E THEN [x EXCEPT !.recovery = @ + 1] ELSE x : x \in open}
    BY <1>2 DEF ObserveCalm
  <2>2. PICK x \in open : e = IF x \in E THEN [x EXCEPT !.recovery = @ + 1] ELSE x
    BY <2>1
  <2>3. e = [x EXCEPT !.recovery = @ + 1]
    BY <2>2
  <2>4. e.recovery = x.recovery + 1
    BY <1>1, <2>3 DEF OpenEpisode
  <2> QED
    BY <1>1, <2>4
<1>5. ObserveBreach(s, ordinal, now) /\ current /\ level \in Breach
  BY <1>3, <1>4 DEF Observe
<1>6. e.series = s /\ e.ordinal = ordinal
  <2>1. CASE OpenOf(s, ordinal) = {}
    BY <1>5, <2>1 DEF ObserveBreach
  <2>2. CASE OpenOf(s, ordinal) # {}
    <3>1. PICK x \in open : e = IF x \in OpenOf(s, ordinal) THEN [x EXCEPT !.recovery = 0] ELSE x
      BY <1>5, <2>2 DEF ObserveBreach
    <3>2. x \in OpenOf(s, ordinal) /\ e = [x EXCEPT !.recovery = 0]
      BY <3>1
    <3>3. x.series = s /\ x.ordinal = ordinal
      BY <3>2 DEF OpenOf
    <3> QED
      BY <1>1, <3>2, <3>3 DEF OpenEpisode
  <2> QED
    BY <2>1, <2>2
<1> QED
  BY <1>5, <1>6

(* An episode opens, or starts to recover anew, only on enough fresh evidence *)
(* of the open generation: samples that have aged, or are of a route that    *)
(* was left, never do it (classify and EpisodeLog::observe).                 *)
THEOREM EpisodesAreGrounded == Spec => EpisodesNeedFreshEvidence
<1> DEFINE Grounded == \A e \in open' : e \notin open /\ e.recovery = 0 =>
             /\ IsCurrent(PathOf[e.series], e.ordinal)
             /\ Cardinality(Fresh(Range(windows[<<e.series, e.ordinal>>]))) >= MinFresh
<1>1. WInv /\ EInv /\ [Next]_vars => [Grounded]_vars
  <2> SUFFICES ASSUME WInv, EInv, [Next]_vars PROVE Grounded
    OBVIOUS
  <2>1. CASE open' \subseteq open
    BY <2>1
  <2>2. ASSUME NEW s \in Series, NEW ordinal \in 1..MaxOrdinal, Summarize(s, ordinal)
        PROVE  Grounded
    <3> DEFINE k == <<s, ordinal>>
               current == IsCurrent(PathOf[s], ordinal)
    <3>1. PICK S \in Selections(windows[k]) :
            \E level \in (IF current THEN LevelsOf(S) ELSE {"unsupported"}) :
              Observe(s, ordinal, current, level, now)
      BY <2>2 DEF Summarize
    <3>2. PICK level \in (IF current THEN LevelsOf(S) ELSE {"unsupported"}) :
            Observe(s, ordinal, current, level, now)
      BY <3>1
    <3>3. k \in WindowKey /\ ordinal \in Nat /\ now \in Nat
      BY CatalogAssumption DEF CatalogAssumption, WindowKey, EInv
    <3> HIDE DEF current
    <3> SUFFICES ASSUME NEW e \in open', e \notin open, e.recovery = 0
                 PROVE  /\ IsCurrent(PathOf[e.series], e.ordinal)
                        /\ Cardinality(Fresh(Range(windows[<<e.series, e.ordinal>>]))) >= MinFresh
      OBVIOUS
    <3>4. current /\ level \in Breach /\ e.series = s /\ e.ordinal = ordinal
      BY <3>2, <3>3, OpenedByBreach
    <3>5. level \in LevelsOf(S)
      BY <3>2, <3>4
    <3>6. Cardinality(Fresh(Range(windows[k]))) >= MinFresh
      <4> HIDE DEF k
      <4> QED
        BY <3>1, <3>3, <3>4, <3>5, BreachIsFresh
    <3> QED
      BY <3>4, <3>6 DEF current
  <2>3. \/ open' \subseteq open
        \/ \E s \in Series, ordinal \in 1..MaxOrdinal : Summarize(s, ordinal)
    BY DEF Next, vars, episodeVars, Tick, RegisterSource, RegisterSeries, RegisterRoute,
           ObserveTopology, Retire, Close, Ingest
  <2> QED
    BY <2>1, <2>2, <2>3
<1> QED
  BY <1>1, WindowInvariance, AllInvariance, PTL DEF Spec, AllInv, EpisodesNeedFreshEvidence

----------------------------------------------------------------------------
(* Closed episodes. *)

(* Every call keeps the log, and every list of it follows from what it was.  *)
LEMMA HistoryStep == EInv /\ LogHeld /\ [Next]_vars => LogStep
<1> SUFFICES ASSUME EInv, LogHeld, [Next]_vars PROVE LogStep
  OBVIOUS
<1>0. now \in Nat
  BY DEF EInv
<1>1. CASE UNCHANGED episodeVars
  BY <1>1, FollowsItself DEF LogHeld, LogStep, episodeVars
<1>2. ASSUME NEW p \in Paths, NEW t \in Topologies, ObserveTopology(p, t)
      PROVE  LogStep
  <2> DEFINE E == {e \in open : e.series \in SeriesOn(p) /\ e.ordinal # NextOrdinal(p)}
  <2>1. Close(E, now, "generation_changed") /\ E \in SUBSET open
    BY <1>2 DEF ObserveTopology, Retire
  <2> HIDE DEF E
  <2> QED
    BY <1>0, <2>1, ClosedLists DEF Reasons
<1>3. ASSUME NEW s \in Series, NEW ordinal \in 1..MaxOrdinal, Summarize(s, ordinal)
      PROVE  LogStep
  <2>1. ordinal \in Nat
    BY CatalogAssumption DEF CatalogAssumption
  <2>2. \E current, level : Observe(s, ordinal, current, level, now)
    BY <1>3 DEF Summarize
  <2> QED
    BY <1>0, <2>1, <2>2, ObservedLists
<1>4. \/ UNCHANGED episodeVars
      \/ \E p \in Paths, t \in Topologies : ObserveTopology(p, t)
      \/ \E s \in Series, ordinal \in 1..MaxOrdinal : Summarize(s, ordinal)
  BY DEF Next, vars, Tick, RegisterSource, RegisterSeries, RegisterRoute, Ingest
<1> QED
  BY <1>1, <1>2, <1>3, <1>4

LEMMA HistoryInvariance == Spec => [](EInv /\ LogHeld)
<1>1. Init => EInv /\ LogHeld
  BY NewLog DEF Init, EpisodeInit, EInv, OneOpenEpisode
<1>2. EInv /\ LogHeld /\ [Next]_vars => EInv' /\ LogHeld'
  BY EpisodeStep, HistoryStep DEF LogStep
<1> QED
  BY <1>1, <1>2, PTL DEF Spec

(* The history of a series is kept: whatever closes, in whatever order it    *)
(* opened, a closed episode stays in the list, and is dropped only from a    *)
(* full list of episodes that opened no earlier (EpisodeLog::insert_closed). *)
THEOREM EpisodesKept == Spec => ClosedEpisodesKept
<1> DEFINE Kept == \A s \in Series : \A i \in DOMAIN closed[s] :
             \/ \E j \in DOMAIN closed'[s] : closed'[s][j] = closed[s][i]
             \/ /\ Len(closed'[s]) = MaxEpisodes
                /\ \A j \in DOMAIN closed'[s] : closed'[s][j].opened >= closed[s][i].opened
<1>1. EInv /\ LogHeld /\ [Next]_vars => [Kept]_episodeVars
  BY HistoryStep DEF LogStep, Follows, FullSince
<1> QED
  BY <1>1, HistoryInvariance, PTL DEF Spec, ClosedEpisodesKept

(* A generation that opens changes the history of its path.                  *)
LEMMA NewRoute ==
  ASSUME CInv, NEW p \in Paths, NEW t \in Topologies, OpenGeneration(p, t)
  PROVE  generations'[p] # generations[p]
<1>1. generations'[p] = Opened(p, t)
  BY DEF OpenGeneration, CInv, CatalogTypeOK
<1>2. /\ Opened(p, t) # <<>>
      /\ Opened(p, t)[Len(Opened(p, t))].ordinal = NextOrdinal(p)
  BY OpenedKeeps
<1>3. generations[p] # <<>> => /\ NextOrdinal(p) = generations[p][Len(generations[p])].ordinal + 1
                              /\ generations[p][Len(generations[p])].ordinal \in Nat
  <2> SUFFICES ASSUME generations[p] # <<>>
               PROVE  /\ NextOrdinal(p) = generations[p][Len(generations[p])].ordinal + 1
                      /\ generations[p][Len(generations[p])].ordinal \in Nat
    OBVIOUS
  <2>1. generations[p][Len(generations[p])] \in Generation
    BY NewestGeneration, EmptySeq
  <2> QED
    BY <2>1 DEF NextOrdinal, HasCurrent, Current, Generation
<1> QED
  BY <1>1, <1>2, <1>3

(* The history of episodes is true: whatever closes was open, an episode is  *)
(* retired only when its own path takes a new route, superseded only when    *)
(* its generation had closed before, and found over or lost only while that  *)
(* is the current one; and no late summary opens or extends an episode of a  *)
(* route that was left (EpisodeLog::observe, observe_topology_locked).       *)
THEOREM EpisodesHaveCauses == Spec => EpisodesCloseForCause
<1> DEFINE Caused ==
      /\ \A s \in Series : \A f \in Range(closed'[s]) \ Range(closed[s]) :
           LET p == PathOf[s] IN
           /\ \E e \in open \ open' :
                e.series = s /\ e.ordinal = f.ordinal /\ e.opened = f.opened
           /\ CASE f.reason = "generation_changed" -> generations'[p] # generations[p]
                [] f.reason = "superseded"         -> ~IsCurrent(p, f.ordinal)
                [] OTHER                           -> IsCurrent(p, f.ordinal)
      /\ \A e \in open' \ open : IsCurrent(PathOf[e.series], e.ordinal)
<1>1. CInv /\ EInv /\ LogHeld /\ [Next]_vars => [Caused]_vars
  <2> SUFFICES ASSUME CInv, EInv, LogHeld, [Next]_vars PROVE Caused
    OBVIOUS
  <2>0. now \in Nat
    BY DEF EInv
  <2>1. CASE UNCHANGED episodeVars
    BY <2>1 DEF episodeVars
  <2>2. ASSUME NEW p \in Paths, NEW t \in Topologies, ObserveTopology(p, t)
        PROVE  Caused
    <3> DEFINE E == {e \in open : e.series \in SeriesOn(p) /\ e.ordinal # NextOrdinal(p)}
    <3>1. Close(E, now, "generation_changed") /\ E \in SUBSET open /\ "generation_changed" \in Reasons
      BY <2>2 DEF ObserveTopology, Retire, Reasons
    <3>2. \A e \in E : PathOf[e.series] = p
      BY DEF SeriesOn
    <3>3. generations'[p] # generations[p]
      BY <2>2, NewRoute DEF ObserveTopology
    <3> HIDE DEF E
    <3>4. ASSUME NEW s \in Series, NEW f \in Range(closed'[s]) \ Range(closed[s])
          PROVE  /\ f.reason = "generation_changed"
                 /\ \E e \in E \cap (open \ open') :
                      e.series = s /\ e.ordinal = f.ordinal /\ e.opened = f.opened
      BY <2>0, <3>1, ClosedFrom
    <3>5. open' \ open = {}
      BY <3>1 DEF Close
    <3> QED
      BY <3>2, <3>3, <3>4, <3>5
  <2>3. ASSUME NEW s \in Series, NEW ordinal \in 1..MaxOrdinal, Summarize(s, ordinal)
        PROVE  Caused
    <3> DEFINE current == IsCurrent(PathOf[s], ordinal)
    <3>1. PICK level : Observe(s, ordinal, current, level, now)
      BY <2>3 DEF Summarize
    <3>2. ordinal \in Nat /\ current \in BOOLEAN
      BY CatalogAssumption DEF CatalogAssumption, IsCurrent
    <3> HIDE DEF current
    <3>3. /\ \A e \in open' \ open : current /\ e.series = s /\ e.ordinal = ordinal
          /\ \A z \in Series : \A f \in Range(closed'[z]) \ Range(closed[z]) :
               /\ z = s /\ f.ordinal = ordinal
               /\ \/ current /\ f.reason \in {"recovered", "evidence_lost"}
                  \/ ~current /\ f.reason = "superseded"
               /\ \E e \in open \ open' :
                    e.series = z /\ e.ordinal = f.ordinal /\ e.opened = f.opened
      BY <2>0, <3>1, <3>2, ObservedFrom
    <3> QED
      BY <3>3 DEF current
  <2>4. \/ UNCHANGED episodeVars
        \/ \E p \in Paths, t \in Topologies : ObserveTopology(p, t)
        \/ \E s \in Series, ordinal \in 1..MaxOrdinal : Summarize(s, ordinal)
    BY DEF Next, vars, Tick, RegisterSource, RegisterSeries, RegisterRoute, Ingest
  <2> QED
    BY <2>1, <2>2, <2>3, <2>4
<1> QED
  BY <1>1, CatalogInvariance, HistoryInvariance, PTL DEF Spec, EpisodesCloseForCause
=============================================================================
