----------------------------- MODULE EpisodeLog -----------------------------
(***************************************************************************)
(* Instability episodes (src/src/episode.cpp): at most one open episode    *)
(* per series and generation, and a bounded list of closed ones per        *)
(* series.  One instability policy and one window policy are in use, those *)
(* of the engine's configuration, so they are not part of the key.         *)
(***************************************************************************)
EXTENDS Integers, Sequences, FiniteSets, SequencesExt

CONSTANTS
  Series,
  CloseWindows,   (* policy.episode_close_windows                          *)
  MaxEpisodes,    (* Limits::kMaxEpisodesPerSeries                         *)
  MaxForgotten    (* bound: closed episodes dropped in a behaviour         *)

ASSUME EpisodeAssumption ==
  /\ CloseWindows \in Nat \ {0} /\ MaxEpisodes \in Nat \ {0}
  /\ MaxForgotten \in Nat

VARIABLES
  open,       (* open_: the open episodes                                  *)
  closed,     (* episodes_: closed episodes of each series, oldest first   *)
  forgotten   (* dropped_                                                  *)

episodeVars == <<open, closed, forgotten>>

Levels == {"unstable", "elevated", "stable", "insufficient", "missing", "stale",
           "expired", "unsupported"}
Breach == {"unstable", "elevated"}            (* asserts_instability        *)
EvidenceLost == {"missing", "stale", "expired", "unsupported"}

OpenEpisode == [series : Series, ordinal : Nat, opened : Nat, recovery : Nat]
ClosedEpisode == [series : Series, ordinal : Nat, opened : Nat, closed : Nat,
                  reason : {"recovered", "generation_changed", "evidence_lost",
                            "superseded"}]

EpisodeTypeOK ==
  /\ open \subseteq OpenEpisode
  /\ closed \in [Series -> Seq(ClosedEpisode)]
  /\ forgotten \in Nat

EpisodeInit ==
  open = {} /\ closed = [s \in Series |-> <<>>] /\ forgotten = 0

OpenOf(s, ordinal) == {e \in open : e.series = s /\ e.ordinal = ordinal}

(* close_episode: an episode never closes before it opened. *)
Closed(e, now, reason) ==
  [series |-> e.series, ordinal |-> e.ordinal, opened |-> e.opened,
   closed |-> IF now < e.opened THEN e.opened ELSE now, reason |-> reason]

(* insert_closed: the list is in opening order, so the new episode comes     *)
(* after the ones that opened no later (ties, broken by digest, in order of  *)
(* closing here).                                                            *)
Inserted(list, e) ==
  LET before == Cardinality({i \in DOMAIN list : list[i].opened <= e.opened})
  IN InsertAt(list, before + 1, e)

(* Plausible fault: off by one. *)
BoundedBelow(list) ==
  IF Len(list) >= MaxEpisodes THEN SubSeq(list, Len(list) - MaxEpisodes + 2, Len(list))
                              ELSE list

Bounded(list) ==
  IF Len(list) > MaxEpisodes THEN SubSeq(list, Len(list) - MaxEpisodes + 1, Len(list))
                             ELSE list

(* The list once the episodes of es have joined it, one by one.              *)
Joined(list, es) ==
  LET upTo[i \in 0..Len(es)] ==
        IF i = 0 THEN list ELSE Bounded(Inserted(upTo[i - 1], es[i]))
  IN upTo[Len(es)]

(* The episodes of E, closed for one reason, in some order.                  *)
AllClosed(E, now, reason) ==
  LET es == SetToSeq(E) IN [i \in DOMAIN es |-> Closed(es[i], now, reason)]

ClosedWith(E, now, reason) ==
  [s \in Series |-> Joined(closed[s], AllClosed({e \in E : e.series = s}, now, reason))]

(* How many episodes the lists of all series hold.                           *)
Retained(lists) ==
  Cardinality({k \in Series \X (1..MaxEpisodes) : k[2] \in DOMAIN lists[k[1]]})

Close(E, now, reason) ==
  /\ open' = open \ E
  /\ closed' = ClosedWith(E, now, reason)
  /\ forgotten' = forgotten + Retained(closed) + Cardinality(E) - Retained(closed')
  /\ forgotten' <= MaxForgotten

----------------------------------------------------------------------------
(* EpisodeLog::observe of a classification of series s for one generation,   *)
(* by what the classification says.                                          *)

(* The generation is closed: an open episode of it is superseded. *)
ObserveClosedGeneration(s, ordinal, now) ==
  Close(OpenOf(s, ordinal), now, "superseded")

(* Plausible fault: the open episode is not looked up. *)
ObserveBreachAnew(s, ordinal, now) ==
  /\ open' = open \cup {[series |-> s, ordinal |-> ordinal, opened |-> now, recovery |-> 0]}
  /\ UNCHANGED <<closed, forgotten>>

(* Instability asserted: open an episode, or extend it and forget recovery.  *)
ObserveBreach(s, ordinal, now) ==
  /\ open' = IF OpenOf(s, ordinal) = {}
               THEN open \cup {[series |-> s, ordinal |-> ordinal, opened |-> now,
                               recovery |-> 0]}
               ELSE {IF e \in OpenOf(s, ordinal) THEN [e EXCEPT !.recovery = 0] ELSE e
                       : e \in open}
  /\ UNCHANGED <<closed, forgotten>>

(* The evidence is gone: the episode cannot be confirmed, it is closed.      *)
ObserveLoss(s, ordinal, now) ==
  Close(OpenOf(s, ordinal), now, "evidence_lost")

(* Neither a breach nor a loss counts towards recovery, insufficient         *)
(* evidence included; enough of them in a row close the episode.             *)
ObserveCalm(s, ordinal, now) ==
  LET E == OpenOf(s, ordinal)
      recovered == {e \in E : e.recovery + 1 >= CloseWindows}
  IN IF recovered # {}
       THEN Close(recovered, now, "recovered")
       ELSE /\ open' = {IF e \in E THEN [e EXCEPT !.recovery = @ + 1] ELSE e : e \in open}
            /\ UNCHANGED <<closed, forgotten>>

Observe(s, ordinal, current, level, now) ==
  CASE ~current -> ObserveClosedGeneration(s, ordinal, now)
    [] current /\ level \in Breach       -> ObserveBreach(s, ordinal, now)
    [] current /\ level \in EvidenceLost -> ObserveLoss(s, ordinal, now)
    [] OTHER -> ObserveCalm(s, ordinal, now)

(* Plausible fault: the comparison with the current generation is inverted.  *)
RetireCurrent(S, ordinal, now) ==
  Close({e \in open : e.series \in S /\ e.ordinal = ordinal}, now,
        "generation_changed")

(* EpisodeLog::retire for each series of S: every open episode of another    *)
(* generation than the one just opened is closed.                            *)
Retire(S, ordinal, now) ==
  Close({e \in open : e.series \in S /\ e.ordinal # ordinal}, now,
        "generation_changed")

----------------------------------------------------------------------------
(* At most one episode is open per series and generation.                    *)
OneOpenEpisode ==
  \A d, e \in open : d.series = e.series /\ d.ordinal = e.ordinal => d = e

(* Closed episodes are history: they stay in opening order and are only ever *)
(* joined by new ones or, when the list is full, dropped from its old end.   *)
ClosedEpisodesKept ==
  [][\A s \in Series : \A i \in DOMAIN closed[s] :
       \/ \E j \in DOMAIN closed'[s] : closed'[s][j] = closed[s][i]
       \/ /\ Len(closed'[s]) = MaxEpisodes
          /\ \A j \in DOMAIN closed'[s] : closed'[s][j].opened >= closed[s][i].opened
    ]_episodeVars
=============================================================================
