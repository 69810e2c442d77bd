---------------------------- MODULE PathCatalog ----------------------------
(***************************************************************************)
(* Paths and the generations of their routes (src/src/path.cpp).           *)
(*                                                                         *)
(* A generation is an interval during which a path keeps one topology.     *)
(* Its identity is the digest of path, ordinal and topology: here the      *)
(* pair <<path, ordinal>>, since a path never reuses an ordinal.           *)
(***************************************************************************)
EXTENDS Integers, Sequences, FiniteSets

CONSTANTS
  Paths,
  Topologies,     (* routes: sequences of hops, told apart by their digest *)
  Absent,         (* the path is not registered                            *)
  Bare,           (* the path is registered without hops                   *)
  MaxPaths,       (* Limits::kMaxPaths                                     *)
  MaxHistory,     (* Limits::kMaxGenerationHistoryPerPath                  *)
  Routes,         (* bound: the topologies that occur on each path         *)
  MaxOrdinal      (* bound: generations opened per path                    *)

ASSUME CatalogAssumption ==
  /\ Absent \notin Topologies /\ Bare \notin Topologies /\ Absent # Bare
  /\ Routes \in [Paths -> SUBSET Topologies] /\ MaxPaths \in Nat
  /\ MaxHistory \in Nat \ {0} /\ MaxOrdinal \in Nat

VARIABLES
  described,    (* paths_: the hops of each path's descriptor              *)
  generations   (* generations_: the retained generations, oldest first    *)

catalogVars == <<described, generations>>

Generation == [ordinal : Nat \ {0}, topology : Topologies, open : BOOLEAN]

CatalogTypeOK ==
  /\ described \in [Paths -> Topologies \cup {Absent, Bare}]
  /\ generations \in [Paths -> Seq(Generation)]

CatalogInit ==
  /\ described = [p \in Paths |-> Absent]
  /\ generations = [p \in Paths |-> <<>>]

Registered(p) == described[p] # Absent

(* current(): the newest generation, open or not. *)
HasCurrent(p) == generations[p] # <<>>
Current(p) == generations[p][Len(generations[p])]

(* Plausible fault, for the mutation runs: the history is trimmed.           *)
NextOrdinalByCount(p) == Len(generations[p]) + 1

NextOrdinal(p) == IF HasCurrent(p) THEN Current(p).ordinal + 1 ELSE 1

(* find_generation and is_current. *)
Find(p, ordinal) == {i \in DOMAIN generations[p] : generations[p][i].ordinal = ordinal}
Known(p, ordinal) == Find(p, ordinal) # {}
IsCurrent(p, ordinal) == \E i \in Find(p, ordinal) : generations[p][i].open

(* Plausible fault: the old generation stays open. *)
OpenedKeepingOld(p, t) ==
  LET new == [ordinal |-> NextOrdinal(p), topology |-> t, open |-> TRUE]
      all == Append(generations[p], new)
  IN IF Len(all) > MaxHistory THEN Tail(all) ELSE all

(* The history of p once topology t, a new one, has been observed: the       *)
(* current generation is closed, a new one opened, the oldest dropped when   *)
(* the history is full.                                                      *)
Opened(p, t) ==
  LET old == generations[p]
      new == [ordinal |-> NextOrdinal(p), topology |-> t, open |-> TRUE]
      all == Append([i \in DOMAIN old |->
                       IF i = Len(old) THEN [old[i] EXCEPT !.open = FALSE] ELSE old[i]],
                    new)
  IN IF Len(all) > MaxHistory THEN Tail(all) ELSE all

(* observe_topology reports a new generation: the path had none or changed. *)
Changes(p, t) == HasCurrent(p) => Current(p).topology # t

(* PathCatalog::observe_topology for a topology that opens a generation; an  *)
(* unchanged topology changes nothing, whether the generation is open or not.*)
OpenGeneration(p, t) ==
  /\ Registered(p) /\ Changes(p, t)
  /\ t \in Routes[p] /\ NextOrdinal(p) <= MaxOrdinal
  /\ generations' = [generations EXCEPT ![p] = Opened(p, t)]

(* register_path of a path with hops t, or without any (t = Bare): a new one *)
(* while the catalog has room.  A known path keeps its descriptor, except    *)
(* that one known without hops takes them, and opens a generation like an    *)
(* observation of that topology would.                                       *)
RegisterPath(p, t) ==
  /\ t \in Routes[p] \cup {Bare}
  /\ \/ described[p] = Absent /\ Cardinality({q \in Paths : Registered(q)}) < MaxPaths
     \/ described[p] = Bare /\ t # Bare
  /\ described' = [described EXCEPT ![p] = t]
  /\ IF t # Bare /\ Changes(p, t)
       THEN /\ NextOrdinal(p) <= MaxOrdinal
            /\ generations' = [generations EXCEPT ![p] = Opened(p, t)]
       ELSE UNCHANGED generations

----------------------------------------------------------------------------
(* A path has at most one open generation, its newest, and its ordinals grow *)
(* by one from generation to generation, so a dropped one never comes back.  *)
OneOpenGeneration ==
  \A p \in Paths :
    /\ \A i \in DOMAIN generations[p] :
         generations[p][i].open <=> i = Len(generations[p])
    /\ \A i \in 1..(Len(generations[p]) - 1) :
         generations[p][i + 1].ordinal = generations[p][i].ordinal + 1
    /\ Len(generations[p]) <= MaxHistory

(* A generation is never reopened and never changes its topology: what a     *)
(* step leaves of an ordinal is what it was, or that closed; and the newest  *)
(* ordinal never moves back.                                                 *)
GenerationsOnlyClose ==
  [][\A p \in Paths :
       /\ \A i \in DOMAIN generations[p] : \A j \in DOMAIN generations'[p] :
            generations'[p][j].ordinal = generations[p][i].ordinal =>
              /\ generations'[p][j].topology = generations[p][i].topology
              /\ generations'[p][j].open => generations[p][i].open
       /\ HasCurrent(p) => Current(p)'.ordinal >= Current(p).ordinal]_catalogVars
=============================================================================
