----------------------------- MODULE ClockModel -----------------------------
(***************************************************************************)
(* Clock domains and the equivalences declared between them: ClockModel of *)
(* src/src/time.cpp, as the engine uses it.  A domain is its identity; the *)
(* unit it declares is a constant of the identity, since the identity is a *)
(* digest of the descriptor.                                               *)
(***************************************************************************)
EXTENDS Checked

CONSTANTS
  Domains,       (* identities that may be registered                      *)
  Local,         (* LocalClockDomain::id(), registered by initialize       *)
  NilDomain,     (* the nil identity                                       *)
  UnitOf,        (* descriptor.unit of each domain                         *)
  NanosPer,      (* nanos_per_unit of each unit, 0 where there is no rate   *)
  MaxDomains,    (* Limits::kMaxClockDomains, of either table               *)
  Offers,        (* equivalences that callers declare                      *)
  MinAuthority,  (* rank of policy_.minimum_equivalence_authority           *)
  MaxOffset,     (* policy_.max_accepted_offset_ns                         *)
  Convertible,   (* policy_.require_convertible_units                      *)
  Forever        (* no valid_until_utc_ns                                  *)

Equivalence == [a : Domains \cup {NilDomain}, b : Domains \cup {NilDomain}, offset : Int,
                authority : Nat, justified : BOOLEAN, until : Nat \cup {Forever}]

ASSUME ClockAssumption ==
  /\ Local \in Domains /\ NilDomain \notin Domains
  /\ UnitOf \in [Domains -> DOMAIN NanosPer] /\ NanosPer[UnitOf[Local]] = 1
  /\ NanosPer \in [DOMAIN NanosPer -> Nat]
  /\ MaxDomains \in Nat \ {0} /\ Offers \subseteq Equivalence
  /\ MinAuthority \in Nat /\ MaxOffset \in Nat /\ Convertible \in BOOLEAN
  /\ Forever \notin Nat

VARIABLES
  domains,      (* domains_                                                *)
  equivalences  (* equivalences_; their order does not matter             *)

clockVars == <<domains, equivalences>>

ClockTypeOK ==
  /\ domains \subseteq Domains
  /\ equivalences \subseteq Equivalence

ClockInit == domains = {Local} /\ equivalences = {}

Rate(d) == NanosPer[UnitOf[d]]
HasRate(d) == Rate(d) # 0

----------------------------------------------------------------------------
(* register_domain; registering a known domain again succeeds and changes    *)
(* nothing.                                                                  *)
RegisterDomain(d) ==
  /\ d \notin domains /\ Cardinality(domains) < MaxDomains
  /\ domains' = domains \cup {d}
  /\ UNCHANGED equivalences

Between(e, a, b) == {e.a, e.b} = {a, b}

(* declare_equivalence.  A pair is declared once: a declaration that has     *)
(* expired cannot be renewed.                                                *)
DeclareEquivalence(e) ==
  /\ e.a # e.b /\ {e.a, e.b} \subseteq domains
  /\ e.offset \in 0..MaxOffset
  /\ e.authority >= MinAuthority /\ e.justified
  /\ ~\E known \in equivalences : Between(known, e.a, e.b)
  /\ Cardinality(equivalences) < MaxDomains
  /\ equivalences' = equivalences \cup {e}
  /\ UNCHANGED domains

----------------------------------------------------------------------------
Expired(e, at) == e.until # Forever /\ at > e.until

(* What stands between a and b at an instant.                                *)
Declared(a, b, at) ==
  {e \in equivalences :
     Between(e, a, b) /\ ~Expired(e, at) /\ e.authority >= MinAuthority}

(* assess: may readings of a and b be differenced at the instant?            *)
Comparability(a, b, at) ==
  IF ~({a, b} \subseteq domains)                         THEN "unknown"
  ELSE IF a = b                                          THEN "comparable"
  ELSE IF Convertible /\ ~(HasRate(a) /\ HasRate(b))     THEN "incomparable"
  ELSE IF Declared(a, b, at) # {}                        THEN "comparable"
  ELSE "incomparable"
=============================================================================
