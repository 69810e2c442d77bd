------------------------ MODULE EngineRestartProofs ------------------------
(***************************************************************************)
(* Proofs about EngineRestart, for every set of batches, capacity of a     *)
(* window, number of generations and number of processes, and wherever a   *)
(* process dies while it saves: evidence that was accepted is not accepted *)
(* again behind a restart, what came out of a store is not current in a    *)
(* process whose configuration does not admit it, and a restore brings     *)
(* back what was saved.                                                    *)
(***************************************************************************)
EXTENDS EngineRestart, EpisodeLogProofs

(* The guard stands at the position of b or at a later one.                  *)
Covers(g, b) == g.initialized /\ ~Before(At(g), b.position)

RestartTypes ==
  /\ windows \in [Ordinals -> Seq(Batches)] /\ guard \in GuardState
  /\ accepted \subseteq Batches /\ covered \subseteq Batches

(* The guard covers what was accepted; a guard in the store covers what was  *)
(* accepted when the store was written.                                      *)
Fenced == \A b \in accepted : Covers(guard, b)

StoreFenced ==
  store # NoStore =>
    /\ store.records.sample \in Seq(Batches) /\ store.records.guard \in Seq(GuardState)
    /\ store.records.guard # <<>> => \A b \in covered : Covers(store.records.guard[1], b)

(* What a process got from the store it withholds, unless it may admit it.   *)
LoadedWithheld == ~ConfigAdmits => loaded \subseteq restored

RestartInv == RestartTypes /\ Fenced /\ StoreFenced /\ LoadedWithheld

----------------------------------------------------------------------------
(* The guard. *)

(* What the constants say of a batch. *)
LEMMA BatchFacts ==
  ASSUME NEW b \in Batches
  PROVE  /\ b.position \in Position /\ b.ordinal \in Ordinals
         /\ <<"batch", b>> \in Contents /\ <<"sample", b>> \in Contents
<1>1. /\ b.position \in Position /\ b.ordinal \in 1..MaxOrdinal
      /\ Contents = {"batch", "sample"} \X Batches
  BY RestartAssumption DEF RestartAssumption
<1> QED
  BY <1>1 DEF Ordinals

(* A guard only moves forward, and covers what has moved it, also where      *)
(* evaluate would not have let it move.                                      *)
LEMMA ApplyCovers ==
  ASSUME NEW g \in GuardState, NEW b \in Batches, NEW content \in Contents
  PROVE  /\ Apply(g, b.position, content) \in GuardState
         /\ Covers(Apply(g, b.position, content), b)
         /\ \A c \in Batches : Covers(g, c) => Covers(Apply(g, b.position, content), c)
<1> DEFINE p == b.position
           h == Apply(g, p, content)
<1>1. p \in Position
  BY BatchFacts
<1> HIDE DEF p
<1>2. /\ h \in GuardState /\ h.initialized
      /\ ~Before(At(h), p)
      /\ \A q \in Position : g.initialized /\ ~Before(At(g), q) => ~Before(At(h), q)
  <2>1. CASE ~g.initialized \/ p.incarnation > g.incarnation
    <3>1. h = [initialized |-> TRUE, incarnation |-> p.incarnation,
               epoch |-> p.epoch, last_sequence |-> p.sequence, last_content |-> content]
      BY <2>1 DEF Apply
    <3> QED
      BY <1>1, <2>1, <3>1 DEF GuardState, Position, Before, At
  <2>2. CASE g.initialized /\ p.incarnation <= g.incarnation /\ p.epoch > g.epoch
    <3> DEFINE here == [initialized |-> TRUE, incarnation |-> p.incarnation, epoch |-> p.epoch,
                        last_sequence |-> p.sequence, last_content |-> content]
    <3>0. h = [here EXCEPT !.incarnation = g.incarnation]
      BY <1>1, <2>2 DEF Apply, GuardState, Position
    <3>1. h = [initialized |-> TRUE, incarnation |-> g.incarnation,
               epoch |-> p.epoch, last_sequence |-> p.sequence, last_content |-> content]
      BY <3>0
    <3>2. /\ h \in GuardState /\ h.initialized
          /\ At(h) = [incarnation |-> g.incarnation, epoch |-> p.epoch, sequence |-> p.sequence]
      BY <1>1, <3>1 DEF GuardState, Position, At
    <3> HIDE DEF h
    <3>3. /\ g.incarnation \in Nat /\ g.epoch \in Nat /\ g.last_sequence \in Nat
          /\ p.incarnation \in Nat /\ p.epoch \in Nat /\ p.sequence \in Nat
      BY <1>1 DEF GuardState, Position
    <3>4. ~Before(At(h), p)
      BY <2>2, <3>2, <3>3 DEF Before
    <3>5. ASSUME NEW q \in Position, ~Before(At(g), q) PROVE ~Before(At(h), q)
      BY <2>2, <3>2, <3>3, <3>5 DEF Before, At, Position
    <3> QED
      BY <3>2, <3>4, <3>5
  <2>3. CASE /\ g.initialized /\ p.incarnation <= g.incarnation /\ p.epoch <= g.epoch
             /\ p.sequence >= g.last_sequence
    <3>1. h = [g EXCEPT !.last_sequence = p.sequence, !.last_content = content]
      BY <1>1, <2>3 DEF Apply, GuardState, Position
    <3>2. h = [initialized |-> TRUE, incarnation |-> g.incarnation,
               epoch |-> g.epoch, last_sequence |-> p.sequence, last_content |-> content]
      BY <2>3, <3>1 DEF GuardState
    <3> QED
      BY <1>1, <2>3, <3>2 DEF GuardState, Position, Before, At
  <2>4. CASE /\ g.initialized /\ p.incarnation <= g.incarnation /\ p.epoch <= g.epoch
             /\ p.sequence < g.last_sequence
    <3>1. h = g
      BY <1>1, <2>4 DEF Apply, GuardState, Position
    <3> QED
      BY <1>1, <2>4, <3>1 DEF GuardState, Position, Before, At
  <2> QED
    BY <1>1, <2>1, <2>2, <2>3, <2>4 DEF GuardState, Position
<1> HIDE DEF h
<1>3. \A c \in Batches : c.position \in Position
  BY BatchFacts
<1> QED
  BY <1>2, <1>3 DEF Covers, p, h

(* What a guard covers it does not accept. *)
LEMMA CoveredNotAccepted ==
  ASSUME NEW g \in GuardState, NEW b \in Batches, NEW content, Covers(g, b)
  PROVE  Evaluate(g, b.position, content, FALSE) # "accept"
<1>1. b.position \in Position
  BY BatchFacts
<1> QED
  BY <1>1 DEF Covers, Evaluate, GuardState, Position, Before, At

----------------------------------------------------------------------------
(* Windows. *)

(* A window keeps holding batches. *)
LEMMA AddedHolds ==
  ASSUME NEW window \in Seq(Batches), NEW b \in Batches
  PROVE  Added(window, b) \in Seq(Batches)
<1>1. Append(window, b) \in Seq(Batches) /\ Len(Append(window, b)) = Len(window) + 1
  OBVIOUS
<1>2. Append(window, b) # <<>>
  BY <1>1, EmptySeq
<1>3. Tail(Append(window, b)) \in Seq(Batches)
  BY <1>1, <1>2
<1> QED
  BY <1>1, <1>3 DEF Added

(* The samples that are saved are those of the windows.                      *)
LEMMA SamplesHold ==
  ASSUME windows \in [Ordinals -> Seq(Batches)]
  PROVE  /\ Samples \in Seq(Batches)
         /\ Range(Samples) = UNION {Range(windows[o]) : o \in Ordinals}
<1> DEFINE first == <<>>
           upTo[o \in 0..MaxOrdinal] == IF o = 0 THEN first ELSE upTo[o - 1] \o windows[o]
           step == [o \in 1..MaxOrdinal |-> [s \in Seq(Batches) |-> s \o windows[o]]]
<1>1. MaxOrdinal \in Nat /\ first \in Seq(Batches)
  BY EmptySeq, RestartAssumption DEF RestartAssumption
<1> HIDE DEF first
<1>2. \A s \in Seq(Batches), o \in 1..MaxOrdinal : s \o windows[o] \in Seq(Batches)
  BY DEF Ordinals
<1>3. step \in [1..MaxOrdinal -> [Seq(Batches) -> Seq(Batches)]]
  BY <1>2
<1>4. \E f : f = [o \in 0..MaxOrdinal |-> IF o = 0 THEN first ELSE f[o - 1] \o windows[o]]
  <2> DEFINE X == Seq(Batches)
  <2>1. first \in X /\ step \in StepMaps(X, MaxOrdinal)
    BY <1>1, <1>3 DEF StepMaps
  <2> HIDE DEF step, X
  <2>2. PICK f \in [0..MaxOrdinal -> X] :
          f[0] = first /\ \A o \in 1..MaxOrdinal : f[o] = step[o][f[o - 1]]
    <3>1. Runs(X, first, MaxOrdinal, step) # {}
      BY <1>1, <2>1, RunExists
    <3> QED
      BY <3>1 DEF Runs
  <2>3. ASSUME NEW o \in 1..MaxOrdinal PROVE step[o][f[o - 1]] = f[o - 1] \o windows[o]
    <3>1. f[o - 1] \in X
      BY <1>1
    <3> QED
      BY <3>1 DEF step, X
  <2>4. \A o \in 0..MaxOrdinal : o # 0 => o \in 1..MaxOrdinal
    BY <1>1
  <2>5. \A o \in 0..MaxOrdinal : f[o] = IF o = 0 THEN first ELSE f[o - 1] \o windows[o]
    BY <2>2, <2>3, <2>4
  <2>6. f = [o \in 0..MaxOrdinal |-> IF o = 0 THEN first ELSE f[o - 1] \o windows[o]]
    BY <2>5
  <2> QED
    BY <2>6
<1>5. upTo = [o \in 0..MaxOrdinal |-> IF o = 0 THEN first ELSE upTo[o - 1] \o windows[o]]
  BY <1>4
<1> HIDE DEF upTo
<1> DEFINE From(i) == UNION {Range(windows[o]) : o \in 1..i}
           T == {i \in 0..MaxOrdinal : upTo[i] \in Seq(Batches) /\ Range(upTo[i]) = From(i)}
<1>6. 0 \in T
  <2>1. upTo[0] = first /\ 0 \in 0..MaxOrdinal
    BY <1>1, <1>5
  <2>2. Range(first) = {}
    <3>1. \A s : s = <<>> => Range(s) = {}
      BY DEF Range
    <3> QED
      BY <3>1 DEF first
  <2>3. From(0) = {}
    <3>1. 1..0 = {}
      OBVIOUS
    <3> QED
      BY <3>1
  <2> HIDE DEF From
  <2> QED
    BY <1>1, <2>1, <2>2, <2>3
<1>7. ASSUME NEW i \in 1..MaxOrdinal, i - 1 \in T PROVE i \in T
  <2>0. i \in 0..MaxOrdinal /\ i # 0
    BY <1>1
  <2>1. /\ i \in 0..MaxOrdinal /\ upTo[i] = upTo[i - 1] \o windows[i]
        /\ upTo[i - 1] \in Seq(Batches) /\ Range(upTo[i - 1]) = From(i - 1)
    BY <1>5, <1>7, <2>0
  <2>2. upTo[i - 1] \o windows[i] \in Seq(Batches) /\ windows[i] \in Seq(Batches)
    BY <1>2, <2>1 DEF Ordinals
  <2>3. Range(upTo[i]) = From(i - 1) \cup Range(windows[i])
    BY <2>1, <2>2, RangeConcatenation
  <2>4. From(i) = From(i - 1) \cup Range(windows[i])
    <3>1. \A o : o \in 1..i <=> o \in 1..(i - 1) \/ o = i
      BY <1>1
    <3> QED
      BY <3>1
  <2> HIDE DEF From
  <2> QED
    BY <2>1, <2>2, <2>3, <2>4
<1>8. 0..MaxOrdinal \subseteq T
  <2> HIDE DEF T
  <2> QED
    BY <1>1, <1>6, <1>7, AllAlong
<1>9. upTo[MaxOrdinal] \in Seq(Batches) /\ Range(upTo[MaxOrdinal]) = From(MaxOrdinal)
  <2>1. MaxOrdinal \in T
    <3> HIDE DEF T
    <3> QED
      BY <1>1, <1>8
  <2> HIDE DEF From
  <2> QED
    BY <2>1
<1> QED
  BY <1>9 DEF Samples, upTo, first, Ordinals

(* What a restore rebuilds, sample by sample.                                *)
States == [windows : [Ordinals -> Seq(Batches)], guard : GuardState]

LEMMA ReaddedIs ==
  ASSUME NEW s \in States, NEW b \in Batches
  PROVE  /\ Readded(s, b) \in States
         /\ Covers(Readded(s, b).guard, b)
         /\ \A c \in Batches : Covers(s.guard, c) => Covers(Readded(s, b).guard, c)
<1>1. /\ s.windows \in [Ordinals -> Seq(Batches)] /\ s.guard \in GuardState
      /\ b.ordinal \in Ordinals /\ <<"sample", b>> \in Contents
  BY BatchFacts DEF States
<1>2. Added(s.windows[b.ordinal], b) \in Seq(Batches)
  BY <1>1, AddedHolds
<1>3. [s.windows EXCEPT ![b.ordinal] = Added(@, b)] \in [Ordinals -> Seq(Batches)]
  BY <1>1, <1>2
<1>4. Readded(s, b).guard = Apply(s.guard, b.position, <<"sample", b>>)
  BY DEF Readded
<1>5. /\ Apply(s.guard, b.position, <<"sample", b>>) \in GuardState
      /\ Covers(Apply(s.guard, b.position, <<"sample", b>>), b)
      /\ \A c \in Batches : Covers(s.guard, c) =>
           Covers(Apply(s.guard, b.position, <<"sample", b>>), c)
  BY <1>1, ApplyCovers
<1> QED
  BY <1>3, <1>4, <1>5 DEF Readded, States

LEMMA RebuiltRun ==
  ASSUME RestartTypes, NEW n \in Nat, NEW q \in [1..n -> Batches]
  PROVE  \E at \in [0..n -> States] :
           /\ at[0] = [windows |-> windows, guard |-> guard]
           /\ \A i \in 1..n : at[i] = Readded(at[i - 1], q[i])
           /\ Rebuilt(q) = at[n]
<1> DEFINE X == States
           first == [windows |-> windows, guard |-> guard]
           at[i \in 0..Len(q)] == IF i = 0 THEN first ELSE Readded(at[i - 1], q[i])
           step == [i \in 1..n |-> [s \in X |-> Readded(s, q[i])]]
<1>1. Len(q) = n
  <2>1. q \in Seq(Batches)
    BY SeqDef
  <2>2. Len(q) \in Nat /\ 1..Len(q) = 1..n
    BY <2>1, LenProperties
  <2> QED
    BY <2>2
<1>2. \A i \in 1..n : \A s \in X : Readded(s, q[i]) \in X
  BY ReaddedIs
<1>3. first \in X
  BY DEF RestartTypes, States
<1> HIDE DEF X, first
<1>4. \E f : f = [i \in 0..n |-> IF i = 0 THEN first ELSE Readded(f[i - 1], q[i])]
  <2>1. step \in StepMaps(X, n)
    BY <1>2 DEF StepMaps
  <2> HIDE DEF step
  <2>2. PICK f \in [0..n -> X] : f[0] = first /\ \A i \in 1..n : f[i] = step[i][f[i - 1]]
    <3>1. Runs(X, first, n, step) # {}
      BY <1>3, <2>1, RunExists
    <3> QED
      BY <3>1 DEF Runs
  <2>3. ASSUME NEW i \in 1..n PROVE step[i][f[i - 1]] = Readded(f[i - 1], q[i])
    <3>1. f[i - 1] \in X
      OBVIOUS
    <3> QED
      BY <3>1 DEF step
  <2>4. \A i \in 0..n : i # 0 => i \in 1..n
    OBVIOUS
  <2>5. \A i \in 0..n : f[i] = IF i = 0 THEN first ELSE Readded(f[i - 1], q[i])
    BY <2>2, <2>3, <2>4
  <2>6. f = [i \in 0..n |-> IF i = 0 THEN first ELSE Readded(f[i - 1], q[i])]
    BY <2>5
  <2> QED
    BY <2>6
<1>5. at = [i \in 0..n |-> IF i = 0 THEN first ELSE Readded(at[i - 1], q[i])]
  BY <1>1, <1>4
<1>6. Rebuilt(q) = at[n]
  BY <1>1 DEF Rebuilt, first
<1> HIDE DEF at
<1>7. at[0] = first /\ \A i \in 1..n : at[i] = Readded(at[i - 1], q[i])
  <2>1. \A i \in 1..n : i \in 0..n /\ i # 0
    OBVIOUS
  <2> QED
    BY <1>5, <2>1
<1> DEFINE T == {i \in 0..n : at[i] \in X}
<1>8. 0 \in T
  BY <1>3, <1>7
<1>9. ASSUME NEW i \in 1..n, i - 1 \in T PROVE i \in T
  <2>1. i \in 0..n /\ at[i - 1] \in X
    BY <1>9
  <2> QED
    BY <1>2, <1>7, <2>1
<1>10. 0..n \subseteq T
  <2> HIDE DEF T
  <2> QED
    BY <1>8, <1>9, AllAlong
<1>11. at \in [0..n -> X]
  <2>1. \A i \in 0..n : at[i] \in X
    BY <1>10
  <2>2. at = [i \in 0..n |-> at[i]]
    BY <1>5
  <2> HIDE DEF T
  <2> QED
    BY <2>1, <2>2
<1> QED
  BY <1>6, <1>7, <1>11 DEF X, first

(* Windows of batches, and a guard that covers every sample, in whatever     *)
(* order they come.                                                          *)
LEMMA RebuiltCovers ==
  ASSUME RestartTypes, NEW n \in Nat, NEW q \in [1..n -> Batches]
  PROVE  /\ Rebuilt(q).windows \in [Ordinals -> Seq(Batches)]
         /\ Rebuilt(q).guard \in GuardState
         /\ \A i \in 1..n : Covers(Rebuilt(q).guard, q[i])
<1>1. PICK at \in [0..n -> States] :
        /\ at[0] = [windows |-> windows, guard |-> guard]
        /\ \A i \in 1..n : at[i] = Readded(at[i - 1], q[i])
        /\ Rebuilt(q) = at[n]
  BY RebuiltRun
<1> DEFINE T == {i \in 0..n : \A j \in 1..i : Covers(at[i].guard, q[j])}
<1>2. 0 \in T
  <2>1. 1..0 = {}
    OBVIOUS
  <2> QED
    BY <2>1
<1>3. ASSUME NEW i \in 1..n, i - 1 \in T PROVE i \in T
  <2>1. i \in 0..n /\ i - 1 \in 0..n /\ q[i] \in Batches
    OBVIOUS
  <2>2. /\ at[i] = Readded(at[i - 1], q[i]) /\ at[i - 1] \in States
        /\ \A j \in 1..(i - 1) : Covers(at[i - 1].guard, q[j])
    BY <1>1, <1>3, <2>1
  <2>3. /\ Covers(at[i].guard, q[i])
        /\ \A c \in Batches : Covers(at[i - 1].guard, c) => Covers(at[i].guard, c)
    BY <2>1, <2>2, ReaddedIs
  <2>4. \A j \in 1..i : q[j] \in Batches /\ (j = i \/ j \in 1..(i - 1))
    OBVIOUS
  <2> QED
    BY <2>1, <2>2, <2>3, <2>4
<1>4. n \in T
  <2> HIDE DEF T
  <2>1. 0..n \subseteq T
    BY <1>2, <1>3, AllAlong
  <2> QED
    BY <2>1
<1>5. at[n] \in States
  OBVIOUS
<1> QED
  BY <1>1, <1>4, <1>5 DEF States

----------------------------------------------------------------------------
(* Saving and restoring. *)

(* What may be saved of what the engine holds.                               *)
Savable(records) ==
  /\ records.sample \in Seq(Batches) /\ records.guard \in Seq(GuardState)
  /\ records.guard # <<>> => \A b \in accepted : Covers(records.guard[1], b)

(* The snapshot may be, and whatever of it is written.                       *)
LEMMA SnapshotSavable == RestartInv => Savable(Snapshot)
<1> SUFFICES ASSUME RestartInv PROVE Savable(Snapshot)
  OBVIOUS
<1>1. /\ Snapshot.sample = Samples
      /\ Snapshot.guard = IF guard.initialized THEN <<guard>> ELSE <<>>
  BY DEF Snapshot
<1>2. Samples \in Seq(Batches)
  BY SamplesHold DEF RestartInv, RestartTypes
<1>3. guard \in GuardState /\ \A b \in accepted : Covers(guard, b)
  BY DEF RestartInv, RestartTypes, Fenced
<1>4. <<guard>> \in Seq(GuardState) /\ <<guard>>[1] = guard
  BY <1>3
<1>5. CASE guard.initialized
  BY <1>1, <1>2, <1>3, <1>4, <1>5 DEF Savable
<1>6. CASE ~guard.initialized
  BY <1>1, <1>2, <1>6, EmptySeq DEF Savable
<1> QED
  BY <1>5, <1>6

(* A prefix of what may be saved may be saved.                               *)
LEMMA WrittenSavable ==
  ASSUME RestartInv, NEW kind \in DOMAIN Place, NEW n \in 0..Len(Snapshot[kind])
  PROVE  Savable(Written(kind, n))
<1>0. Savable(Snapshot)
  BY SnapshotSavable
<1>1. /\ Written(kind, n).sample \in
           {Snapshot.sample, <<>>} \cup {SubSeq(Snapshot.sample, 1, m) : m \in 0..Len(Snapshot.sample)}
      /\ Written(kind, n).guard \in
           {Snapshot.guard, <<>>} \cup {SubSeq(Snapshot.guard, 1, m) : m \in 0..Len(Snapshot.guard)}
  BY DEF Written, Place
<1>2. ASSUME NEW Y, NEW s \in Seq(Y),
             NEW t \in {s, <<>>} \cup {SubSeq(s, 1, m) : m \in 0..Len(s)}
      PROVE  t \in Seq(Y) /\ (t # <<>> => s # <<>> /\ t[1] = s[1])
  <2>1. CASE t \in {s, <<>>}
    BY <2>1, EmptySeq
  <2>2. CASE \E m \in 0..Len(s) : t = SubSeq(s, 1, m)
    <3>1. PICK m \in 0..Len(s) : t = SubSeq(s, 1, m)
      BY <2>2
    <3>2. t \in Seq(Y) /\ Len(t) = m /\ \A i \in 1..m : t[i] = s[i]
      BY <3>1
    <3>3. ASSUME t # <<>> PROVE s # <<>> /\ t[1] = s[1]
      <4>1. m # 0 /\ 1 \in 1..m /\ Len(s) # 0
        BY <3>2, <3>3, EmptySeq
      <4> QED
        BY <3>2, <4>1, EmptySeq
    <3> QED
      BY <3>2, <3>3
  <2> QED
    BY <2>1, <2>2
<1>3. /\ Written(kind, n).sample \in Seq(Batches)
  BY <1>0, <1>1, <1>2 DEF Savable
<1>4. /\ Written(kind, n).guard \in Seq(GuardState)
      /\ Written(kind, n).guard # <<>> =>
           Snapshot.guard # <<>> /\ Written(kind, n).guard[1] = Snapshot.guard[1]
  BY <1>0, <1>1, <1>2 DEF Savable
<1> QED
  BY <1>0, <1>3, <1>4 DEF Savable

(* A guard nothing has been applied to, and windows without samples.         *)
LEMMA BlankTyped ==
  NoWindows \in [Ordinals -> Seq(Batches)] /\ NewGuard \in GuardState
<1>1. <<>> \in Seq(Batches)
  BY EmptySeq
<1> QED
  BY <1>1 DEF NoWindows, NewGuard, GuardState

(* The invariant holds of a store that is written from the current state,    *)
(* whatever of it is there.                                                  *)
LEMMA StoreWritten ==
  ASSUME NEW records, Savable(records), NEW sealed, NEW torn,
         store' = [records |-> records, sealed |-> sealed, torn |-> torn],
         covered' = accepted
  PROVE  StoreFenced'
BY DEF Savable, StoreFenced

----------------------------------------------------------------------------
(* The steps. *)

(* An engine that has just started has accepted and loaded nothing.          *)
LEMMA InitRestartInv == Init => RestartInv
<1> SUFFICES ASSUME Init PROVE RestartInv
  OBVIOUS
<1>1. RestartTypes
  BY BlankTyped DEF Init, RestartTypes
<1> QED
  BY <1>1 DEF Init, RestartInv, Fenced, StoreFenced, LoadedWithheld

(* A batch that is accepted moves the guard; an archival one does not.       *)
LEMMA IngestStep ==
  ASSUME RestartInv, NEW b \in Batches, NEW historical \in BOOLEAN, Ingest(b, historical)
  PROVE  RestartInv'
<1> USE DEF RestartInv
<1>1. windows' \in [Ordinals -> Seq(Batches)]
  <2>1. b.ordinal \in Ordinals /\ windows \in [Ordinals -> Seq(Batches)]
    BY BatchFacts DEF RestartTypes
  <2>2. Added(windows[b.ordinal], b) \in Seq(Batches)
    BY <2>1, AddedHolds
  <2>3. windows' = [windows EXCEPT ![b.ordinal] = Added(@, b)]
    BY DEF Ingest
  <2> QED
    BY <2>1, <2>2, <2>3
<1>2. UNCHANGED <<restored, loaded, store, covered>>
  BY DEF Ingest, saveVars
<1>3. guard' \in GuardState /\ accepted' \subseteq Batches /\ Fenced'
  <2>1. CASE accepted' = accepted \cup {b} /\ guard' = Apply(guard, b.position, <<"batch", b>>)
    <3>1. <<"batch", b>> \in Contents /\ guard \in GuardState
      BY BatchFacts DEF RestartTypes
    <3>2. /\ Apply(guard, b.position, <<"batch", b>>) \in GuardState
          /\ Covers(Apply(guard, b.position, <<"batch", b>>), b)
          /\ \A c \in Batches : Covers(guard, c) =>
               Covers(Apply(guard, b.position, <<"batch", b>>), c)
      BY <3>1, ApplyCovers
    <3> QED
      BY <2>1, <3>2 DEF RestartTypes, Fenced
  <2>2. CASE UNCHANGED <<guard, accepted>>
    BY <2>2 DEF RestartTypes, Fenced, Covers, At
  <2> QED
    BY <2>1, <2>2 DEF Ingest
<1>4. StoreFenced' /\ LoadedWithheld'
  BY <1>2 DEF StoreFenced, LoadedWithheld
<1> QED
  BY <1>1, <1>2, <1>3, <1>4 DEF RestartTypes

(* A process that dies forgets, and what it left in the store stands.        *)
LEMMA BlankStep ==
  ASSUME Blank, StoreFenced', covered' \subseteq Batches
  PROVE  RestartInv'
<1>1. RestartTypes'
  BY BlankTyped DEF Blank, RestartTypes
<1> QED
  BY <1>1 DEF Blank, RestartInv, Fenced, LoadedWithheld

(* A restore: the guard is the rebuilt one, which covers every sample that   *)
(* came back, or the one of the record, which covers every batch accepted    *)
(* when it was saved.  Neither need cover what the other does.               *)
LEMMA RestoreStep ==
  ASSUME RestartInv, NEW repair \in BOOLEAN, NEW admit \in BOOLEAN, Restore(repair, admit)
  PROVE  RestartInv'
<1> USE DEF RestartInv
<1>1. /\ store.records.sample \in Seq(Batches) /\ store.records.guard \in Seq(GuardState)
      /\ store.records.guard # <<>> => \A b \in covered : Covers(store.records.guard[1], b)
  BY DEF Restore, Readable, StoreFenced
<1>2. /\ loaded' = Range(store.records.sample)
      /\ accepted' = covered \cap loaded'
      /\ restored' = restored \cup (IF Withheld(admit) THEN loaded' ELSE {})
      /\ UNCHANGED <<store, covered>>
  BY DEF Restore, saveVars
<1>3. loaded' \subseteq Batches /\ Cardinality(loaded') \in Nat
  BY <1>1, <1>2, RangeFinite
<1>4. PICK q \in Grouped(loaded') :
        windows' = Rebuilt(q).windows /\ guard' = RestoredGuard(Rebuilt(q).guard)
  BY DEF Restore
<1>5. q \in [1..Cardinality(loaded') -> Batches] /\ Range(q) = loaded'
  BY <1>3 DEF Grouped
<1>6. /\ Rebuilt(q).windows \in [Ordinals -> Seq(Batches)]
      /\ Rebuilt(q).guard \in GuardState
      /\ \A i \in 1..Cardinality(loaded') : Covers(Rebuilt(q).guard, q[i])
  <2> DEFINE n == Cardinality(loaded')
  <2>1. n \in Nat /\ q \in [1..n -> Batches] /\ RestartTypes
    BY <1>3, <1>5
  <2> HIDE DEF n
  <2>2. /\ Rebuilt(q).windows \in [Ordinals -> Seq(Batches)]
        /\ Rebuilt(q).guard \in GuardState
        /\ \A i \in 1..n : Covers(Rebuilt(q).guard, q[i])
    BY <2>1, RebuiltCovers
  <2> QED
    BY <2>2 DEF n
<1>7. \A b \in loaded' : Covers(Rebuilt(q).guard, b)
  BY <1>5, <1>6 DEF Range
<1>8. guard' \in GuardState /\ \A b \in accepted' : Covers(guard', b)
  <2>1. CASE guard' = Rebuilt(q).guard
    BY <1>2, <1>6, <1>7, <2>1
  <2>2. CASE store.records.guard # <<>> /\ guard' = Head(store.records.guard)
    <3>1. Head(store.records.guard) = store.records.guard[1]
      BY <1>1, <2>2
    <3>2. store.records.guard[1] \in GuardState
      BY <1>1, <2>2, EmptySeq
    <3> QED
      BY <1>1, <1>2, <2>2, <3>1, <3>2
  <2> QED
    BY <1>4, <2>1, <2>2 DEF RestoredGuard
<1>9. RestartTypes'
  BY <1>2, <1>3, <1>4, <1>6, <1>8 DEF RestartTypes
<1>10. Fenced'
  BY <1>8 DEF Fenced, Covers, At
<1>11. StoreFenced'
  BY <1>2 DEF StoreFenced
<1>12. LoadedWithheld'
  BY <1>2 DEF LoadedWithheld, Withheld
<1> QED
  BY <1>9, <1>10, <1>11, <1>12

(* Nothing the invariant speaks of changes. *)
LEMMA QuietStep ==
  ASSUME RestartInv, UNCHANGED <<windows, guard, restored, store, loaded, accepted, covered>>
  PROVE  RestartInv'
BY DEF RestartInv, RestartTypes, Fenced, Covers, At, StoreFenced, LoadedWithheld

(* The invariant of the fence, step by step.                                 *)
LEMMA RestartStep == RestartInv /\ [Next]_vars => RestartInv'
<1> SUFFICES ASSUME RestartInv, [Next]_vars PROVE RestartInv'
  OBVIOUS
<1>1. CASE Register
  BY <1>1, QuietStep DEF Register, saveVars
<1>2. CASE ChangeRoute
  BY <1>2, QuietStep DEF ChangeRoute, saveVars
<1>3. CASE \E b \in Batches, historical \in BOOLEAN : Ingest(b, historical)
  BY <1>3, IngestStep
<1>4. CASE \E o \in Ordinals : Summarize(o)
  BY <1>4, QuietStep DEF Summarize, saveVars
<1>5. CASE Save
  <2>1. StoreFenced'
    <3>1. store' = [records |-> Snapshot, sealed |-> TRUE, torn |-> FALSE]
      BY <1>5 DEF Save
    <3>2. covered' = accepted /\ Savable(Snapshot)
      BY <1>5, SnapshotSavable DEF Save, Remember
    <3> QED
      BY <3>1, <3>2, StoreWritten
  <2>2. UNCHANGED <<windows, guard, restored, loaded, accepted>> /\ covered' = accepted
    BY <1>5 DEF Save, engineVars, Remember
  <2> QED
    BY <2>1, <2>2 DEF RestartInv, RestartTypes, Fenced, Covers, At, LoadedWithheld
<1>6. CASE Die
  <2>1. StoreFenced' /\ covered' \subseteq Batches
    BY <1>6 DEF Die, saveVars, RestartInv, RestartTypes, StoreFenced, Covers, At
  <2> QED
    BY <1>6, <2>1, BlankStep DEF Die
<1>7. CASE DieSaving
  <2>0. PICK kind \in DOMAIN Place, torn \in BOOLEAN : \E n \in 0..Len(Snapshot[kind]) :
          store' = [records |-> Written(kind, n), sealed |-> FALSE, torn |-> torn]
    BY <1>7 DEF DieSaving
  <2>1. PICK n \in 0..Len(Snapshot[kind]) :
          store' = [records |-> Written(kind, n), sealed |-> FALSE, torn |-> torn]
    BY <2>0
  <2>2. Savable(Written(kind, n)) /\ covered' = accepted
    BY <1>7, WrittenSavable DEF DieSaving, Remember
  <2>3. StoreFenced'
    BY <2>1, <2>2, StoreWritten
  <2>4. covered' \subseteq Batches
    BY <2>2 DEF RestartInv, RestartTypes
  <2> QED
    BY <1>7, <2>3, <2>4, BlankStep DEF DieSaving
<1>8. CASE \E repair, admit \in BOOLEAN : Restore(repair, admit)
  BY <1>8, RestoreStep
<1>9. CASE UNCHANGED vars \/ \E repair \in BOOLEAN : RestoreStopped(repair)
  <2>1. UNCHANGED vars
    BY <1>9 DEF RestoreStopped
  <2> QED
    BY <2>1, QuietStep DEF vars, engineVars, saveVars
<1> QED
  BY <1>1, <1>2, <1>3, <1>4, <1>5, <1>6, <1>7, <1>8, <1>9 DEF Next

----------------------------------------------------------------------------
(* What comes back. *)

(* A window of a generation holds no more than it may, nothing twice, and    *)
(* nothing of another generation.                                            *)
KeptWindow(o) ==
  {w \in Seq(Batches) :
     /\ Len(w) <= Capacity
     /\ \A i, j \in DOMAIN w : w[i] = w[j] => i = j
     /\ \A i \in DOMAIN w : w[i].ordinal = o}

Kept(ws) == ws \in [Ordinals -> Seq(Batches)] /\ \A o \in Ordinals : ws[o] \in KeptWindow(o)

(* A kept window is a sequence of different batches of its generation.       *)
LEMMA KeptShape ==
  ASSUME NEW o, NEW w \in KeptWindow(o)
  PROVE  /\ w \in Seq(Batches) /\ Len(w) \in Nat /\ DOMAIN w = 1..Len(w)
         /\ Len(w) <= Capacity /\ Capacity \in Nat \ {0}
         /\ \A i \in 1..Len(w) : w[i] \in Batches /\ w[i].ordinal = o
         /\ \A i, j \in 1..Len(w) : w[i] = w[j] => i = j
<1>1. /\ w \in Seq(Batches) /\ Len(w) \in Nat /\ DOMAIN w = 1..Len(w)
      /\ \A i \in 1..Len(w) : w[i] \in Batches
  BY DEF KeptWindow
<1>2. Capacity \in Nat \ {0}
  BY RestartAssumption DEF RestartAssumption
<1> QED
  BY <1>1, <1>2 DEF KeptWindow

(* A window and one batch more that it does not hold.                        *)
LEMMA AppendKept ==
  ASSUME NEW o, NEW w \in KeptWindow(o), NEW b \in Batches, b.ordinal = o, b \notin Range(w)
  PROVE  /\ Append(w, b) \in Seq(Batches) /\ Len(Append(w, b)) = Len(w) + 1
         /\ DOMAIN Append(w, b) = 1..(Len(w) + 1)
         /\ \A i \in 1..(Len(w) + 1) : Append(w, b)[i] \in Batches /\ Append(w, b)[i].ordinal = o
         /\ \A i, j \in 1..(Len(w) + 1) : Append(w, b)[i] = Append(w, b)[j] => i = j
         /\ Range(Append(w, b)) = Range(w) \cup {b}
<1> DEFINE v == Append(w, b)
           n == Len(w)
<1>1. /\ w \in Seq(Batches) /\ n \in Nat /\ DOMAIN w = 1..n
      /\ \A i \in 1..n : w[i] \in Batches /\ w[i].ordinal = o
      /\ \A i, j \in 1..n : w[i] = w[j] => i = j
  BY KeptShape
<1>2. v \in Seq(Batches) /\ Len(v) = n + 1 /\ DOMAIN v = 1..(n + 1)
  BY <1>1
<1>3. \A i \in 1..(n + 1) : (i \in 1..n /\ v[i] = w[i]) \/ (i = n + 1 /\ v[i] = b)
  BY <1>1
<1>4. \A i \in 1..n : w[i] # b
  BY <1>1 DEF Range
<1>5. \A i \in 1..n : i \in 1..(n + 1) /\ v[i] = w[i]
  BY <1>1
<1>6. n + 1 \in 1..(n + 1) /\ v[n + 1] = b
  BY <1>1
<1> HIDE DEF v, n
<1>7. \A i \in 1..(n + 1) : v[i] \in Batches /\ v[i].ordinal = o
  BY <1>1, <1>3
<1>8. \A i, j \in 1..(n + 1) : v[i] = v[j] => i = j
  BY <1>1, <1>3, <1>4
<1>9. Range(v) = Range(w) \cup {b}
  BY <1>1, <1>2, <1>3, <1>5, <1>6 DEF Range
<1> QED
  BY <1>2, <1>7, <1>8, <1>9 DEF v, n

(* SampleWindow::add keeps a window what it is.                              *)
LEMMA AddedKept ==
  ASSUME NEW o, NEW w \in KeptWindow(o), NEW b \in Batches, b.ordinal = o
  PROVE  Added(w, b) \in KeptWindow(o)
<1>1. /\ w \in Seq(Batches) /\ Len(w) \in Nat /\ Len(w) <= Capacity /\ Capacity \in Nat \ {0}
  BY KeptShape
<1>2. CASE b \in Range(w)
  BY <1>2 DEF Added
<1>3. CASE b \notin Range(w)
  <2> DEFINE v == Append(w, b)
             n == Len(w) + 1
  <2>1. /\ v \in Seq(Batches) /\ Len(v) = n /\ DOMAIN v = 1..n
        /\ \A i \in 1..n : v[i] \in Batches /\ v[i].ordinal = o
        /\ \A i, j \in 1..n : v[i] = v[j] => i = j
    BY <1>3, AppendKept
  <2>2. n \in Nat \ {0} /\ n - 1 <= Capacity
    BY <1>1
  <2> HIDE DEF v, n
  <2>3. CASE n > Capacity
    <3>1. v # <<>>
      BY <2>1, <2>2, EmptySeq
    <3>2. /\ Tail(v) \in Seq(Batches) /\ Len(Tail(v)) = n - 1 /\ DOMAIN Tail(v) = 1..(n - 1)
          /\ \A i \in 1..(n - 1) : Tail(v)[i] = v[i + 1] /\ i + 1 \in 1..n
      BY <2>1, <2>2, <3>1
    <3>3. \A i, j \in 1..(n - 1) : Tail(v)[i] = Tail(v)[j] => i = j
      <4> SUFFICES ASSUME NEW i \in 1..(n - 1), NEW j \in 1..(n - 1), Tail(v)[i] = Tail(v)[j]
                   PROVE  i = j
        OBVIOUS
      <4>1. i + 1 = j + 1
        BY <2>1, <3>2
      <4> QED
        BY <4>1
    <3>4. Tail(v) \in KeptWindow(o)
      <4> DEFINE u == Tail(v)
      <4>1. u \in Seq(Batches) /\ Len(u) = n - 1 /\ DOMAIN u = 1..(n - 1)
        BY <3>2
      <4>2. \A i \in 1..(n - 1) : u[i].ordinal = o
        BY <2>1, <3>2
      <4>3. \A i, j \in 1..(n - 1) : u[i] = u[j] => i = j
        BY <3>3
      <4> HIDE DEF u
      <4>4. u \in KeptWindow(o)
        BY <2>2, <4>1, <4>2, <4>3 DEF KeptWindow
      <4> QED
        BY <4>4 DEF u
    <3>5. Added(w, b) = Tail(v)
      BY <1>3, <2>1, <2>3 DEF Added, v
    <3> QED
      BY <3>4, <3>5
  <2>4. CASE n <= Capacity
    <3>1. Added(w, b) = v
      BY <1>1, <1>3, <2>1, <2>2, <2>4 DEF Added, v
    <3>2. v \in KeptWindow(o)
      BY <2>1, <2>4 DEF KeptWindow
    <3> QED
      BY <3>1, <3>2
  <2> QED
    BY <1>1, <2>2, <2>3, <2>4
<1> QED
  BY <1>2, <1>3

(* A batch that was in the window with all that are there now pushes nothing *)
(* out when it comes back: they had room together.                           *)
LEMMA AddedComesBack ==
  ASSUME NEW o, NEW w \in KeptWindow(o), NEW whole \in KeptWindow(o),
         NEW b \in Batches, b.ordinal = o, Range(w) \cup {b} \subseteq Range(whole)
  PROVE  Range(Added(w, b)) = Range(w) \cup {b}
<1>1. CASE b \in Range(w)
  <2>1. Added(w, b) = w
    BY <1>1 DEF Added
  <2> QED
    BY <1>1, <2>1
<1>2. CASE b \notin Range(w)
  <2> DEFINE v == Append(w, b)
             n == Len(w) + 1
             m == Len(whole)
  <2>1. /\ v \in Seq(Batches) /\ Len(v) = n /\ DOMAIN v = 1..n
        /\ \A i, j \in 1..n : v[i] = v[j] => i = j
        /\ Range(v) = Range(w) \cup {b}
    BY <1>2, AppendKept
  <2>2. n \in Nat \ {0} /\ m \in Nat /\ DOMAIN whole = 1..m /\ m <= Capacity
        /\ Capacity \in Nat \ {0} /\ whole \in Seq(Batches)
    BY KeptShape
  <2> HIDE DEF v, n, m
  <2>3. IsFiniteSet(Range(whole)) /\ Cardinality(Range(whole)) \in Nat
        /\ Cardinality(Range(whole)) <= m
    <3>1. whole \in Surjection(1..m, Range(whole))
      BY <2>2 DEF Surjection, Range
    <3>2. IsFiniteSet(1..m) /\ Cardinality(1..m) = m
      BY <2>2, FS_Interval
    <3> QED
      BY <2>2, <3>1, <3>2, FS_Surjection, FS_CardinalityType
  <2>4. n <= Cardinality(Range(whole))
    <3>1. \A i \in 1..n : v[i] \in Range(whole)
      BY <2>1 DEF Range
    <3>2. v \in Injection(1..n, Range(whole))
      <4>1. v = [i \in 1..n |-> v[i]]
        BY <2>1
      <4>2. v \in [1..n -> Range(whole)]
        BY <3>1, <4>1
      <4> QED
        BY <2>1, <4>2 DEF Injection, IsInjective
    <3>3. Cardinality(1..n) = n
      BY <2>2, FS_Interval
    <3> QED
      BY <2>3, <3>2, <3>3, FS_Injection
  <2>5. ~(n > Capacity)
    BY <2>2, <2>3, <2>4
  <2>6. Added(w, b) = v
    BY <1>2, <2>1, <2>5 DEF Added, v
  <2> QED
    BY <2>1, <2>6
<1> QED
  BY <1>1, <1>2

(* Nothing is kept in empty windows. *)
LEMMA NothingKept == Kept(NoWindows)
<1>1. <<>> \in Seq(Batches) /\ Len(<<>>) = 0 /\ 0 <= Capacity
  BY EmptySeq, RestartAssumption DEF RestartAssumption
<1>2. \A o \in Ordinals : <<>> \in KeptWindow(o)
  BY <1>1 DEF KeptWindow
<1> QED
  BY <1>1, <1>2 DEF Kept, NoWindows

(* What a restore rebuilds from nothing: the samples of each generation, if  *)
(* they were in the windows that were saved.                                 *)
LEMMA RebuiltHolds ==
  ASSUME RestartTypes, windows = NoWindows, NEW n \in Nat, NEW q \in [1..n -> Batches],
         NEW whole, Kept(whole), \A i \in 1..n : q[i] \in Range(whole[q[i].ordinal])
  PROVE  /\ Kept(Rebuilt(q).windows)
         /\ \A o \in Ordinals : Range(Rebuilt(q).windows[o]) = {b \in Range(q) : b.ordinal = o}
<1> DEFINE Got(i, o) == {b \in {q[j] : j \in 1..i} : b.ordinal = o}
           Holds(ws, i) == Kept(ws) /\ \A o \in Ordinals : Range(ws[o]) = Got(i, o)
<1>1. PICK at \in [0..n -> States] :
        /\ at[0] = [windows |-> windows, guard |-> guard]
        /\ \A i \in 1..n : at[i] = Readded(at[i - 1], q[i])
        /\ Rebuilt(q) = at[n]
  BY RebuiltRun
<1> DEFINE T == {i \in 0..n : Holds(at[i].windows, i)}
<1>2. 0 \in T
  <2>1. at[0].windows = NoWindows /\ 0 \in 0..n
    BY <1>1
  <2>2. Kept(NoWindows)
    BY NothingKept
  <2>3. \A o \in Ordinals : Range(NoWindows[o]) = {}
    BY DEF NoWindows, Range
  <2>4. \A o \in Ordinals : Got(0, o) = {}
    <3>1. 1..0 = {}
      OBVIOUS
    <3> QED
      BY <3>1
  <2> HIDE DEF Got
  <2> QED
    BY <2>1, <2>2, <2>3, <2>4
<1>3. ASSUME NEW i \in 1..n, i - 1 \in T PROVE i \in T
  <2> DEFINE ws == at[i - 1].windows
             b == q[i]
             p == q[i].ordinal
  <2>1. Kept(ws) /\ \A o \in Ordinals : Range(ws[o]) = Got(i - 1, o)
    BY <1>3
  <2>2. b \in Batches /\ p \in Ordinals /\ b.ordinal = p /\ b \in Range(whole[p])
    BY BatchFacts
  <2>3. at[i].windows = [ws EXCEPT ![p] = Added(@, b)]
    <3>1. at[i] = Readded(at[i - 1], q[i])
      BY <1>1
    <3>2. \A s, c : Readded(s, c).windows = [s.windows EXCEPT ![c.ordinal] = Added(@, c)]
      BY DEF Readded
    <3> QED
      BY <3>1, <3>2
  <2> HIDE DEF ws
  <2>4. ws[p] \in KeptWindow(p) /\ whole[p] \in KeptWindow(p)
    BY <2>1, <2>2 DEF Kept
  <2>5. Added(ws[p], b) \in KeptWindow(p)
    BY <2>2, <2>4, AddedKept
  <2>6. Range(Added(ws[p], b)) = Range(ws[p]) \cup {b}
    <3>1. Range(ws[p]) \subseteq Range(whole[p])
      <4> SUFFICES ASSUME NEW x \in Got(i - 1, p) PROVE x \in Range(whole[p])
        BY <2>1, <2>2
      <4>1. PICK j \in 1..(i - 1) : x = q[j] /\ q[j].ordinal = p
        OBVIOUS
      <4>2. j \in 1..n
        OBVIOUS
      <4> QED
        BY <4>1, <4>2
    <3> HIDE DEF b, p, Got
    <3> QED
      BY <2>2, <2>4, <3>1, AddedComesBack
  <2>7. \A o \in Ordinals : Got(i, o) = Got(i - 1, o) \cup (IF o = p THEN {b} ELSE {})
    <3>1. \A j : j \in 1..i <=> j \in 1..(i - 1) \/ j = i
      OBVIOUS
    <3>2. {q[j] : j \in 1..i} = {q[j] : j \in 1..(i - 1)} \cup {b}
      BY <3>1
    <3> QED
      BY <3>2
  <2> HIDE DEF b, p, Got
  <2>8. Kept(at[i].windows)
    <3>1. Added(ws[p], b) \in Seq(Batches)
      BY <2>5 DEF KeptWindow
    <3> QED
      BY <2>1, <2>2, <2>3, <2>5, <3>1 DEF Kept
  <2>9. ASSUME NEW o \in Ordinals PROVE Range(at[i].windows[o]) = Got(i, o)
    <3>1. CASE o = p
      <4>1. at[i].windows[o] = Added(ws[p], b)
        BY <2>1, <2>2, <2>3, <3>1 DEF Kept
      <4> QED
        BY <2>1, <2>2, <2>6, <2>7, <3>1, <4>1
    <3>2. CASE o # p
      <4>1. at[i].windows[o] = ws[o]
        BY <2>1, <2>3, <3>2 DEF Kept
      <4> QED
        BY <2>1, <2>7, <3>2, <4>1
    <3> QED
      BY <3>1, <3>2
  <2>10. i \in 0..n
    OBVIOUS
  <2> QED
    BY <2>8, <2>9, <2>10
<1>4. n \in T
  <2> HIDE DEF T
  <2>1. 0..n \subseteq T
    BY <1>2, <1>3, AllAlong
  <2> QED
    BY <2>1
<1>5. {q[j] : j \in 1..n} = Range(q)
  BY DEF Range
<1> QED
  BY <1>1, <1>4, <1>5

----------------------------------------------------------------------------
(* What is saved, and what of it is written. *)

(* An engine without a generation of the path holds nothing of it.           *)
EngineHeld ==
  /\ generations \in Seq(BOOLEAN) /\ Kept(windows) /\ LogHeld
  /\ forgotten \in Int /\ lives \in Nat
  /\ generations = <<>> => windows = NoWindows /\ open = {} /\ closed[S] = <<>>

AllOf(ws) == UNION {Range(ws[o]) : o \in Ordinals}

(* The records are some of what the engine held, the generations first.      *)
Beginning(records, held) ==
  /\ records.sample \in Seq(Batches) /\ Range(records.sample) \subseteq AllOf(held.windows)
  /\ records.generation \in Seq(BOOLEAN) /\ IsPrefix(records.generation, held.generations)
  /\ records.episode \in Seq(OpenEpisode \cup ClosedEpisode)
  /\ records.generation = <<>> => records.sample = <<>> /\ records.episode = <<>>

(* The records are all of it.                                                *)
Complete(records, held) ==
  /\ records.generation = held.generations
  /\ AllOf(held.windows) \subseteq Range(records.sample)
  /\ held.open \cup Range(held.closed) \subseteq Range(records.episode)

StoreHeld ==
  store # NoStore =>
    /\ Kept(image.windows)
    /\ image.open \subseteq OpenEpisode /\ image.closed \in Seq(ClosedEpisode)
    /\ Beginning(store.records, image)
    /\ store.sealed => Complete(store.records, image)

HeldInv == RestartInv /\ EngineHeld /\ StoreHeld

(* S is the one series there is.                                             *)
LEMMA OneSeries == S \in Series /\ IsFiniteSet(Series)
<1>1. IsFiniteSet(Series) /\ Cardinality(Series) = 1
  BY RestartAssumption DEF RestartAssumption
<1>2. \E s : s \in Series
  BY <1>1, FS_Singleton
<1> QED
  BY <1>1, <1>2 DEF S

(* Episodes that close, and the ones dropped for them, are counted.          *)
LEMMA CloseCounted ==
  ASSUME LogHeld, forgotten \in Int, NEW E \in SUBSET open, NEW t, NEW reason,
         Close(E, t, reason)
  PROVE  forgotten' \in Int
<1>1. ASSUME NEW lists PROVE Retained(lists) \in Nat
  <2> DEFINE All == Series \X (1..MaxEpisodes)
             K == {k \in All : k[2] \in DOMAIN lists[k[1]]}
  <2>1. IsFiniteSet(1..MaxEpisodes)
    BY FS_Interval, EpisodeAssumption DEF EpisodeAssumption
  <2>2. IsFiniteSet(All)
    BY <2>1, OneSeries, FS_Product
  <2>3. K \in SUBSET All
    OBVIOUS
  <2> HIDE DEF All
  <2>4. IsFiniteSet(K)
    BY <2>2, <2>3, FS_Subset
  <2>5. Cardinality(K) \in Nat
    BY <2>4, FS_CardinalityType
  <2> QED
    BY <2>5 DEF Retained, All
<1>2. Cardinality(E) \in Nat
  BY FS_Subset, FS_CardinalityType DEF LogHeld
<1>3. Retained(closed) \in Nat /\ Retained(closed') \in Nat
  BY <1>1
<1>4. forgotten' = forgotten + Retained(closed) + Cardinality(E) - Retained(closed')
  BY DEF Close
<1> QED
  BY <1>2, <1>3, <1>4

LEMMA ObserveCounted ==
  ASSUME LogHeld, forgotten \in Int, NEW s, NEW ordinal, NEW current, NEW level, NEW t,
         Observe(s, ordinal, current, level, t)
  PROVE  forgotten' \in Int
<1>1. OpenOf(s, ordinal) \in SUBSET open
  BY DEF OpenOf
<1>2. CASE ObserveClosedGeneration(s, ordinal, t)
  BY <1>1, <1>2, CloseCounted DEF ObserveClosedGeneration
<1>3. CASE ObserveBreach(s, ordinal, t)
  BY <1>3 DEF ObserveBreach
<1>4. CASE ObserveLoss(s, ordinal, t)
  BY <1>1, <1>4, CloseCounted DEF ObserveLoss
<1>5. CASE ObserveCalm(s, ordinal, t)
  <2> DEFINE R == {e \in OpenOf(s, ordinal) : e.recovery + 1 >= CloseWindows}
  <2>1. R \in SUBSET open
    BY <1>1
  <2>2. Close(R, t, "recovered") \/ UNCHANGED forgotten
    BY <1>5 DEF ObserveCalm
  <2> HIDE DEF R
  <2> QED
    BY <2>1, <2>2, CloseCounted
<1> QED
  BY <1>2, <1>3, <1>4, <1>5 DEF Observe

(* The beginnings of a sequence. *)
LEMMA BeginningOf ==
  ASSUME NEW Y, NEW s \in Seq(Y),
         NEW t \in {s, <<>>} \cup {SubSeq(s, 1, m) : m \in 0..Len(s)}
  PROVE  t \in Seq(Y) /\ Range(t) \subseteq Range(s) /\ IsPrefix(t, s)
<1>1. CASE t = s
  BY <1>1 DEF IsPrefix
<1>2. CASE \E m \in 0..Len(s) : t = SubSeq(s, 1, m)
  <2>1. PICK m \in 0..Len(s) : t = SubSeq(s, 1, m)
    BY <1>2
  <2>2. /\ t \in Seq(Y) /\ Len(t) = m /\ DOMAIN t = 1..m /\ DOMAIN s = 1..Len(s)
        /\ \A i \in 1..m : t[i] = s[i] /\ i \in 1..Len(s)
    BY <2>1
  <2>3. SubSeq(t, 1, m) = t
    BY <2>2
  <2>4. Range(t) \subseteq Range(s)
    BY <2>2 DEF Range
  <2>5. Len(t) <= Len(s) /\ SubSeq(t, 1, Len(t)) = SubSeq(s, 1, Len(t))
    <3>1. m <= Len(s)
      OBVIOUS
    <3>2. Len(t) = m
      BY <2>2
    <3>3. SubSeq(t, 1, m) = SubSeq(s, 1, m)
      BY <2>1, <2>3, Zenon
    <3> QED
      BY <3>1, <3>2, <3>3
  <2>6. IsPrefix(t, s)
    BY <2>5 DEF IsPrefix
  <2> QED
    BY <2>2, <2>4, <2>6
<1>3. CASE t = <<>>
  <2>1. 0 \in 0..Len(s) /\ SubSeq(s, 1, 0) = <<>>
    OBVIOUS
  <2> QED
    BY <1>2, <1>3, <2>1
<1> QED
  BY <1>1, <1>2, <1>3

Held == [generations |-> generations, windows |-> windows, guard |-> guard,
         closed |-> closed[S], open |-> open]

(* A snapshot is all the engine holds. *)
LEMMA SnapshotComplete ==
  ASSUME EngineHeld
  PROVE  Beginning(Snapshot, Held) /\ Complete(Snapshot, Held)
<1>1. /\ Held.generations = generations /\ Held.windows = windows
      /\ Held.closed = closed[S] /\ Held.open = open
  BY DEF Held
<1>2. /\ Snapshot.generation = generations /\ Snapshot.sample = Samples
      /\ Snapshot.episode = SetToSeq(open) \o closed[S]
  BY DEF Snapshot
<1>3. Samples \in Seq(Batches) /\ Range(Samples) = AllOf(windows)
  BY SamplesHold DEF EngineHeld, Kept, AllOf
<1>4. generations \in Seq(BOOLEAN) /\ IsPrefix(generations, generations)
  BY BeginningOf DEF EngineHeld
<1> DEFINE Y == OpenEpisode \cup ClosedEpisode
           a == SetToSeq(open)
           c == closed[S]
<1>5. a \in Seq(Y) /\ open \subseteq Range(a)
  <2>1. open \subseteq OpenEpisode /\ IsFiniteSet(open)
    BY DEF EngineHeld, LogHeld
  <2>2. a \in Seq(open) /\ open \subseteq Range(a)
    BY <2>1, Listed
  <2> HIDE DEF a
  <2> QED
    BY <2>1, <2>2, SeqMonotonic
<1>6. c \in Seq(Y)
  <2>1. c \in Seq(ClosedEpisode)
    BY OneSeries DEF EngineHeld, LogHeld, Chronicle
  <2> HIDE DEF c
  <2> QED
    BY <2>1, SeqMonotonic
<1> HIDE DEF Y
<1>7. a \o c \in Seq(Y) /\ Range(a \o c) = Range(a) \cup Range(c)
  <2> HIDE DEF a, c
  <2> QED
    BY <1>5, <1>6, RangeConcatenation
<1>8. generations = <<>> => Samples = <<>> /\ a \o c = <<>>
  <2> SUFFICES ASSUME generations = <<>> PROVE Samples = <<>> /\ a \o c = <<>>
    OBVIOUS
  <2>1. windows = NoWindows /\ open = {} /\ c = <<>>
    BY DEF EngineHeld
  <2>2. AllOf(windows) = {}
    BY <2>1 DEF AllOf, NoWindows, Range
  <2>3. \A s \in Seq(Batches) : Range(s) = {} => s = <<>>
    <3> SUFFICES ASSUME NEW s \in Seq(Batches), s # <<>> PROVE Range(s) # {}
      OBVIOUS
    <3>1. 1 \in DOMAIN s
      BY EmptySeq
    <3> QED
      BY <3>1 DEF Range
  <2>4. a = <<>>
    <3>1. a \in Seq({})
      BY <2>1, Listed, FS_EmptySet
    <3> HIDE DEF a
    <3> QED
      BY <3>1
  <2>5. <<>> \o <<>> = <<>>
    OBVIOUS
  <2>6. Samples = <<>>
    BY <1>3, <2>2, <2>3
  <2> HIDE DEF a, c
  <2> QED
    BY <2>1, <2>4, <2>5, <2>6
<1>9. Beginning(Snapshot, Held)
  BY <1>1, <1>2, <1>3, <1>4, <1>7, <1>8 DEF Beginning, Y
<1>10. Complete(Snapshot, Held)
  BY <1>1, <1>2, <1>3, <1>5, <1>7 DEF Complete
<1> QED
  BY <1>9, <1>10

(* Whatever of a snapshot is written is some of it.                          *)
LEMMA WrittenBegins ==
  ASSUME EngineHeld, NEW kind \in DOMAIN Place, NEW n \in 0..Len(Snapshot[kind])
  PROVE  Beginning(Written(kind, n), Held)
<1> DEFINE w == Written(kind, n)
           Parts(s) == {s, <<>>} \cup {SubSeq(s, 1, m) : m \in 0..Len(s)}
<1>1. Beginning(Snapshot, Held)
  BY SnapshotComplete
<1>2. /\ w.generation \in Parts(Snapshot.generation)
      /\ w.sample \in Parts(Snapshot.sample)
      /\ w.episode \in Parts(Snapshot.episode)
  BY DEF Written, Place
<1>3. w.generation = Snapshot.generation \/ (w.sample = <<>> /\ w.episode = <<>>)
  BY DEF Written, Place
<1>4. \A t \in Parts(<<>>) : t = <<>>
  <2> SUFFICES ASSUME NEW m \in 0..Len(<<>>) PROVE SubSeq(<<>>, 1, m) = <<>>
    OBVIOUS
  <2>1. m = 0 /\ SubSeq(<<>>, 1, 0) = <<>>
    OBVIOUS
  <2> QED
    BY <2>1
<1> HIDE DEF w
<1>5. w.sample \in Seq(Batches) /\ Range(w.sample) \subseteq Range(Snapshot.sample)
  BY <1>1, <1>2, BeginningOf DEF Beginning
<1>6. w.generation \in Seq(BOOLEAN) /\ IsPrefix(w.generation, Held.generations)
  <2>1. Snapshot.generation = Held.generations
    BY DEF Snapshot, Held
  <2> QED
    BY <1>1, <1>2, <2>1, BeginningOf DEF Beginning
<1>7. w.episode \in Seq(OpenEpisode \cup ClosedEpisode)
  BY <1>1, <1>2, BeginningOf DEF Beginning
<1>8. w.generation = <<>> => w.sample = <<>> /\ w.episode = <<>>
  <2> HIDE DEF Parts
  <2> QED
    BY <1>1, <1>2, <1>3, <1>4 DEF Beginning
<1>9. Beginning(w, Held)
  BY <1>1, <1>5, <1>6, <1>7, <1>8 DEF Beginning
<1> QED
  BY <1>9 DEF w

----------------------------------------------------------------------------
(* The steps, for what is held. *)

(* Nothing is held, and nothing saved.                                       *)
LEMMA InitHeldInv == Init => HeldInv
<1> SUFFICES ASSUME Init PROVE HeldInv
  OBVIOUS
<1>1. generations = <<>> /\ generations \in Seq(BOOLEAN)
  BY EmptySeq DEF Init
<1>2. LogHeld /\ forgotten \in Int /\ open = {} /\ closed[S] = <<>>
  BY NewLog, OneSeries DEF Init, EpisodeInit
<1> QED
  BY <1>1, <1>2, InitRestartInv, NothingKept DEF Init, HeldInv, EngineHeld, StoreHeld

(* A process that dies leaves an engine that holds nothing.                  *)
LEMMA BlankHeld ==
  ASSUME Blank, lives' \in Nat PROVE EngineHeld'
<1>1. generations' = <<>> /\ generations' \in Seq(BOOLEAN)
  BY EmptySeq DEF Blank
<1>2. LogHeld'
  <2>1. <<>> \in Chronicle
    BY NewLog
  <2>2. closed' \in [Series -> Chronicle]
    BY <2>1 DEF Blank
  <2> QED
    BY <2>2, FS_EmptySet DEF Blank, LogHeld
<1>3. forgotten' \in Int /\ open' = {} /\ closed'[S] = <<>>
  BY OneSeries DEF Blank
<1>4. windows' = NoWindows
  BY DEF Blank
<1>5. Kept(windows')
  BY <1>4, NothingKept
<1> QED
  BY <1>1, <1>2, <1>3, <1>4, <1>5 DEF EngineHeld

(* What is written from what the engine holds.                               *)
LEMMA StoreHeldWritten ==
  ASSUME EngineHeld, NEW records, Beginning(records, Held), NEW sealed, NEW torn,
         sealed => Complete(records, Held), Remember,
         store' = [records |-> records, sealed |-> sealed, torn |-> torn]
  PROVE  StoreHeld'
<1>1. image' = Held
  BY DEF Remember, Held
<1>2. store'.records = records /\ (store'.sealed <=> sealed)
  OBVIOUS
<1>3. Held.windows = windows /\ Held.open = open /\ Held.closed = closed[S]
  BY DEF Held
<1>4. Kept(windows) /\ open \subseteq OpenEpisode /\ closed[S] \in Seq(ClosedEpisode)
  BY OneSeries DEF EngineHeld, LogHeld, Chronicle
<1>5. /\ Kept(image'.windows)
      /\ image'.open \subseteq OpenEpisode /\ image'.closed \in Seq(ClosedEpisode)
  BY <1>1, <1>3, <1>4
<1>6. Beginning(store'.records, image') /\ (store'.sealed => Complete(store'.records, image'))
  BY <1>1, <1>2
<1> QED
  BY <1>5, <1>6 DEF StoreHeld

(* The engine gets the first generation of its path.                         *)
LEMMA RegisterHeld ==
  ASSUME EngineHeld, Register PROVE EngineHeld'
<1>1. generations' = <<TRUE>> /\ generations' \in Seq(BOOLEAN) /\ generations' # <<>>
  BY DEF Register
<1>2. UNCHANGED <<windows, open, closed, forgotten, lives>>
  BY DEF Register, episodeVars
<1>3. LogHeld'
  BY <1>2 DEF EngineHeld, LogHeld
<1> QED
  BY <1>1, <1>2, <1>3 DEF EngineHeld

(* Another generation; the episodes of the others close.                     *)
LEMMA RouteHeld ==
  ASSUME EngineHeld, ChangeRoute PROVE EngineHeld'
<1> DEFINE n == Len(generations)
           E == {e \in open : e.ordinal # n + 1}
<1>1. n \in Nat /\ generations' = [o \in 1..(n + 1) |-> o = n + 1]
  BY DEF EngineHeld, ChangeRoute
<1>2. Close(E, 0, "generation_changed") /\ UNCHANGED <<windows, lives>> /\ E \in SUBSET open
  BY DEF ChangeRoute
<1>3. generations' \in Seq(BOOLEAN) /\ generations' # <<>>
  <2> HIDE DEF n
  <2>1. generations' \in [1..(n + 1) -> BOOLEAN]
    BY <1>1
  <2>2. generations' \in Seq(BOOLEAN)
    BY <1>1, <2>1, SeqDef
  <2>3. 1 \in DOMAIN generations'
    BY <1>1, <2>1
  <2> QED
    BY <2>2, <2>3
<1> HIDE DEF E
<1>4. LogHeld'
  <2>1. 0 \in Nat /\ "generation_changed" \in Reasons
    BY DEF Reasons
  <2> QED
    BY <1>2, <2>1, ClosedLists DEF EngineHeld, LogStep
<1>5. forgotten' \in Int
  BY <1>2, CloseCounted DEF EngineHeld
<1> QED
  BY <1>2, <1>3, <1>4, <1>5 DEF EngineHeld

(* A sample enters the window of its generation.                             *)
LEMMA IngestHeld ==
  ASSUME EngineHeld, NEW b \in Batches, NEW historical, Ingest(b, historical)
  PROVE  EngineHeld'
<1>1. /\ b.ordinal \in DOMAIN generations
      /\ windows' = [windows EXCEPT ![b.ordinal] = Added(@, b)]
      /\ UNCHANGED <<generations, open, closed, forgotten, lives>>
  BY DEF Ingest, IsOpen, episodeVars
<1>2. generations # <<>>
  BY <1>1
<1>3. b.ordinal \in Ordinals /\ Kept(windows)
  BY BatchFacts DEF EngineHeld
<1>4. Added(windows[b.ordinal], b) \in KeptWindow(b.ordinal)
  BY <1>3, AddedKept DEF Kept
<1>5. Kept(windows')
  <2>1. Added(windows[b.ordinal], b) \in Seq(Batches)
    BY <1>4 DEF KeptWindow
  <2>2. windows' \in [Ordinals -> Seq(Batches)]
    BY <1>1, <1>3, <2>1 DEF Kept
  <2>3. \A o \in Ordinals :
          windows'[o] = IF o = b.ordinal THEN Added(windows[o], b) ELSE windows[o]
    BY <1>1, <1>3 DEF Kept
  <2>4. \A o \in Ordinals : windows'[o] \in KeptWindow(o)
    BY <1>3, <1>4, <2>3 DEF Kept
  <2> QED
    BY <2>2, <2>4 DEF Kept
<1>6. LogHeld'
  BY <1>1 DEF EngineHeld, LogHeld
<1> QED
  BY <1>1, <1>2, <1>5, <1>6 DEF EngineHeld

(* The episode log observes a generation that has samples.                   *)
LEMMA SummarizeHeld ==
  ASSUME EngineHeld, NEW o \in Ordinals, Summarize(o) PROVE EngineHeld'
<1>1. windows[o] # <<>> /\ UNCHANGED <<generations, windows, lives>>
  BY DEF Summarize
<1>2. generations # <<>>
  BY <1>1 DEF EngineHeld, NoWindows
<1>3. PICK level : Observe(S, o, IsOpen(o), level, 0)
  BY DEF Summarize
<1>4. o \in Nat /\ 0 \in Nat /\ S \in Series
  BY OneSeries DEF Ordinals
<1>5. LogHeld' /\ forgotten' \in Int
  BY <1>3, <1>4, ObservedLists, ObserveCounted DEF EngineHeld, LogStep
<1> QED
  BY <1>1, <1>2, <1>5 DEF EngineHeld

(* An open episode has no reason to have closed; a closed one has.           *)
LEMMA ImportedAre ==
  ASSUME NEW es \in Seq(OpenEpisode \cup ClosedEpisode)
  PROVE  /\ Imported(es) \in Seq(ClosedEpisode) /\ Len(Imported(es)) = Len(es)
         /\ \A i \in 1..Len(es) :
              /\ es[i] \in ClosedEpisode => Imported(es)[i] = es[i]
              /\ es[i] \in OpenEpisode =>
                   /\ Imported(es)[i].ordinal = es[i].ordinal
                   /\ Imported(es)[i].reason = "evidence_lost"
<1> DEFINE n == Len(es)
           q == Imported(es)
<1>1. n \in Nat /\ DOMAIN es = 1..n /\ \A i \in 1..n : es[i] \in OpenEpisode \cup ClosedEpisode
  OBVIOUS
<1>2. \A e \in ClosedEpisode : "reason" \in DOMAIN e
  BY DEF ClosedEpisode
<1>3. \A e \in OpenEpisode : "reason" \notin DOMAIN e
  BY DEF OpenEpisode
<1>4. q = [i \in 1..n |-> IF "reason" \in DOMAIN es[i] THEN es[i]
                                                       ELSE Closed(es[i], 0, "evidence_lost")]
  BY <1>1 DEF Imported
<1> HIDE DEF n, q
<1>5. ASSUME NEW i \in 1..n
      PROVE  /\ q[i] \in ClosedEpisode
             /\ es[i] \in ClosedEpisode => q[i] = es[i]
             /\ es[i] \in OpenEpisode =>
                  q[i].ordinal = es[i].ordinal /\ q[i].reason = "evidence_lost"
  <2>1. CASE es[i] \in ClosedEpisode
    <3>1. q[i] = es[i]
      BY <1>2, <1>4, <2>1
    <3>2. es[i] \notin OpenEpisode
      BY <1>2, <1>3, <2>1
    <3> QED
      BY <2>1, <3>1, <3>2
  <2>2. CASE es[i] \in OpenEpisode
    <3>1. q[i] = Closed(es[i], 0, "evidence_lost")
      BY <1>3, <1>4, <2>2
    <3>2. es[i] \notin ClosedEpisode
      BY <1>2, <1>3, <2>2
    <3>3. Closed(es[i], 0, "evidence_lost") \in ClosedEpisode
      <4>1. 0 \in Nat /\ "evidence_lost" \in Reasons
        BY DEF Reasons
      <4> QED
        BY <2>2, <4>1, ClosedIs
    <3>4. \A e : /\ Closed(e, 0, "evidence_lost").ordinal = e.ordinal
                 /\ Closed(e, 0, "evidence_lost").reason = "evidence_lost"
      BY DEF Closed
    <3> QED
      BY <3>1, <3>2, <3>3, <3>4
  <2> QED
    BY <1>1, <2>1, <2>2
<1>6. q \in [1..n -> ClosedEpisode]
  BY <1>4, <1>5
<1>7. q \in Seq(ClosedEpisode) /\ Len(q) = n
  BY <1>1, <1>6, SeqDef
<1> QED
  BY <1>5, <1>7 DEF n, q

(* What a restore makes of the windows, of a store whose samples came from   *)
(* the windows of `whole'.                                                   *)
LEMMA RestoredWindows ==
  ASSUME RestartTypes, windows = NoWindows, NEW whole, Kept(whole),
         NEW samples \in Seq(Batches), Range(samples) \subseteq AllOf(whole),
         NEW q \in Grouped(Range(samples))
  PROVE  /\ Kept(Rebuilt(q).windows)
         /\ \A o \in Ordinals : /\ Range(Rebuilt(q).windows[o]) \subseteq Range(whole[o])
                                /\ \A b \in Range(samples) : b \in Range(whole[o]) =>
                                     b \in Range(Rebuilt(q).windows[o])
                                /\ Range(Rebuilt(q).windows[o]) \subseteq Range(samples)
<1> DEFINE all == Range(samples)
           n == Cardinality(all)
<1>1. all \subseteq Batches /\ n \in Nat
  BY RangeFinite
<1>2. q \in [1..n -> all] /\ Range(q) = all
  BY DEF Grouped
<1>3. \A o \in Ordinals : \A b \in Range(whole[o]) : b.ordinal = o
  BY DEF Kept, KeptWindow, Range
<1>4. \A b \in all : b.ordinal \in Ordinals /\ b \in Range(whole[b.ordinal])
  BY <1>3 DEF AllOf
<1> HIDE DEF all, n
<1>5. q \in [1..n -> Batches] /\ \A i \in 1..n : q[i] \in Range(whole[q[i].ordinal])
  BY <1>1, <1>2, <1>4
<1>6. /\ Kept(Rebuilt(q).windows)
      /\ \A o \in Ordinals : Range(Rebuilt(q).windows[o]) = {b \in Range(q) : b.ordinal = o}
  BY <1>1, <1>5, RebuiltHolds
<1>7. \A o \in Ordinals : /\ Range(Rebuilt(q).windows[o]) \subseteq Range(whole[o])
                          /\ \A b \in all : b \in Range(whole[o]) =>
                               b \in Range(Rebuilt(q).windows[o])
                          /\ Range(Rebuilt(q).windows[o]) \subseteq all
  BY <1>2, <1>3, <1>4, <1>6
<1> QED
  BY <1>6, <1>7 DEF all

(* What a restore brings back. *)
Returned ==
  /\ \A o \in Ordinals : Range(windows'[o]) \subseteq Range(image.windows[o])
  /\ IsPrefix(generations', image.generations)
  /\ open' = {} /\ Len(closed'[S]) <= MaxEpisodes
  /\ store.sealed =>
       /\ \A o \in Ordinals : Range(windows'[o]) = Range(image.windows[o])
       /\ generations' = image.generations
       /\ \/ forgotten' > forgotten
          \/ /\ Range(image.closed) \subseteq Range(closed'[S])
             /\ \A e \in image.open : \E f \in Range(closed'[S]) :
                  f.ordinal = e.ordinal /\ f.reason = "evidence_lost"

(* A restore, of whatever could be read back.                                *)
LEMMA RestoreHeld ==
  ASSUME HeldInv, NEW repair \in BOOLEAN, NEW admit \in BOOLEAN, Restore(repair, admit)
  PROVE  EngineHeld' /\ Returned
<1> DEFINE rs == store.records
           ep == store.records.episode
           es == Imported(store.records.episode)
<1>1. /\ Kept(image.windows)
      /\ image.open \subseteq OpenEpisode /\ image.closed \in Seq(ClosedEpisode)
      /\ Beginning(rs, image)
      /\ store.sealed => Complete(rs, image)
  BY DEF HeldInv, StoreHeld, Restore, Readable
<1>2. RestartTypes /\ EngineHeld /\ generations = <<>>
  BY DEF HeldInv, RestartInv, Restore
<1>3. windows = NoWindows /\ open = {} /\ closed[S] = <<>> /\ forgotten \in Int
  BY <1>2 DEF EngineHeld
<1>4. PICK q \in Grouped(Range(rs.sample)) : windows' = Rebuilt(q).windows
  BY DEF Restore
<1>5. /\ Kept(windows')
      /\ \A o \in Ordinals : /\ Range(windows'[o]) \subseteq Range(image.windows[o])
                             /\ \A b \in Range(rs.sample) : b \in Range(image.windows[o]) =>
                                  b \in Range(windows'[o])
                             /\ Range(windows'[o]) \subseteq Range(rs.sample)
  <2>1. rs.sample \in Seq(Batches) /\ Range(rs.sample) \subseteq AllOf(image.windows)
    BY <1>1 DEF Beginning
  <2> DEFINE samples == rs.sample
             whole == image.windows
  <2>2. samples \in Seq(Batches) /\ Range(samples) \subseteq AllOf(whole) /\ Kept(whole)
    BY <1>1, <2>1
  <2>3. q \in Grouped(Range(samples))
    OBVIOUS
  <2> HIDE DEF samples, whole
  <2>4. /\ Kept(Rebuilt(q).windows)
        /\ \A o \in Ordinals : /\ Range(Rebuilt(q).windows[o]) \subseteq Range(whole[o])
                               /\ \A b \in Range(samples) : b \in Range(whole[o]) =>
                                    b \in Range(Rebuilt(q).windows[o])
                               /\ Range(Rebuilt(q).windows[o]) \subseteq Range(samples)
    BY <1>2, <1>3, <2>2, <2>3, RestoredWindows
  <2> QED
    BY <1>4, <2>4 DEF samples, whole
<1>6. /\ generations' = rs.generation /\ open' = open /\ lives' = lives
      /\ closed' = [closed EXCEPT ![S] = Joined(@, es)]
      /\ forgotten' = forgotten + Len(closed[S]) + Len(ep) - Len(closed'[S])
  BY DEF Restore
<1>7. /\ es \in Seq(ClosedEpisode) /\ Len(es) = Len(ep) /\ ep \in Seq(OpenEpisode \cup ClosedEpisode)
      /\ \A i \in 1..Len(ep) :
           /\ ep[i] \in ClosedEpisode => es[i] = ep[i]
           /\ ep[i] \in OpenEpisode =>
                es[i].ordinal = ep[i].ordinal /\ es[i].reason = "evidence_lost"
  <2>1. ep \in Seq(OpenEpisode \cup ClosedEpisode)
    BY <1>1 DEF Beginning
  <2> HIDE DEF ep
  <2>2. es = Imported(ep)
    BY DEF ep
  <2> HIDE DEF es
  <2> QED
    BY <2>1, <2>2, ImportedAre
<1>8. LogHeld /\ S \in Series
  BY <1>2, OneSeries DEF EngineHeld
<1>9. closed'[S] = Joined(<<>>, es)
  BY <1>3, <1>6, <1>8 DEF LogHeld
<1>10. <<>> \in Chronicle /\ Len(<<>>) = 0
  BY NewLog
<1> HIDE DEF rs, ep, es
<1>11. Gathered(<<>>, es, Len(es), closed'[S])
  BY <1>7, <1>9, <1>10, JoinedByAll
<1>12. /\ closed'[S] \in Chronicle /\ Len(closed'[S]) \in Nat /\ Len(closed'[S]) <= MaxEpisodes
       /\ Len(closed'[S]) <= Len(ep) /\ Len(ep) \in Nat
       /\ Len(closed'[S]) = Len(ep) => {es[i] : i \in 1..Len(ep)} \subseteq Range(closed'[S])
  <2>1. closed'[S] \in Chronicle /\ Len(closed'[S]) <= 0 + Len(ep)
    BY <1>7, <1>10, <1>11 DEF Gathered
  <2>2. Len(closed'[S]) \in Nat /\ Len(closed'[S]) <= MaxEpisodes
    BY <2>1, ChronicleShape
  <2>3. Len(ep) \in Nat
    BY <1>7
  <2>4. Len(closed'[S]) = Len(<<>>) + Len(es) =>
          {es[i] : i \in 1..Len(es)} \subseteq Range(closed'[S])
    BY <1>11 DEF Gathered
  <2> QED
    BY <1>7, <1>10, <2>1, <2>2, <2>3, <2>4
<1>13. /\ forgotten' \in Int
       /\ forgotten' > forgotten \/ Len(closed'[S]) = Len(ep)
  <2> DEFINE before == Len(closed[S])
             more == Len(ep)
             after == Len(closed'[S])
             count == forgotten'
  <2>1. before = 0 /\ more \in Nat /\ after \in Nat /\ after <= more
    BY <1>3, <1>10, <1>12
  <2>2. count = forgotten + before + more - after /\ forgotten \in Int
    BY <1>3, <1>6
  <2> HIDE DEF before, more, after, count
  <2>3. count \in Int /\ (count > forgotten \/ after = more)
    BY <2>1, <2>2
  <2> QED
    BY <2>3 DEF after, more, count
<1>14. LogHeld'
  <2>1. open' \subseteq OpenEpisode /\ IsFiniteSet(open')
    BY <1>6, <1>8 DEF LogHeld
  <2>2. closed' \in [Series -> Chronicle]
    BY <1>6, <1>8, <1>9, <1>12 DEF LogHeld
  <2> QED
    BY <2>1, <2>2 DEF LogHeld
<1>15. generations' = <<>> => windows' = NoWindows /\ open' = {} /\ closed'[S] = <<>>
  <2> SUFFICES ASSUME generations' = <<>> PROVE windows' = NoWindows /\ closed'[S] = <<>>
    BY <1>3, <1>6
  <2>1. rs.sample = <<>> /\ ep = <<>>
    BY <1>1, <1>6 DEF Beginning, rs, ep
  <2>2. closed'[S] = <<>>
    <3>1. Len(closed'[S]) = 0 /\ closed'[S] \in Seq(ClosedEpisode)
      BY <1>10, <1>12, <2>1 DEF Chronicle
    <3> QED
      BY <3>1, EmptySeq
  <2>3. \A o \in Ordinals : Range(windows'[o]) = {}
    <3>1. Range(<<>>) = {}
      BY DEF Range
    <3> QED
      BY <1>5, <2>1, <3>1
  <2>4. ASSUME NEW o \in Ordinals PROVE windows'[o] = <<>>
    <3>1. windows'[o] \in Seq(Batches) /\ Range(windows'[o]) = {}
      BY <1>5, <2>3 DEF Kept
    <3>2. ASSUME windows'[o] # <<>> PROVE FALSE
      <4>1. 1 \in DOMAIN windows'[o]
        BY <3>1, <3>2, EmptySeq
      <4> QED
        BY <3>1, <4>1 DEF Range
    <3> QED
      BY <3>2
  <2>5. windows' = [o \in Ordinals |-> windows'[o]]
    BY <1>5 DEF Kept
  <2>6. windows' = NoWindows
    BY <2>4, <2>5 DEF NoWindows
  <2> QED
    BY <2>2, <2>6
<1>16. EngineHeld'
  <2>1. generations' \in Seq(BOOLEAN) /\ lives' \in Nat
    BY <1>1, <1>2, <1>6 DEF Beginning, EngineHeld
  <2> QED
    BY <1>5, <1>13, <1>14, <1>15, <2>1 DEF EngineHeld
<1>17. ASSUME store.sealed
       PROVE  /\ \A o \in Ordinals : Range(windows'[o]) = Range(image.windows[o])
              /\ generations' = image.generations
  <2>1. /\ rs.generation = image.generations
        /\ AllOf(image.windows) \subseteq Range(rs.sample)
    BY <1>1, <1>17 DEF Complete
  <2>2. ASSUME NEW o \in Ordinals, NEW b \in Range(image.windows[o]) PROVE b \in Range(windows'[o])
    <3>1. b \in Range(rs.sample)
      BY <2>1 DEF AllOf
    <3> QED
      BY <1>5, <3>1
  <2> QED
    BY <1>5, <1>6, <2>1, <2>2
<1>18. ASSUME store.sealed, ~(forgotten' > forgotten)
       PROVE  /\ Range(image.closed) \subseteq Range(closed'[S])
              /\ \A e \in image.open : \E f \in Range(closed'[S]) :
                   f.ordinal = e.ordinal /\ f.reason = "evidence_lost"
  <2>1. \A i \in 1..Len(ep) : es[i] \in Range(closed'[S])
    BY <1>12, <1>13, <1>18
  <2>2. image.open \cup Range(image.closed) \subseteq Range(ep)
    BY <1>1, <1>18 DEF Complete, rs, ep
  <2>3. ASSUME NEW e \in Range(ep) PROVE \E i \in 1..Len(ep) : e = ep[i]
    <3>1. DOMAIN ep = 1..Len(ep)
      BY <1>7
    <3> QED
      BY <3>1 DEF Range
  <2>4. ASSUME NEW e \in Range(image.closed) PROVE e \in Range(closed'[S])
    <3>1. PICK i \in 1..Len(ep) : e = ep[i]
      BY <2>2, <2>3
    <3>2. e \in ClosedEpisode
      BY <1>1, RangeFinite
    <3> QED
      BY <1>7, <2>1, <3>1, <3>2
  <2>5. ASSUME NEW e \in image.open
        PROVE  \E f \in Range(closed'[S]) : f.ordinal = e.ordinal /\ f.reason = "evidence_lost"
    <3>1. PICK i \in 1..Len(ep) : e = ep[i]
      BY <2>2, <2>3
    <3> QED
      BY <1>1, <1>7, <2>1, <3>1
  <2> QED
    BY <2>4, <2>5
<1>19. Returned
  <2>1. IsPrefix(generations', image.generations)
    BY <1>1, <1>6 DEF Beginning
  <2>2. open' = {}
    BY <1>3, <1>6
  <2> QED
    BY <1>5, <1>12, <1>17, <1>18, <2>1, <2>2 DEF Returned
<1> QED
  BY <1>16, <1>19

(* The invariant of what is held, step by step.                              *)
LEMMA HeldStep == HeldInv /\ [Next]_vars => HeldInv'
<1> SUFFICES ASSUME HeldInv, [Next]_vars PROVE HeldInv'
  OBVIOUS
<1>1. RestartInv'
  BY RestartStep DEF HeldInv
<1>2. EngineHeld /\ StoreHeld
  BY DEF HeldInv
<1>3. ASSUME UNCHANGED <<store, image>> PROVE StoreHeld'
  BY <1>2, <1>3 DEF StoreHeld
<1>4. CASE Register
  BY <1>1, <1>2, <1>3, <1>4, RegisterHeld DEF HeldInv, Register, saveVars
<1>5. CASE ChangeRoute
  BY <1>1, <1>2, <1>3, <1>5, RouteHeld DEF HeldInv, ChangeRoute, saveVars
<1>6. CASE \E b \in Batches, historical \in BOOLEAN : Ingest(b, historical)
  <2>1. PICK b \in Batches, historical \in BOOLEAN : Ingest(b, historical)
    BY <1>6
  <2>2. EngineHeld'
    BY <1>2, <2>1, IngestHeld
  <2> QED
    BY <1>1, <1>3, <2>1, <2>2 DEF HeldInv, Ingest, saveVars
<1>7. CASE \E o \in Ordinals : Summarize(o)
  BY <1>1, <1>2, <1>3, <1>7, SummarizeHeld DEF HeldInv, Summarize, saveVars
<1>8. CASE Save
  <2>1. /\ Remember /\ store' = [records |-> Snapshot, sealed |-> TRUE, torn |-> FALSE]
        /\ UNCHANGED <<engineVars, lives>>
    BY <1>8 DEF Save
  <2>2. StoreHeld'
    BY <1>2, <2>1, SnapshotComplete, StoreHeldWritten
  <2>3. EngineHeld'
    BY <1>2, <2>1 DEF engineVars, episodeVars, EngineHeld, LogHeld
  <2> QED
    BY <1>1, <2>2, <2>3 DEF HeldInv
<1>9. CASE Die
  <2>1. Blank /\ lives' \in Nat /\ UNCHANGED <<store, image>>
    BY <1>2, <1>9 DEF Die, EngineHeld, saveVars
  <2> QED
    BY <1>1, <1>3, <2>1, BlankHeld DEF HeldInv
<1>10. CASE DieSaving
  <2>1. Blank /\ Remember /\ lives' \in Nat
    BY <1>2, <1>10 DEF DieSaving, EngineHeld
  <2>2. PICK kind \in DOMAIN Place, torn \in BOOLEAN : \E n \in 0..Len(Snapshot[kind]) :
          store' = [records |-> Written(kind, n), sealed |-> FALSE, torn |-> torn]
    BY <1>10 DEF DieSaving
  <2>3. PICK n \in 0..Len(Snapshot[kind]) :
          store' = [records |-> Written(kind, n), sealed |-> FALSE, torn |-> torn]
    BY <2>2
  <2>4. Beginning(Written(kind, n), Held)
    BY <1>2, WrittenBegins
  <2>5. StoreHeld'
    BY <1>2, <2>1, <2>3, <2>4, StoreHeldWritten
  <2> QED
    BY <1>1, <2>1, <2>5, BlankHeld DEF HeldInv
<1>11. CASE \E repair, admit \in BOOLEAN : Restore(repair, admit)
  <2>1. PICK repair \in BOOLEAN, admit \in BOOLEAN : Restore(repair, admit)
    BY <1>11
  <2>2. EngineHeld'
    BY <2>1, RestoreHeld
  <2> QED
    BY <1>1, <1>3, <2>1, <2>2 DEF HeldInv, Restore, saveVars
<1>12. CASE UNCHANGED vars \/ \E repair \in BOOLEAN : RestoreStopped(repair)
  <2>1. UNCHANGED vars
    BY <1>12 DEF RestoreStopped
  <2>2. EngineHeld'
    BY <1>2, <2>1 DEF vars, engineVars, episodeVars, EngineHeld, LogHeld
  <2> QED
    BY <1>1, <1>3, <2>1, <2>2 DEF HeldInv, vars, saveVars
<1> QED
  BY <1>4, <1>5, <1>6, <1>7, <1>8, <1>9, <1>10, <1>11, <1>12 DEF Next

(* Only a restore reads the store within the life of a process.              *)
LEMMA OnlyRestoreLoads ==
  ASSUME HeldInv, [Next]_vars, lives' = lives, loaded' # loaded
  PROVE  \E repair, admit \in BOOLEAN : Restore(repair, admit)
<1>0. lives \in Nat
  BY DEF HeldInv, EngineHeld
<1>1. ~Register /\ ~ChangeRoute /\ ~Save
  BY DEF Register, ChangeRoute, Save
<1>2. ~Die /\ ~DieSaving
  BY <1>0 DEF Die, DieSaving
<1>3. ~(\E b \in Batches, historical \in BOOLEAN : Ingest(b, historical))
  BY DEF Ingest
<1>4. ~(\E o \in Ordinals : Summarize(o))
  BY DEF Summarize
<1>5. ~(UNCHANGED vars) /\ ~(\E repair \in BOOLEAN : RestoreStopped(repair))
  BY DEF RestoreStopped, vars
<1> QED
  BY <1>1, <1>2, <1>3, <1>4, <1>5 DEF Next

----------------------------------------------------------------------------
(* Theorems. *)

(* The invariant: the guard covers what was accepted, the guard in the store *)
(* covers what was accepted when it was saved, and what a process got from   *)
(* the store is withheld unless the configuration admits it (save_locked and *)
(* restore_locked of src/src/engine.cpp).                                    *)
THEOREM RestartInvariance == Spec => []RestartInv
BY InitRestartInv, RestartStep, PTL DEF Spec

(* What came out of a store never counts as current evidence in a process    *)
(* whose configuration does not admit it, whatever the caller of restore     *)
(* asks for, also when it arrives again (engine.cpp, restore_locked and      *)
(* admit_persisted_evidence).                                                *)
THEOREM StoredIsNotCurrent == Spec => []PersistedNotCurrent
<1>1. RestartInv => PersistedNotCurrent
  BY DEF RestartInv, LoadedWithheld, PersistedNotCurrent, MayBeFresh
<1> QED
  BY <1>1, RestartInvariance, PTL

(* Evidence that was accepted is not accepted again, in this process or,     *)
(* saved and restored, in the next, wherever the save was cut off            *)
(* (restore_locked rebuilds the guards from the samples, engine.cpp).        *)
THEOREM ReplayStaysFenced == Spec => []ReplayFenced
<1>1. RestartInv => ReplayFenced
  <2> SUFFICES ASSUME RestartInv, NEW b \in accepted
               PROVE  Evaluate(guard, b.position, <<"batch", b>>, FALSE) # "accept"
    BY DEF ReplayFenced
  <2>1. guard \in GuardState /\ b \in Batches /\ Covers(guard, b)
    BY DEF RestartInv, RestartTypes, Fenced
  <2> QED
    BY <2>1, CoveredNotAccepted
<1> QED
  BY <1>1, RestartInvariance, PTL

(* What an engine holds, and that what its store holds is the beginning of   *)
(* what it held when the save began, all of it if the save was finished      *)
(* (save_locked of src/src/engine.cpp).                                      *)
THEOREM StoreInvariance == Spec => []HeldInv
BY InitHeldInv, HeldStep, PTL DEF Spec

(* A restore brings back what was saved: of a finished save the samples of   *)
(* every window, the generations and the episodes, open ones closed as lost, *)
(* and no sample pushes another out on the way back; of a save the process   *)
(* died in some of it and nothing else (restore_locked of engine.cpp).       *)
THEOREM RestoreFaithful == Spec => RestoreReturnsTheSaved
<1>1. HeldInv /\ [Next]_vars =>
        (lives' = lives /\ generations = <<>> /\ loaded' # loaded => Returned)
  BY OnlyRestoreLoads, RestoreHeld
<1>2. HeldInv /\ [Next]_vars =>
        [lives' = lives /\ generations = <<>> /\ loaded' # loaded => Returned]_vars
  BY <1>1
<1> QED
  BY <1>2, StoreInvariance, PTL DEF Spec, RestoreReturnsTheSaved, Returned
=============================================================================
