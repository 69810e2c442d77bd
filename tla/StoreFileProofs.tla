--------------------------- MODULE StoreFileProofs ---------------------------
(***************************************************************************)
(* Proofs about StoreFile, for every set of payloads, every number of      *)
(* records and every number of alterations of the file.                    *)
(*                                                                         *)
(* The argument: whatever is on disk was written by a writer, so each      *)
(* chunk carries the chain of the records that were before it when it was  *)
(* written.  A chunk that load_store trusts therefore stands where it was  *)
(* written, because its chain is one longer than that of the chunk before. *)
(***************************************************************************)
EXTENDS StoreFile, Induction

(* What a record and a trailer can be. *)
DataBodies == [kind : {"data"}, payload : Payloads, count : {0}, root : {<<>>}]
Trailers == [kind : {"trailer"}, payload : {NoPayload}, count : Nat, root : Seq(DataBodies)]
Bodies == DataBodies \cup Trailers
States == {"whole", "torn", "damaged", "overlong"}
Chunks == [body : Bodies, chain : Seq(Bodies), state : States]

(* The trailer of a store with the payloads l, and the body of its record n. *)
End(l) == [kind |-> "trailer", payload |-> NoPayload, count |-> Len(l),
           root |-> [j \in 1..Len(l) |-> Data(l[j])]]
BodyAt(l, n) == IF n <= Len(l) THEN Data(l[n]) ELSE End(l)

(* The chain behind record n. *)
ChainAt(l, c, n) ==
  /\ n \in 0..(Len(l) + 1)
  /\ Len(c) = n
  /\ \A j \in 1..n : c[j] = BodyAt(l, j)

(* A chunk as it was written, as record n.                                   *)
WrittenAs(l, c, n) == c.body = BodyAt(l, n) /\ ChainAt(l, c.chain, n)
Genuine(l, c) == \E n \in 1..(Len(l) + 1) : WrittenAs(l, c, n)

Types ==
  /\ header \in {"none", "short", "damaged", "whole"}
  /\ file \in Seq(Chunks) /\ pending \in Seq(Chunks) /\ chain \in Seq(Bodies)
  /\ isOpen \in BOOLEAN
  /\ count \in 0..MaxRecords /\ tampers \in 0..MaxTampers
  /\ log \in Seq(Payloads) /\ Len(log) <= MaxRecords /\ acked \in 0..Len(log)
  /\ header \in {"none", "short"} => file = <<>>

(* Every chunk on disk was written for this store, wherever it is now.       *)
AllGenuine == \A i \in DOMAIN file : Genuine(log, file[i])

(* In a file nobody altered, and in one a writer has open, it is where it    *)
(* was written; only the last one can be torn, and not under a writer.       *)
InPlace ==
  isOpen \/ tampers = 0 =>
    \A i \in DOMAIN file :
      /\ WrittenAs(log, file[i], i)
      /\ file[i].state \in {"whole", "torn"}
      /\ isOpen \/ i < Len(file) => file[i].state = "whole"

(* The buffer continues the file, and the writer knows where it is.          *)
WriterInPlace ==
  IF isOpen
    THEN /\ header \in {"short", "whole"} /\ count = Len(log)
         /\ ChainAt(log, chain, Len(chain)) /\ Len(log) <= Len(chain)
         /\ Len(chain) = Len(file) + Len(pending)
         /\ \A i \in DOMAIN pending : /\ WrittenAs(log, pending[i], Len(file) + i)
                                      /\ pending[i].state = "whole"
    ELSE pending = <<>>

(* What a flush covered is in the file, and not torn.                        *)
AckedOnDisk ==
  tampers = 0 =>
    /\ header # "damaged"
    /\ acked <= Len(file)
    /\ \A i \in DOMAIN file : i <= acked => file[i].state = "whole"

IInv == Types /\ AllGenuine /\ InPlace /\ WriterInPlace /\ AckedOnDisk

----------------------------------------------------------------------------
(* Numbers and sequences. *)

(* What the bodies of a store are, and that its trailer is no record. *)
LEMMA BodyTypes ==
  ASSUME NEW l \in Seq(Payloads), NEW n \in 1..(Len(l) + 1)
  PROVE  /\ BodyAt(l, n) \in Bodies
         /\ End(l) \in Trailers
         /\ BodyAt(l, n).kind = "trailer" <=> n = Len(l) + 1
         /\ BodyAt(l, n).kind = "data" <=> n <= Len(l)
         /\ n <= Len(l) => BodyAt(l, n) = Data(l[n]) /\ BodyAt(l, n).payload = l[n]
         /\ n <= Len(l) => l[n] \in Payloads /\ Data(l[n]) \in DataBodies
         /\ n = Len(l) + 1 => BodyAt(l, n) = End(l)
<1>1. Len(l) \in Nat /\ \A j \in 1..Len(l) : l[j] \in Payloads
  OBVIOUS
<1>2. \A v \in Payloads : Data(v) \in DataBodies /\ Data(v).kind = "data" /\ Data(v).payload = v
  BY DEF Data, DataBodies
<1>3. End(l).root \in Seq(DataBodies)
  <2>1. [j \in 1..Len(l) |-> Data(l[j])] \in [1..Len(l) -> DataBodies]
    BY <1>1, <1>2
  <2> QED
    BY <1>1, <2>1, SeqDef DEF End
<1>4. End(l) \in Trailers /\ End(l).kind = "trailer"
  BY <1>1, <1>3 DEF End, Trailers
<1> QED
  BY <1>1, <1>2, <1>4 DEF BodyAt, Bodies

(* A chain is determined by where it ends. *)
LEMMA ChainUnique ==
  ASSUME NEW l, NEW c \in Seq(Bodies), NEW d \in Seq(Bodies), NEW n,
         ChainAt(l, c, n), ChainAt(l, d, n)
  PROVE  c = d
  BY SeqEqual DEF ChainAt

(* One body more. *)
LEMMA ChainAppend ==
  ASSUME NEW l \in Seq(Payloads), NEW c \in Seq(Bodies), NEW n \in 0..Len(l), ChainAt(l, c, n)
  PROVE  /\ Append(c, BodyAt(l, n + 1)) \in Seq(Bodies)
         /\ ChainAt(l, Append(c, BodyAt(l, n + 1)), n + 1)
<1>1. Len(l) \in Nat /\ n + 1 \in 1..(Len(l) + 1) /\ n \in Nat
  OBVIOUS
<1>2. BodyAt(l, n + 1) \in Bodies
  BY <1>1, BodyTypes
<1> DEFINE b == BodyAt(l, n + 1)
           d == Append(c, b)
<1> HIDE DEF b
<1>3. /\ d \in Seq(Bodies) /\ Len(d) = n + 1
      /\ \A j \in 1..n : d[j] = c[j]
      /\ d[n + 1] = b
  BY <1>1, <1>2 DEF ChainAt, b
<1> HIDE DEF d
<1>4. \A j \in 1..(n + 1) : d[j] = BodyAt(l, j)
  <2> SUFFICES ASSUME NEW j \in 1..(n + 1)
               PROVE  d[j] = BodyAt(l, j)
    OBVIOUS
  <2>1. CASE j = n + 1
    BY <1>3, <2>1 DEF b
  <2>2. CASE j \in 1..n
    BY <1>3, <2>2 DEF ChainAt
  <2> QED
    BY <1>1, <2>1, <2>2
<1>5. ChainAt(l, d, n + 1)
  BY <1>1, <1>3, <1>4 DEF ChainAt
<1> QED
  BY <1>3, <1>5 DEF d, b

(* The empty chain. *)
LEMMA ChainEmpty ==
  ASSUME NEW l \in Seq(Payloads)
  PROVE  <<>> \in Seq(Bodies) /\ ChainAt(l, <<>>, 0)
  BY DEF ChainAt

(* What was written stays as written when records are appended, and when the *)
(* ones behind it are cut off.                                               *)
Agree(l, m, k) ==
  k \in Nat /\ k <= Len(l) /\ k <= Len(m) /\ \A j \in 1..k : m[j] = l[j]

LEMMA SameBeginning ==
  ASSUME NEW l \in Seq(Payloads), NEW m \in Seq(Payloads), NEW k, Agree(l, m, k),
         NEW n \in 0..k, NEW c, ChainAt(l, c, n)
  PROVE  /\ ChainAt(m, c, n)
         /\ n \in 1..k => BodyAt(m, n) = BodyAt(l, n)
<1>1. \A j \in 1..n : BodyAt(m, j) = BodyAt(l, j)
  BY DEF BodyAt, Agree
<1> QED
  BY <1>1 DEF ChainAt, Agree

----------------------------------------------------------------------------
(* load_store *)

(* The numbers of records load_store could trust; it trusts the most of them.*)
Trusted == {n \in 0..Len(file) : /\ \A i \in 1..n : Readable(i)
                                 /\ \A i \in 1..(n - 1) : file[i].body.kind = "data"}

LEMMA ChunkTypes ==
  ASSUME Types, NEW i \in 1..Len(file)
  PROVE  /\ file[i] \in Chunks /\ file[i].body \in Bodies
         /\ file[i].chain \in Seq(Bodies) /\ file[i].state \in States
         /\ Len(file[i].chain) \in Nat
<1>1. file[i] \in Chunks
  BY DEF Types
<1> QED
  BY <1>1 DEF Chunks

LEMMA ValidIsMost ==
  ASSUME Types
  PROVE  Valid \in Trusted /\ \A m \in Trusted : m <= Valid
<1> DEFINE Left == {Len(file) - n : n \in Trusted}
<1>1. Len(file) \in Nat
  BY DEF Types
<1>2. 0 \in Trusted
  BY <1>1 DEF Trusted
<1>3. Left \subseteq Nat /\ Left # {}
  BY <1>1, <1>2 DEF Trusted
<1>4. PICK k \in Left : \A y \in Left : k <= y
  <2> HIDE DEF Left
  <2> QED
    BY <1>3, LeastNumber
<1>5. PICK n \in Trusted : k = Len(file) - n
  BY <1>4
<1>6. \A m \in Trusted : m <= n
  <2> SUFFICES ASSUME NEW m \in Trusted
               PROVE  m <= n
    OBVIOUS
  <2>1. Len(file) - m \in Left
    OBVIOUS
  <2>2. Len(file) - n <= Len(file) - m
    BY <1>4, <1>5, <2>1
  <2>3. n \in Nat /\ m \in Nat
    BY DEF Trusted
  <2> QED
    BY <1>1, <2>2, <2>3
<1>7. Valid = CHOOSE n_1 \in Trusted : \A m \in Trusted : m <= n_1
  BY DEF Valid, Trusted
<1> QED
  BY <1>6, <1>7

(* A record load_store trusts stands where it was written: its chain is one  *)
(* longer than that of the record before it.                                 *)
LEMMA TrustedInPlace ==
  ASSUME Types, AllGenuine, NEW n \in Trusted
  PROVE  \A i \in 1..n : WrittenAs(log, file[i], i) /\ file[i].state = "whole"
<1> DEFINE Wrong == {i \in 1..n : ~WrittenAs(log, file[i], i)}
<1>1. Len(file) \in Nat /\ n \in 0..Len(file) /\ \A i \in 1..n : Readable(i) /\ i \in 1..Len(file)
  BY DEF Types, Trusted
<1>2. SUFFICES ASSUME Wrong # {}
               PROVE  FALSE
  BY <1>1 DEF Readable
<1>3. PICK m \in Wrong : \A i \in Wrong : m <= i
  <2>1. Wrong \subseteq Nat
    OBVIOUS
  <2> HIDE DEF Wrong
  <2> QED
    BY <1>2, <2>1, LeastNumber
<1>4. m \in 1..n /\ m \in 1..Len(file) /\ Readable(m) /\ m \in Nat
  BY <1>1
<1>5. PICK k \in 1..(Len(log) + 1) : WrittenAs(log, file[m], k)
  BY <1>4 DEF AllGenuine, Genuine, Types
<1>6. Len(file[m].chain) = k
  BY <1>5 DEF WrittenAs, ChainAt
<1>7. Before(m) \in Seq(Bodies) /\ Len(Before(m)) = m - 1
  <2>1. CASE m = 1
    BY <2>1 DEF Before
  <2>2. CASE m # 1
    <3>1. m - 1 \in 1..n /\ m - 1 \in 1..Len(file) /\ m - 1 < m
      BY <1>1, <1>4, <2>2
    <3>2. WrittenAs(log, file[m - 1], m - 1)
      <4>1. m - 1 \notin Wrong
        BY <1>3, <1>4, <3>1
      <4> QED
        BY <3>1, <4>1
    <3>3. file[m - 1].chain \in Seq(Bodies)
      BY <3>1, ChunkTypes
    <3> QED
      BY <2>2, <3>2, <3>3 DEF Before, WrittenAs, ChainAt
  <2> QED
    BY <2>1, <2>2
<1>8. file[m].chain = Append(Before(m), file[m].body) /\ file[m].body \in Bodies
  BY <1>4, ChunkTypes DEF Readable
<1>9. Len(file[m].chain) = m
  <2>1. Len(Append(Before(m), file[m].body)) = Len(Before(m)) + 1
    BY <1>7, <1>8
  <2> QED
    BY <1>4, <1>7, <1>8, <2>1
<1>10. WrittenAs(log, file[m], m)
  BY <1>5, <1>6, <1>9
<1> QED
  BY <1>10, <1>3

(* What load_store returns is the beginning of what was written.             *)
LEMMA KeptIsBeginning ==
  ASSUME Types, AllGenuine
  PROVE  /\ Valid \in 0..Len(file) /\ Kept \in 0..Len(log) /\ Kept <= Valid
         /\ \A i \in 1..Kept : /\ WrittenAs(log, file[i], i) /\ file[i].state = "whole"
                               /\ file[i].body.payload = log[i]
         /\ Len(Recovered) = Kept /\ Recovered \in Seq(Payloads)
         /\ \A i \in 1..Kept : Recovered[i] = log[i]
         /\ TrailerPresent <=> Valid = Len(log) + 1
         /\ TrailerPresent => Kept = Len(log) /\ WrittenAs(log, file[Valid], Valid)
<1>1. /\ Len(file) \in Nat /\ Len(log) \in Nat /\ log \in Seq(Payloads)
      /\ \A i \in 1..Len(log) : log[i] \in Payloads
  BY DEF Types
<1>2. Valid \in Trusted
  BY ValidIsMost
<1>3. Valid \in 0..Len(file)
  BY <1>2 DEF Trusted
<1>4. \A i \in 1..Valid : WrittenAs(log, file[i], i) /\ file[i].state = "whole"
  BY <1>2, TrustedInPlace
<1>5. Valid <= Len(log) + 1
  <2>1. CASE Valid = 0
    BY <1>1, <2>1
  <2>2. CASE Valid # 0
    <3>1. WrittenAs(log, file[Valid], Valid)
      BY <1>3, <1>4, <2>2
    <3> QED
      BY <1>1, <3>1 DEF WrittenAs, ChainAt
  <2> QED
    BY <2>1, <2>2
<1>6. \A i \in 1..Valid : file[i].body = BodyAt(log, i) /\ i \in 1..(Len(log) + 1)
  BY <1>1, <1>3, <1>4, <1>5 DEF WrittenAs
<1>7. TrailerPresent <=> Valid = Len(log) + 1
  <2>1. CASE Valid = 0
    BY <1>1, <2>1 DEF TrailerPresent
  <2>2. CASE Valid # 0
    <3>1. Valid \in 1..Valid /\ Valid > 0
      BY <1>3, <2>2
    <3>2. file[Valid].body.kind = "trailer" <=> Valid = Len(log) + 1
      BY <1>1, <1>6, <3>1, BodyTypes
    <3> QED
      BY <3>1, <3>2 DEF TrailerPresent
  <2> QED
    BY <2>1, <2>2
<1>8. /\ Kept \in 0..Len(log) /\ Kept <= Valid
      /\ TrailerPresent => Kept = Len(log) /\ WrittenAs(log, file[Valid], Valid)
  BY <1>1, <1>3, <1>4, <1>5, <1>7 DEF Kept
<1>9. \A i \in 1..Kept : /\ WrittenAs(log, file[i], i) /\ file[i].state = "whole"
                         /\ file[i].body.payload = log[i] /\ log[i] \in Payloads
  <2> SUFFICES ASSUME NEW i \in 1..Kept
               PROVE  /\ WrittenAs(log, file[i], i) /\ file[i].state = "whole"
                      /\ file[i].body.payload = log[i] /\ log[i] \in Payloads
    OBVIOUS
  <2>1. i \in 1..Valid /\ i \in 1..Len(log) /\ i \in 1..(Len(log) + 1) /\ i <= Len(log)
    BY <1>1, <1>3, <1>8
  <2> QED
    BY <1>1, <1>4, <1>6, <2>1, BodyTypes
<1>10. /\ Len(Recovered) = Kept /\ Recovered \in Seq(Payloads)
       /\ \A i \in 1..Kept : Recovered[i] = log[i]
  <2> DEFINE K == Kept
  <2>1. K \in Nat
    BY <1>1, <1>8
  <2>2. Recovered = [i \in 1..K |-> log[i]]
    BY <1>9 DEF Recovered
  <2>3. \A i \in 1..K : log[i] \in Payloads
    BY <1>9
  <2> HIDE DEF K
  <2>4. Len(Recovered) = K /\ Recovered \in Seq(Payloads) /\ \A i \in 1..K : Recovered[i] = log[i]
    BY <2>1, <2>2, <2>3
  <2> QED
    BY <2>4 DEF K
<1> QED
  BY <1>3, <1>7, <1>8, <1>9, <1>10

----------------------------------------------------------------------------
(* What the invariant means for a reader of the file. *)

LEMMA PrefixFromElements ==
  ASSUME NEW S, NEW s \in Seq(S), NEW t \in Seq(S), Len(s) <= Len(t),
         \A i \in 1..Len(s) : s[i] = t[i]
  PROVE  IsPrefix(s, t)
<1>1. Len(s) \in Nat /\ Len(t) \in Nat
  OBVIOUS
<1>2. /\ SubSeq(s, 1, Len(s)) \in Seq(S) /\ Len(SubSeq(s, 1, Len(s))) = Len(s)
      /\ \A i \in 1..Len(s) : SubSeq(s, 1, Len(s))[i] = s[i]
  BY <1>1
<1>3. /\ SubSeq(t, 1, Len(s)) \in Seq(S) /\ Len(SubSeq(t, 1, Len(s))) = Len(s)
      /\ \A i \in 1..Len(s) : SubSeq(t, 1, Len(s))[i] = t[i]
  BY <1>1
<1>4. SubSeq(s, 1, Len(s)) = SubSeq(t, 1, Len(s))
  <2> DEFINE a == SubSeq(s, 1, Len(s))
             b == SubSeq(t, 1, Len(s))
  <2>1. /\ a \in Seq(S) /\ b \in Seq(S) /\ Len(a) = Len(b)
        /\ \A i \in 1..Len(a) : a[i] = b[i]
    BY <1>2, <1>3
  <2> HIDE DEF a, b
  <2>2. a = b
    BY <2>1, SeqEqual
  <2> QED
    BY <2>2 DEF a, b
<1> QED
  BY <1>4 DEF IsPrefix

LEMMA PrefixHolds == Types /\ AllGenuine => RecoveredIsPrefix
<1> SUFFICES ASSUME Types, AllGenuine
             PROVE  IsPrefix(Recovered, log)
  BY DEF RecoveredIsPrefix
<1>1. /\ Recovered \in Seq(Payloads) /\ log \in Seq(Payloads)
      /\ Len(Recovered) <= Len(log) /\ \A i \in 1..Len(Recovered) : Recovered[i] = log[i]
  BY KeptIsBeginning DEF Types
<1> QED
  BY <1>1, PrefixFromElements

LEMMA CompleteHolds == Types /\ AllGenuine => TrailerMeansComplete
<1> SUFFICES ASSUME Types, AllGenuine, TrailerPresent
             PROVE  Recovered = log
  BY DEF TrailerMeansComplete
<1>1. /\ Recovered \in Seq(Payloads) /\ log \in Seq(Payloads)
      /\ Len(Recovered) = Len(log) /\ \A i \in 1..Len(Recovered) : Recovered[i] = log[i]
  BY KeptIsBeginning DEF Types
<1> QED
  BY <1>1, SeqEqual

(* Nothing altered: load_store trusts every record but a torn one at the     *)
(* end.                                                                      *)
LEMMA InPlaceTrusted ==
  ASSUME Types, AllGenuine, InPlace, isOpen \/ tampers = 0,
         NEW n \in 0..Len(file), \A i \in 1..n : file[i].state = "whole"
  PROVE  n <= Valid
<1>1. Len(file) \in Nat /\ DOMAIN file = 1..Len(file) /\ Len(log) \in Nat /\ log \in Seq(Payloads)
  BY DEF Types
<1>2. \A i \in 1..Len(file) : WrittenAs(log, file[i], i)
  BY <1>1 DEF InPlace
<1>3. Len(file) <= Len(log) + 1
  <2>1. CASE Len(file) = 0
    BY <1>1, <2>1
  <2>2. CASE Len(file) # 0
    <3>1. WrittenAs(log, file[Len(file)], Len(file))
      BY <1>1, <1>2, <2>2
    <3> QED
      BY <1>1, <3>1 DEF WrittenAs, ChainAt
  <2> QED
    BY <2>1, <2>2
<1>4. ASSUME NEW i \in 1..n
      PROVE  Readable(i)
  <2>1. i \in 1..Len(file) /\ i \in 1..(Len(log) + 1) /\ i - 1 \in 0..Len(log) /\ (i - 1) + 1 = i
    BY <1>1, <1>3
  <2>2. ChainAt(log, file[i].chain, i) /\ file[i].body = BodyAt(log, i)
    BY <1>2, <2>1 DEF WrittenAs
  <2>3. Before(i) \in Seq(Bodies) /\ ChainAt(log, Before(i), i - 1)
    <3>1. CASE i = 1
      BY <1>1, <3>1, ChainEmpty DEF Before
    <3>2. CASE i # 1
      <4>1. i - 1 \in 1..Len(file)
        BY <1>1, <2>1, <3>2
      <4> QED
        BY <1>2, <3>2, <4>1, ChunkTypes DEF Before, WrittenAs
    <3> QED
      BY <3>1, <3>2
  <2>4. /\ Append(Before(i), BodyAt(log, i)) \in Seq(Bodies)
        /\ ChainAt(log, Append(Before(i), BodyAt(log, i)), i)
    <3>1. \A k \in 0..Len(log) : ChainAt(log, Before(i), k) =>
              /\ Append(Before(i), BodyAt(log, k + 1)) \in Seq(Bodies)
              /\ ChainAt(log, Append(Before(i), BodyAt(log, k + 1)), k + 1)
      BY <1>1, <2>3, ChainAppend
    <3> QED
      BY <2>1, <2>3, <3>1
  <2>5. file[i].chain = Append(Before(i), BodyAt(log, i))
    BY <2>1, <2>2, <2>4, ChunkTypes, ChainUnique
  <2> QED
    BY <2>2, <2>5 DEF Readable
<1>5. ASSUME NEW i \in 1..(n - 1)
      PROVE  file[i].body.kind = "data"
  <2>1. i \in 1..Len(file) /\ i \in 1..(Len(log) + 1) /\ i <= Len(log)
    BY <1>1, <1>3
  <2> QED
    BY <1>1, <1>2, <2>1, BodyTypes DEF WrittenAs
<1>6. n \in Trusted
  BY <1>4, <1>5 DEF Trusted
<1> QED
  BY <1>6, ValidIsMost

LEMMA FlushHolds == IInv => FlushedSurvives
<1> SUFFICES ASSUME IInv, tampers = 0
             PROVE  IF Loads THEN acked <= Len(Recovered) ELSE acked = 0
  BY DEF FlushedSurvives
<1> USE DEF IInv
<1>1. Len(file) \in Nat /\ Len(log) \in Nat /\ acked \in 0..Len(log) /\ acked <= Len(file)
  BY DEF Types, AckedOnDisk
<1>2. CASE Loads
  <2>1. acked <= Valid
    <3>1. acked \in 0..Len(file) /\ \A i \in 1..acked : file[i].state = "whole"
      BY <1>1 DEF AckedOnDisk, Types
    <3> QED
      BY <3>1, InPlaceTrusted
  <2>2. Len(Recovered) = Kept /\ (TrailerPresent => Kept = Len(log))
    BY KeptIsBeginning
  <2>3. CASE TrailerPresent
    BY <1>1, <1>2, <2>2, <2>3
  <2>4. CASE ~TrailerPresent
    BY <1>1, <1>2, <2>1, <2>2, <2>4 DEF Kept
  <2> QED
    BY <2>3, <2>4
<1>3. CASE ~Loads
  <2>1. header \in {"none", "short"}
    BY <1>3 DEF Loads, HeaderDecodes, AckedOnDisk
  <2>2. file = <<>>
    BY <2>1 DEF Types
  <2>3. acked <= 0
    BY <2>2 DEF AckedOnDisk
  <2> QED
    BY <1>1, <1>3, <2>3
<1> QED
  BY <1>2, <1>3

LEMMA CrashHolds == IInv => CrashIsNotCorruption
<1> SUFFICES ASSUME IInv, tampers = 0
             PROVE  ~(MidFileCorruption \/ CorruptTailRecord \/ TrailerMismatch)
  BY DEF CrashIsNotCorruption
<1> USE DEF IInv
<1>1. /\ Len(file) \in Nat /\ DOMAIN file = 1..Len(file) /\ Len(log) \in Nat
      /\ log \in Seq(Payloads) /\ Valid \in 0..Len(file)
  BY KeptIsBeginning DEF Types
<1>2. Mistrusted = {}
  <2> SUFFICES ASSUME NEW i \in GivenUp, file[i].state \notin {"torn", "overlong"}
               PROVE  FALSE
    BY DEF Mistrusted
  <2>1. i = Valid + 1 /\ i \in 1..Len(file)
    BY <1>1 DEF GivenUp
  <2>2. file[i].state = "whole"
    BY <1>1, <2>1 DEF InPlace
  <2>3. \A j \in 1..i : file[j].state = "whole"
    <3>1. \A j \in 1..i : j = i \/ (j \in DOMAIN file /\ j < Len(file))
      BY <1>1, <2>1
    <3> QED
      BY <2>2, <3>1 DEF InPlace
  <2>4. i <= Valid
    <3>1. i \in 0..Len(file)
      BY <1>1, <2>1
    <3> QED
      BY <2>3, <3>1, InPlaceTrusted
  <2> QED
    BY <1>1, <2>1, <2>4
<1>3. ~TrailerMismatch
  <2> SUFFICES ASSUME TrailerPresent
               PROVE  file[Valid].body.count = Kept /\ file[Valid].body.root = Before(Valid)
    BY DEF TrailerMismatch
  <2>1. Valid = Len(log) + 1 /\ Kept = Len(log) /\ WrittenAs(log, file[Valid], Valid)
    BY KeptIsBeginning
  <2>2. file[Valid].body = End(log)
    BY <1>1, <2>1, BodyTypes DEF WrittenAs
  <2>3. Before(Valid) \in Seq(Bodies) /\ ChainAt(log, Before(Valid), Len(log))
    <3>1. CASE Valid = 1
      <4>1. Len(log) = 0 /\ Before(Valid) = <<>>
        BY <1>1, <2>1, <3>1 DEF Before
      <4> QED
        BY <1>1, <4>1, ChainEmpty
    <3>2. CASE Valid # 1
      <4>1. Valid - 1 \in 1..Len(file) /\ Valid - 1 = Len(log) /\ Valid - 1 \in 1..Kept
        BY <1>1, <2>1, <3>2
      <4>2. WrittenAs(log, file[Valid - 1], Valid - 1)
        BY <4>1, KeptIsBeginning
      <4> QED
        BY <3>2, <4>1, <4>2, ChunkTypes DEF Before, WrittenAs
    <3> QED
      BY <3>1, <3>2
  <2>4. Before(Valid) = End(log).root
    <3> DEFINE r == [j \in 1..Len(log) |-> Data(log[j])]
    <3>1. \A j \in 1..Len(log) : BodyAt(log, j) = Data(log[j]) /\ BodyAt(log, j) \in Bodies
      <4>1. \A j \in 1..Len(log) : j \in 1..(Len(log) + 1) /\ j <= Len(log)
        BY <1>1
      <4> QED
        BY <1>1, <4>1, BodyTypes
    <3>2. r \in Seq(Bodies) /\ Len(r) = Len(log) /\ \A j \in 1..Len(log) : r[j] = BodyAt(log, j)
      BY <1>1, <3>1
    <3> HIDE DEF r
    <3>3. ChainAt(log, r, Len(log))
      BY <1>1, <3>2 DEF ChainAt
    <3>4. Before(Valid) = r
      BY <2>3, <3>2, <3>3, ChainUnique
    <3> QED
      BY <3>4 DEF End, r
  <2> QED
    BY <2>1, <2>2, <2>4 DEF End
<1> QED
  BY <1>2, <1>3 DEF MidFileCorruption, CorruptTailRecord

----------------------------------------------------------------------------
(* The writer. *)

LEMMA InitIInv == Init => IInv
<1> SUFFICES ASSUME Init
             PROVE  IInv
  OBVIOUS
<1>1. Types
  <2>1. MaxRecords \in Nat /\ MaxTampers \in Nat
    BY StoreAssumption
  <2>2. <<>> \in Seq(Chunks) /\ <<>> \in Seq(Bodies) /\ <<>> \in Seq(Payloads)
    OBVIOUS
  <2>3. /\ log \in Seq(Payloads) /\ Len(log) = 0 /\ acked = 0 /\ acked \in 0..Len(log)
        /\ file \in Seq(Chunks) /\ pending \in Seq(Chunks) /\ chain \in Seq(Bodies)
    BY <2>2 DEF Init
  <2>4. count \in 0..MaxRecords /\ tampers \in 0..MaxTampers /\ Len(log) <= MaxRecords
    BY <2>1, <2>3 DEF Init
  <2>5. header = "none" /\ file = <<>> /\ isOpen \in BOOLEAN
    BY DEF Init
  <2> QED
    BY <2>3, <2>4, <2>5 DEF Types
<1> QED
  BY <1>1 DEF Init, IInv, AllGenuine, InPlace, WriterInPlace, AckedOnDisk

(* What is known while a writer has the file open. *)
LEMMA UnderWriter ==
  ASSUME IInv, isOpen
  PROVE  /\ file \in Seq(Chunks) /\ pending \in Seq(Chunks) /\ chain \in Seq(Bodies)
         /\ log \in Seq(Payloads) /\ Len(log) \in Nat /\ Len(log) <= MaxRecords
         /\ Len(file) \in Nat /\ Len(pending) \in Nat /\ Len(chain) \in Nat
         /\ Len(chain) = Len(file) + Len(pending)
         /\ Len(chain) <= Len(log) + 1 /\ Len(log) <= Len(chain)
         /\ header \in {"short", "whole"} /\ (header = "short" => file = <<>>)
         /\ count = Len(log) /\ acked \in 0..Len(log) /\ tampers \in 0..MaxTampers
         /\ ChainAt(log, chain, Len(chain))
         /\ \A i \in 1..Len(file) : WrittenAs(log, file[i], i) /\ file[i].state = "whole"
         /\ \A i \in 1..Len(pending) : /\ WrittenAs(log, pending[i], Len(file) + i)
                                       /\ pending[i].state = "whole"
         /\ Sealed <=> Len(chain) = Len(log) + 1
<1>1. /\ file \in Seq(Chunks) /\ pending \in Seq(Chunks) /\ chain \in Seq(Bodies)
      /\ log \in Seq(Payloads) /\ Len(log) \in Nat /\ Len(log) <= MaxRecords
      /\ Len(file) \in Nat /\ Len(pending) \in Nat /\ Len(chain) \in Nat
      /\ acked \in 0..Len(log) /\ tampers \in 0..MaxTampers
  BY DEF IInv, Types
<1>2. /\ Len(chain) = Len(file) + Len(pending) /\ Len(log) <= Len(chain)
      /\ header \in {"short", "whole"} /\ count = Len(log)
      /\ ChainAt(log, chain, Len(chain))
      /\ \A i \in DOMAIN pending : /\ WrittenAs(log, pending[i], Len(file) + i)
                                   /\ pending[i].state = "whole"
  BY DEF IInv, WriterInPlace
<1>3. header = "short" => file = <<>>
  BY DEF IInv, Types
<1>4. \A i \in 1..Len(file) : WrittenAs(log, file[i], i) /\ file[i].state = "whole"
  BY <1>1 DEF IInv, InPlace
<1>5. Len(chain) <= Len(log) + 1
  BY <1>1, <1>2 DEF ChainAt
<1>6. Sealed <=> Len(chain) = Len(log) + 1
  <2>1. CASE chain = <<>>
    BY <1>1, <2>1 DEF Sealed
  <2>2. CASE chain # <<>>
    <3>1. Len(chain) \in 1..Len(chain) /\ Len(chain) \in 1..(Len(log) + 1)
      BY <1>1, <1>5, <2>2
    <3>2. Last(chain) = BodyAt(log, Len(chain))
      BY <1>2, <3>1 DEF ChainAt, Last
    <3>3. BodyAt(log, Len(chain)).kind = "trailer" <=> Len(chain) = Len(log) + 1
      BY <1>1, <3>1, BodyTypes
    <3> QED
      BY <2>2, <3>2, <3>3 DEF Sealed
  <2> QED
    BY <2>1, <2>2
<1> QED
  BY <1>1, <1>2, <1>3, <1>4, <1>5, <1>6

(* The file with more of what was written behind it. *)
LEMMA FileExtended ==
  ASSUME IInv, isOpen, NEW more \in Seq(Chunks),
         \A i \in 1..Len(more) : WrittenAs(log, more[i], Len(file) + i) /\ more[i].state = "whole"
  PROVE  /\ file \o more \in Seq(Chunks) /\ Len(file \o more) = Len(file) + Len(more)
         /\ \A i \in 1..Len(file \o more) :
              WrittenAs(log, (file \o more)[i], i) /\ (file \o more)[i].state = "whole"
<1>1. file \in Seq(Chunks) /\ Len(file) \in Nat /\ Len(more) \in Nat
  BY UnderWriter
<1>2. /\ file \o more \in Seq(Chunks) /\ Len(file \o more) = Len(file) + Len(more)
      /\ \A i \in 1..(Len(file) + Len(more)) :
           (file \o more)[i] = IF i <= Len(file) THEN file[i] ELSE more[i - Len(file)]
  BY <1>1, ConcatProperties
<1> DEFINE f == file \o more
<1> HIDE DEF f
<1>3. ASSUME NEW i \in 1..(Len(file) + Len(more))
      PROVE  WrittenAs(log, f[i], i) /\ f[i].state = "whole"
  <2>1. CASE i <= Len(file)
    <3>1. f[i] = file[i] /\ i \in 1..Len(file)
      BY <1>1, <1>2, <2>1 DEF f
    <3> QED
      BY <3>1, UnderWriter
  <2>2. CASE ~(i <= Len(file))
    <3>1. f[i] = more[i - Len(file)] /\ i - Len(file) \in 1..Len(more) /\ Len(file) + (i - Len(file)) = i
      BY <1>1, <1>2, <2>2 DEF f
    <3>2. WrittenAs(log, more[i - Len(file)], Len(file) + (i - Len(file)))
      BY <3>1
    <3> QED
      BY <3>1, <3>2
  <2> QED
    BY <2>1, <2>2
<1> QED
  BY <1>2, <1>3 DEF f

(* A file in which everything is where it was written. *)
LEMMA OrderedFile ==
  ASSUME NEW l \in Seq(Payloads), NEW f \in Seq(Chunks),
         \A i \in 1..Len(f) : WrittenAs(l, f[i], i)
  PROVE  \A i \in DOMAIN f : Genuine(l, f[i])
<1>1. ASSUME NEW i \in 1..Len(f)
      PROVE  Genuine(l, f[i])
  <2>1. WrittenAs(l, f[i], i)
    OBVIOUS
  <2>2. i \in 1..(Len(l) + 1)
    BY <2>1 DEF WrittenAs, ChainAt
  <2> QED
    BY <2>1, <2>2 DEF Genuine
<1> QED
  BY <1>1

LEMMA CreateStep == IInv /\ Create => IInv'
<1> SUFFICES ASSUME IInv, Create
             PROVE  IInv'
  OBVIOUS
<1>1. Types'
  BY StoreAssumption DEF IInv, Types, Create
<1>2. ChainAt(<<>>, <<>>, 0)
  <2>1. <<>> \in Seq(Payloads)
    OBVIOUS
  <2> QED
    BY <2>1, ChainEmpty
<1>3. WriterInPlace'
  BY <1>2 DEF Create, WriterInPlace
<1> QED
  BY <1>1, <1>3 DEF Create, IInv, AllGenuine, InPlace, AckedOnDisk

LEMMA AppendStep ==
  ASSUME IInv, NEW v \in Payloads, AppendRecord(v)
  PROVE  IInv'
<1>0. isOpen /\ ~Sealed /\ count < MaxRecords
  BY DEF AppendRecord
<1>1. /\ pending' = Append(pending, Chunk(Data(v))) /\ chain' = Append(chain, Data(v))
      /\ count' = count + 1 /\ log' = Append(log, v)
      /\ UNCHANGED <<header, file, isOpen, acked, tampers>>
  BY DEF AppendRecord
<1>2. /\ Len(chain) = Len(log) /\ Len(log) \in Nat /\ log \in Seq(Payloads) /\ chain \in Seq(Bodies)
      /\ Len(file) \in Nat /\ Len(pending) \in Nat /\ Len(file) + Len(pending) = Len(log)
      /\ file \in Seq(Chunks) /\ pending \in Seq(Chunks) /\ count = Len(log)
  BY <1>0, UnderWriter
<1>3. /\ log' \in Seq(Payloads) /\ Len(log') = Len(log) + 1
      /\ \A j \in 1..Len(log) : log'[j] = log[j]
      /\ log'[Len(log) + 1] = v
  BY <1>1, <1>2
<1> DEFINE k == Len(log)
<1>a. Agree(log, log', k)
  BY <1>2, <1>3 DEF Agree
<1> HIDE DEF k
<1>4. ASSUME NEW c, NEW n \in 1..Len(log), WrittenAs(log, c, n)
      PROVE  WrittenAs(log', c, n)
  <2>1. n \in 0..k /\ n \in 1..k
    BY <1>2 DEF k
  <2>2. ChainAt(log', c.chain, n) /\ BodyAt(log', n) = BodyAt(log, n)
    BY <1>2, <1>3, <1>a, <1>4, <2>1, SameBeginning DEF WrittenAs
  <2> QED
    BY <1>4, <2>2 DEF WrittenAs
<1>5. Data(v) = BodyAt(log', Len(log) + 1) /\ Data(v) \in Bodies
  <2>1. Len(log) + 1 \in 1..(Len(log') + 1) /\ Len(log) + 1 <= Len(log')
    BY <1>2, <1>3
  <2> QED
    BY <1>3, <2>1, BodyTypes
<1>6. /\ chain' \in Seq(Bodies) /\ ChainAt(log', chain', Len(log) + 1)
      /\ Len(chain') = Len(log) + 1
  <2>1. ChainAt(log', chain, Len(log))
    <3>1. Len(log) \in 0..k /\ ChainAt(log, chain, Len(log))
      BY <1>0, <1>2, UnderWriter DEF k
    <3> QED
      BY <1>2, <1>3, <1>a, <3>1, SameBeginning
  <2>2. Len(log) \in 0..Len(log')
    BY <1>2, <1>3
  <2>3. chain' \in Seq(Bodies) /\ ChainAt(log', chain', Len(log) + 1)
    BY <1>1, <1>2, <1>3, <1>5, <2>1, <2>2, ChainAppend
  <2> QED
    BY <2>3 DEF ChainAt
<1> DEFINE c == Chunk(Data(v))
<1>7. c \in Chunks /\ WrittenAs(log', c, Len(log) + 1) /\ c.state = "whole"
  <2>1. c = [body |-> Data(v), chain |-> chain', state |-> "whole"]
    BY <1>1 DEF Chunk
  <2>2. c \in Chunks
    BY <1>5, <1>6, <2>1 DEF Chunks, States
  <2> QED
    BY <1>5, <1>6, <2>1, <2>2 DEF WrittenAs
<1> HIDE DEF c
<1>8. /\ pending' \in Seq(Chunks) /\ Len(pending') = Len(pending) + 1
      /\ \A i \in 1..Len(pending) : pending'[i] = pending[i]
      /\ pending'[Len(pending) + 1] = c
  BY <1>1, <1>2, <1>7 DEF c
<1>9. Types'
  <2>1. MaxRecords \in Nat /\ MaxTampers \in Nat
    BY StoreAssumption
  <2>2. count' \in 0..MaxRecords /\ Len(log') <= MaxRecords /\ acked' \in 0..Len(log')
    BY <1>0, <1>1, <1>2, <1>3, <2>1 DEF IInv, Types
  <2> QED
    BY <1>1, <1>3, <1>6, <1>8, <2>2 DEF IInv, Types
<1>10. \A i \in 1..Len(file) : WrittenAs(log', file[i], i) /\ file[i].state = "whole"
  <2>1. \A i \in 1..Len(file) : i \in 1..Len(log)
    BY <1>2
  <2> QED
    BY <1>0, <1>4, <2>1, UnderWriter
<1>11. ASSUME NEW i \in 1..Len(pending')
       PROVE  WrittenAs(log', pending'[i], Len(file) + i) /\ pending'[i].state = "whole"
  <2>1. CASE i \in 1..Len(pending)
    <3>1. Len(file) + i \in 1..Len(log)
      BY <1>2, <2>1
    <3> QED
      BY <1>0, <1>4, <1>8, <2>1, <3>1, UnderWriter
  <2>2. CASE i = Len(pending) + 1
    <3>1. Len(file) + i = Len(log) + 1
      BY <1>2, <2>2
    <3> QED
      BY <1>7, <1>8, <2>2, <3>1
  <2> QED
    BY <1>2, <1>8, <2>1, <2>2
<1>12. WriterInPlace'
  <2>1. Len(chain') = Len(file') + Len(pending') /\ Len(log') <= Len(chain') /\ count' = Len(log')
    BY <1>1, <1>2, <1>3, <1>6, <1>8
  <2>2. header' \in {"short", "whole"} /\ isOpen'
    BY <1>0, <1>1, UnderWriter
  <2>3. DOMAIN pending' = 1..Len(pending')
    BY <1>8
  <2> QED
    BY <1>1, <1>6, <1>11, <2>1, <2>2, <2>3 DEF WriterInPlace
<1>13. AllGenuine' /\ InPlace'
  <2>1. DOMAIN file = 1..Len(file)
    BY <1>2
  <2> QED
    BY <1>1, <1>2, <1>3, <1>10, <2>1, OrderedFile DEF AllGenuine, InPlace
<1>14. AckedOnDisk'
  BY <1>1 DEF IInv, AckedOnDisk
<1> QED
  BY <1>9, <1>12, <1>13, <1>14 DEF IInv

(* What Flush, Close and AppendTrailer have in common: everything written    *)
(* is on disk, and the buffer is empty.                                      *)
LEMMA FlushedStep ==
  ASSUME IInv, isOpen, NEW more \in Seq(Chunks), Flushed(more),
         \A i \in 1..Len(more) : WrittenAs(log, more[i], Len(file) + i) /\ more[i].state = "whole",
         chain' \in Seq(Bodies), ChainAt(log, chain', Len(chain')),
         Len(chain') = Len(file) + Len(more), Len(log) <= Len(chain'),
         isOpen' \in BOOLEAN, UNCHANGED <<count, log, tampers>>
  PROVE  IInv'
<1>1. /\ header' = "whole" /\ file' = file \o more /\ pending' = <<>> /\ acked' = Len(log)
      /\ log' = log /\ count' = count /\ tampers' = tampers
  BY DEF Flushed
<1>2. /\ log \in Seq(Payloads) /\ Len(log) \in Nat /\ Len(log) <= MaxRecords
      /\ count = Len(log) /\ tampers \in 0..MaxTampers /\ count \in 0..MaxRecords
      /\ Len(file) \in Nat /\ Len(more) \in Nat
  BY UnderWriter DEF IInv, Types
<1>3. /\ file' \in Seq(Chunks) /\ Len(file') = Len(file) + Len(more)
      /\ \A i \in 1..Len(file') : WrittenAs(log, file'[i], i) /\ file'[i].state = "whole"
  BY <1>1, FileExtended
<1>4. DOMAIN file' = 1..Len(file')
  BY <1>3
<1>5. pending' \in Seq(Chunks) /\ Len(pending') = 0
  BY <1>1
<1>6. Types'
  <2>1. acked' \in 0..Len(log)
    BY <1>1, <1>2
  <2> QED
    BY <1>1, <1>2, <1>3, <1>5, <2>1 DEF Types
<1>7. AllGenuine' /\ InPlace'
  BY <1>1, <1>2, <1>3, <1>4, OrderedFile DEF AllGenuine, InPlace
<1>8. WriterInPlace'
  <2>1. Len(chain') = Len(file') + Len(pending')
    BY <1>2, <1>3, <1>5
  <2>2. DOMAIN pending' = {}
    BY <1>1
  <2> QED
    BY <1>1, <1>2, <2>1, <2>2 DEF WriterInPlace
<1>9. AckedOnDisk'
  <2>1. acked' <= Len(file')
    BY <1>1, <1>2, <1>3
  <2> QED
    BY <1>1, <1>3, <1>4, <2>1 DEF AckedOnDisk
<1> QED
  BY <1>6, <1>7, <1>8, <1>9 DEF IInv

LEMMA FlushStep == IInv /\ (Flush \/ Close) => IInv'
<1> SUFFICES ASSUME IInv, Flush \/ Close
             PROVE  IInv'
  OBVIOUS
<1>1. isOpen /\ Flushed(pending) /\ UNCHANGED <<chain, count, log, tampers>>
  BY DEF Flush, Close, writerVars
<1>2. isOpen' \in BOOLEAN
  BY DEF Flush, Close, writerVars, IInv, Types
<1> QED
  BY <1>1, <1>2, FlushedStep, UnderWriter

LEMMA TrailerStep == IInv /\ AppendTrailer => IInv'
<1> SUFFICES ASSUME IInv, AppendTrailer
             PROVE  IInv'
  OBVIOUS
<1>1. /\ isOpen /\ ~Sealed /\ Flushed(Append(pending, Chunk(Trailer)))
      /\ chain' = Append(chain, Trailer) /\ UNCHANGED <<isOpen, count, log, tampers>>
  BY DEF AppendTrailer
<1>2. /\ Len(chain) = Len(log) /\ Len(log) \in Nat /\ log \in Seq(Payloads) /\ chain \in Seq(Bodies)
      /\ Len(file) \in Nat /\ Len(pending) \in Nat /\ Len(file) + Len(pending) = Len(log)
      /\ pending \in Seq(Chunks) /\ count = Len(log) /\ ChainAt(log, chain, Len(log))
  <2>1. Len(chain) = Len(log)
    BY <1>1, UnderWriter
  <2> QED
    BY <1>1, <2>1, UnderWriter
<1>3. Trailer = End(log)
  <2> DEFINE r == [j \in 1..Len(log) |-> Data(log[j])]
  <2>1. \A j \in 1..Len(log) : BodyAt(log, j) = Data(log[j]) /\ BodyAt(log, j) \in Bodies
    <3>1. \A j \in 1..Len(log) : j \in 1..(Len(log) + 1) /\ j <= Len(log)
      BY <1>2
    <3> QED
      BY <1>2, <3>1, BodyTypes
  <2>2. r \in Seq(Bodies) /\ Len(r) = Len(log) /\ \A j \in 1..Len(log) : r[j] = BodyAt(log, j)
    BY <1>2, <2>1
  <2> HIDE DEF r
  <2>3. ChainAt(log, r, Len(log))
    BY <1>2, <2>2 DEF ChainAt
  <2>4. chain = r
    BY <1>2, <2>2, <2>3, ChainUnique
  <2> QED
    BY <1>2, <2>4 DEF Trailer, End, r
<1>4. BodyAt(log, Len(log) + 1) = Trailer /\ Trailer \in Bodies
  <2>1. Len(log) + 1 \in 1..(Len(log) + 1)
    BY <1>2
  <2> QED
    BY <1>2, <1>3, <2>1, BodyTypes
<1>5. chain' \in Seq(Bodies) /\ ChainAt(log, chain', Len(log) + 1) /\ Len(chain') = Len(log) + 1
  <2>1. chain' \in Seq(Bodies) /\ ChainAt(log, chain', Len(log) + 1)
    <3>1. Len(log) \in 0..Len(log)
      BY <1>2
    <3> QED
      BY <1>1, <1>2, <1>4, <3>1, ChainAppend
  <2> QED
    BY <2>1 DEF ChainAt
<1> DEFINE c == Chunk(Trailer)
           more == Append(pending, c)
<1>6. c \in Chunks /\ WrittenAs(log, c, Len(log) + 1) /\ c.state = "whole"
  <2>1. c = [body |-> Trailer, chain |-> chain', state |-> "whole"]
    BY <1>1 DEF Chunk
  <2> HIDE DEF c
  <2>2. c \in Chunks
    BY <1>4, <1>5, <2>1 DEF Chunks, States
  <2> QED
    BY <1>4, <1>5, <2>1, <2>2 DEF WrittenAs
<1>7. Flushed(more)
  BY <1>1
<1> HIDE DEF c
<1>8. /\ more \in Seq(Chunks) /\ Len(more) = Len(pending) + 1
      /\ \A i \in 1..Len(pending) : more[i] = pending[i]
      /\ more[Len(pending) + 1] = c
  BY <1>2, <1>6
<1> HIDE DEF more
<1>9. ASSUME NEW i \in 1..Len(more)
      PROVE  WrittenAs(log, more[i], Len(file) + i) /\ more[i].state = "whole"
  <2>1. CASE i \in 1..Len(pending)
    BY <1>1, <1>8, <2>1, UnderWriter
  <2>2. CASE i = Len(pending) + 1
    <3>1. Len(file) + i = Len(log) + 1
      BY <1>2, <2>2
    <3> QED
      BY <1>6, <1>8, <2>2, <3>1
  <2> QED
    BY <1>2, <1>8, <2>1, <2>2
<1>10. /\ Len(chain') = Len(file) + Len(more) /\ Len(log) <= Len(chain')
       /\ ChainAt(log, chain', Len(chain')) /\ isOpen' \in BOOLEAN
  <2>1. Len(chain') = Len(file) + Len(more) /\ Len(log) <= Len(chain')
    BY <1>2, <1>5, <1>8
  <2>2. ChainAt(log, chain', Len(chain'))
    BY <1>5
  <2>3. isOpen' \in BOOLEAN
    BY <1>1
  <2> QED
    BY <2>1, <2>2, <2>3
<1> QED
  BY <1>1, <1>5, <1>7, <1>8, <1>9, <1>10, FlushedStep

LEMMA SpillStep == IInv /\ Spill => IInv'
<1> SUFFICES ASSUME IInv, Spill
             PROVE  IInv'
  OBVIOUS
<1>1. isOpen /\ UNCHANGED <<isOpen, chain, count, log, acked, tampers>>
  BY DEF Spill, writerVars
<1>2. CASE header = "short" /\ header' = "whole" /\ UNCHANGED <<file, pending>>
  <2>1. Types' /\ AckedOnDisk'
    BY <1>1, <1>2 DEF IInv, Types, AckedOnDisk
  <2>2. AllGenuine' /\ InPlace' /\ WriterInPlace'
    BY <1>1, <1>2 DEF IInv, AllGenuine, InPlace, WriterInPlace
  <2> QED
    BY <2>1, <2>2 DEF IInv
<1>3. CASE /\ header = "whole" /\ pending # <<>> /\ header' = header
           /\ file' = Append(file, Head(pending)) /\ pending' = Tail(pending)
  <2>1. /\ pending \in Seq(Chunks) /\ Len(pending) \in Nat \ {0} /\ file \in Seq(Chunks)
        /\ Len(file) \in Nat /\ log \in Seq(Payloads) /\ DOMAIN file = 1..Len(file)
        /\ Len(chain) = Len(file) + Len(pending)
    BY <1>1, <1>3, UnderWriter
  <2> DEFINE h == Head(pending)
  <2>2. h = pending[1] /\ h \in Chunks /\ 1 \in 1..Len(pending)
    BY <2>1
  <2>3. WrittenAs(log, h, Len(file) + 1) /\ h.state = "whole"
    BY <1>1, <2>2, UnderWriter
  <2> HIDE DEF h
  <2>4. /\ file' \in Seq(Chunks) /\ Len(file') = Len(file) + 1
        /\ \A i \in 1..Len(file) : file'[i] = file[i]
        /\ file'[Len(file) + 1] = h
    BY <1>3, <2>1, <2>2 DEF h
  <2>5. /\ pending' \in Seq(Chunks) /\ Len(pending') = Len(pending) - 1
        /\ \A i \in 1..(Len(pending) - 1) : pending'[i] = pending[i + 1]
    BY <1>3, <2>1
  <2>6. ASSUME NEW i \in 1..Len(file')
        PROVE  WrittenAs(log, file'[i], i) /\ file'[i].state = "whole"
    <3>1. CASE i \in 1..Len(file)
      BY <1>1, <2>4, <3>1, UnderWriter
    <3>2. CASE i = Len(file) + 1
      BY <2>3, <2>4, <3>2
    <3> QED
      BY <2>1, <2>4, <3>1, <3>2
  <2>7. ASSUME NEW i \in 1..Len(pending')
        PROVE  WrittenAs(log, pending'[i], Len(file') + i) /\ pending'[i].state = "whole"
    <3>1. i + 1 \in 1..Len(pending) /\ i \in 1..(Len(pending) - 1) /\ Len(file) + (i + 1) = Len(file') + i
      BY <2>1, <2>4, <2>5
    <3>2. WrittenAs(log, pending[i + 1], Len(file) + (i + 1)) /\ pending[i + 1].state = "whole"
      BY <1>1, <3>1, UnderWriter
    <3>3. pending'[i] = pending[i + 1]
      BY <2>5, <3>1
    <3> QED
      BY <3>1, <3>2, <3>3
  <2>8. Len(chain') = Len(file') + Len(pending')
    BY <1>1, <2>1, <2>4, <2>5
  <2>9. DOMAIN file' = 1..Len(file') /\ DOMAIN pending' = 1..Len(pending')
    BY <2>4, <2>5
  <2>10. Types'
    BY <1>1, <1>3, <2>4, <2>5 DEF IInv, Types
  <2>11. AllGenuine' /\ InPlace'
    BY <1>1, <2>1, <2>4, <2>6, <2>9, OrderedFile DEF AllGenuine, InPlace
  <2>12. WriterInPlace'
    BY <1>1, <1>3, <2>7, <2>8, <2>9 DEF IInv, WriterInPlace
  <2>13. AckedOnDisk'
    <3>1. tampers = 0 => acked <= Len(file') /\ header # "damaged"
      <4>1. acked \in Nat
        BY DEF IInv, Types
      <4> QED
        BY <2>1, <2>4, <4>1 DEF IInv, AckedOnDisk
    <3> QED
      BY <1>1, <1>3, <2>6, <2>9, <3>1 DEF AckedOnDisk
  <2> QED
    BY <2>10, <2>11, <2>12, <2>13 DEF IInv
<1> QED
  BY <1>2, <1>3 DEF Spill

(* A crash leaves a beginning of the buffer, the last record perhaps torn.   *)
LEMMA CrashStep == IInv /\ Crash => IInv'
<1> SUFFICES ASSUME IInv, Crash
             PROVE  IInv'
  OBVIOUS
<1>1. /\ isOpen /\ isOpen' = FALSE /\ pending' = <<>>
      /\ UNCHANGED <<header, chain, count, log, acked, tampers>>
  BY DEF Crash
<1>2. /\ pending \in Seq(Chunks) /\ Len(pending) \in Nat /\ file \in Seq(Chunks)
      /\ Len(file) \in Nat /\ log \in Seq(Payloads) /\ DOMAIN file = 1..Len(file)
  BY <1>1, UnderWriter
<1>3. pending' \in Seq(Chunks) /\ WriterInPlace'
  BY <1>1 DEF WriterInPlace
<1>4. CASE file' = file
  <2>1. Types' /\ AckedOnDisk'
    BY <1>1, <1>3, <1>4 DEF IInv, Types, AckedOnDisk
  <2>2. AllGenuine' /\ InPlace'
    BY <1>1, <1>4 DEF IInv, AllGenuine, InPlace
  <2> QED
    BY <1>3, <2>1, <2>2 DEF IInv
<1>5. CASE /\ header = "whole" /\ pending # <<>>
           /\ file' = Append(file, [Head(pending) EXCEPT !.state = "torn"])
  <2> DEFINE h == Head(pending)
             t == [h EXCEPT !.state = "torn"]
  <2>1. h = pending[1] /\ h \in Chunks /\ 1 \in 1..Len(pending)
    BY <1>2, <1>5
  <2>2. WrittenAs(log, h, Len(file) + 1)
    BY <1>1, <2>1, UnderWriter
  <2> HIDE DEF h
  <2>3. t \in Chunks /\ t.state = "torn" /\ t.body = h.body /\ t.chain = h.chain
    BY <2>1 DEF Chunks, States
  <2>4. WrittenAs(log, t, Len(file) + 1)
    BY <2>2, <2>3 DEF WrittenAs
  <2>5. file' = Append(file, t)
    BY <1>5 DEF h
  <2> HIDE DEF t
  <2>6. /\ file' \in Seq(Chunks) /\ Len(file') = Len(file) + 1
        /\ \A i \in 1..Len(file) : file'[i] = file[i]
        /\ file'[Len(file) + 1] = t
    BY <1>2, <2>3, <2>5
  <2>7. ASSUME NEW i \in 1..Len(file')
        PROVE  /\ WrittenAs(log, file'[i], i) /\ file'[i].state \in {"whole", "torn"}
               /\ i < Len(file') => file'[i].state = "whole"
    <3>1. CASE i \in 1..Len(file)
      BY <1>1, <2>6, <3>1, UnderWriter
    <3>2. CASE i = Len(file) + 1
      BY <1>2, <2>3, <2>4, <2>6, <3>2
    <3> QED
      BY <1>2, <2>6, <3>1, <3>2
  <2>8. DOMAIN file' = 1..Len(file')
    BY <2>6
  <2>9. Types'
    BY <1>1, <1>3, <1>5, <2>6 DEF IInv, Types
  <2>10. AllGenuine' /\ InPlace'
    BY <1>1, <1>2, <2>6, <2>7, <2>8, OrderedFile DEF AllGenuine, InPlace
  <2>11. AckedOnDisk'
    <3>1. acked \in Nat
      BY DEF IInv, Types
    <3>2. tampers = 0 => acked <= Len(file)
      BY DEF IInv, AckedOnDisk
    <3>3. ASSUME tampers = 0, NEW i \in 1..Len(file'), i <= acked
          PROVE  file'[i].state = "whole"
      <4>1. i \in 1..Len(file)
        BY <1>2, <2>6, <3>1, <3>2, <3>3
      <4> QED
        BY <1>1, <2>6, <4>1, UnderWriter
    <3>4. tampers = 0 => acked <= Len(file')
      BY <1>2, <2>6, <3>1, <3>2
    <3> QED
      BY <1>1, <2>8, <3>3, <3>4 DEF IInv, AckedOnDisk
  <2> QED
    BY <1>3, <2>9, <2>10, <2>11 DEF IInv
<1> QED
  BY <1>4, <1>5 DEF Crash

(* Reopening keeps what load_store returns, and continues its chain.         *)
LEMMA ReopenStep ==
  ASSUME IInv, NEW repair \in BOOLEAN, Reopen(repair)
  PROVE  IInv'
<1>1. /\ ~isOpen /\ Loads /\ file' = SubSeq(file, 1, Kept) /\ isOpen' = TRUE
      /\ chain' = (IF Kept = 0 THEN <<>> ELSE file[Kept].chain)
      /\ count' = Kept /\ log' = Recovered /\ acked' = Kept
      /\ UNCHANGED <<header, pending, tampers>>
  BY DEF Reopen
<1> DEFINE k == Kept
<1>2. /\ Types /\ AllGenuine /\ Len(file) \in Nat /\ Len(log) \in Nat
      /\ file \in Seq(Chunks) /\ log \in Seq(Payloads) /\ Len(log) <= MaxRecords
  BY DEF IInv, Types
<1>3. /\ k \in Nat /\ k <= Len(file) /\ k <= Len(log)
      /\ \A i \in 1..k : WrittenAs(log, file[i], i) /\ file[i].state = "whole"
      /\ log' \in Seq(Payloads) /\ Len(log') = k /\ \A i \in 1..k : log'[i] = log[i]
  BY <1>1, <1>2, KeptIsBeginning
<1> HIDE DEF k
<1>4. Agree(log, log', k)
  BY <1>3 DEF Agree
<1>5. ASSUME NEW n \in 1..k
      PROVE  WrittenAs(log', file[n], n)
  <2>1. n \in 0..k /\ ChainAt(log, file[n].chain, n) /\ file[n].body = BodyAt(log, n)
    BY <1>3 DEF WrittenAs
  <2>2. ChainAt(log', file[n].chain, n) /\ BodyAt(log', n) = BodyAt(log, n)
    BY <1>2, <1>3, <1>4, <2>1, SameBeginning
  <2> QED
    BY <2>1, <2>2 DEF WrittenAs
<1>6. /\ file' \in Seq(Chunks) /\ Len(file') = k
      /\ \A i \in 1..k : file'[i] = file[i]
  <2>1. file' = SubSeq(file, 1, k)
    BY <1>1 DEF k
  <2>2. \A i \in 1..k : file[i] \in Chunks
    BY <1>2, <1>3
  <2> QED
    BY <1>2, <1>3, <2>1, <2>2, SubSeqProperties
<1>7. chain' \in Seq(Bodies) /\ ChainAt(log', chain', k) /\ Len(chain') = k
  <2>1. CASE k = 0
    <3>1. chain' = <<>>
      BY <1>1, <2>1 DEF k
    <3> QED
      BY <1>3, <2>1, <3>1, ChainEmpty
  <2>2. CASE k # 0
    <3>1. k \in 1..k /\ k \in 1..Len(file) /\ chain' = file[k].chain
      BY <1>1, <1>2, <1>3, <2>2 DEF k
    <3>2. chain' \in Seq(Bodies)
      BY <1>2, <3>1, ChunkTypes
    <3> QED
      BY <1>5, <3>1, <3>2 DEF WrittenAs, ChainAt
  <2> QED
    BY <2>1, <2>2
<1>8. pending = <<>> /\ header = "whole"
  <2>1. header \notin {"none", "short", "damaged"}
    BY <1>1 DEF Loads, HeaderDecodes
  <2> QED
    BY <1>1, <2>1 DEF IInv, Types, WriterInPlace
<1>9. pending' \in Seq(Chunks) /\ Len(pending') = 0 /\ DOMAIN pending' = {}
  BY <1>1, <1>8
<1>10. DOMAIN file' = 1..Len(file')
  BY <1>6
<1>11. Types'
  <2>1. k \in 0..MaxRecords /\ k <= MaxRecords /\ k \in 0..k
    BY <1>2, <1>3, StoreAssumption
  <2>2. count' = k /\ acked' = k
    BY <1>1 DEF k
  <2> QED
    BY <1>1, <1>3, <1>6, <1>7, <1>8, <1>9, <2>1, <2>2 DEF IInv, Types
<1>12. \A i \in 1..Len(file') : WrittenAs(log', file'[i], i) /\ file'[i].state = "whole"
  BY <1>3, <1>5, <1>6
<1>13. AllGenuine' /\ InPlace'
  BY <1>1, <1>3, <1>6, <1>10, <1>12, OrderedFile DEF AllGenuine, InPlace
<1>14. WriterInPlace'
  <2>1. Len(chain') = Len(file') + Len(pending') /\ Len(log') <= Len(chain')
    BY <1>3, <1>6, <1>7, <1>9
  <2>2. count' = Len(log') /\ header' = "whole"
    BY <1>1, <1>3, <1>8 DEF k
  <2> QED
    BY <1>1, <1>7, <1>9, <2>1, <2>2 DEF WriterInPlace
<1>15. AckedOnDisk'
  <2>1. acked' <= Len(file') /\ header' = "whole"
    BY <1>1, <1>3, <1>6, <1>8 DEF k
  <2> QED
    BY <1>10, <1>12, <2>1 DEF AckedOnDisk
<1> QED
  BY <1>11, <1>13, <1>14, <1>15 DEF IInv

(* What is put together from chunks of the file is genuine.                  *)
LEMMA AlteredGenuine ==
  ASSUME IInv, NEW f \in Altered
  PROVE  f \in Seq(Chunks) /\ \A i \in DOMAIN f : Genuine(log, f[i])
<1> DEFINE whole == {i \in DOMAIN file : file[i].state = "whole"}
           Good == {c \in Chunks : Genuine(log, c)}
<1>1. file \in Seq(Chunks) /\ Len(file) \in Nat /\ DOMAIN file = 1..Len(file)
  BY DEF IInv, Types
<1>2. \A i \in 1..Len(file) : file[i] \in Good
  BY <1>1 DEF IInv, AllGenuine
<1>3. file \in Seq(Good)
  <2>1. file \in [1..Len(file) -> Good]
    BY <1>1, <1>2
  <2> HIDE DEF Good
  <2> QED
    BY <1>1, <2>1, SeqDef
<1>4. ASSUME NEW c \in Good, NEW how \in {"damaged", "overlong"}
      PROVE  [c EXCEPT !.state = how] \in Good
  <2> DEFINE d == [c EXCEPT !.state = how]
  <2>1. d \in Chunks /\ d.body = c.body /\ d.chain = c.chain
    BY DEF Chunks, States
  <2> HIDE DEF d
  <2>2. Genuine(log, d)
    BY <2>1 DEF Genuine, WrittenAs
  <2> QED
    BY <2>1, <2>2 DEF d
<1> HIDE DEF Good
<1>5. f \in Seq(Good)
  <2>1. CASE \E i \in whole, how \in {"damaged", "overlong"} : f = [file EXCEPT ![i].state = how]
    <3>1. PICK i \in whole, how \in {"damaged", "overlong"} : f = [file EXCEPT ![i].state = how]
      BY <2>1
    <3> DEFINE d == [file[i] EXCEPT !.state = how]
    <3>2. i \in 1..Len(file) /\ d \in Good
      BY <1>1, <1>2, <1>4
    <3>3. f = [file EXCEPT ![i] = d]
      BY <3>1
    <3> HIDE DEF d
    <3> QED
      BY <1>3, <3>2, <3>3, ExceptSeq
  <2>2. CASE \E i \in whole : f = RemoveAt(file, i)
    <3>1. PICK i \in whole : f = SubSeq(file, 1, i - 1) \o SubSeq(file, i + 1, Len(file))
      BY <2>2 DEF RemoveAt
    <3>2. i \in 1..Len(file)
      BY <1>1
    <3>3. SubSeq(file, 1, i - 1) \in Seq(Good) /\ SubSeq(file, i + 1, Len(file)) \in Seq(Good)
      <4>1. \A j \in 1..(i - 1) : file[j] \in Good
        BY <1>1, <1>2, <3>2
      <4>2. \A j \in (i + 1)..Len(file) : file[j] \in Good
        BY <1>1, <1>2, <3>2
      <4> QED
        BY <1>1, <3>2, <4>1, <4>2, SubSeqProperties
    <3> QED
      BY <3>1, <3>3, ConcatProperties
  <2>3. CASE \E i \in whole : f = InsertAt(file, i, file[i])
    <3>1. PICK i \in whole : f = (SubSeq(file, 1, i - 1) \o <<file[i]>>) \o SubSeq(file, i, Len(file))
      BY <2>3 DEF InsertAt
    <3>2. i \in 1..Len(file) /\ file[i] \in Good
      BY <1>1, <1>2
    <3>3. SubSeq(file, 1, i - 1) \in Seq(Good) /\ SubSeq(file, i, Len(file)) \in Seq(Good)
      <4>1. \A j \in 1..(i - 1) : file[j] \in Good
        BY <1>1, <1>2, <3>2
      <4>2. \A j \in i..Len(file) : file[j] \in Good
        BY <1>1, <1>2, <3>2
      <4> QED
        BY <1>1, <3>2, <4>1, <4>2, SubSeqProperties
    <3>4. <<file[i]>> \in Seq(Good)
      BY <3>2
    <3>5. SubSeq(file, 1, i - 1) \o <<file[i]>> \in Seq(Good)
      BY <3>3, <3>4, ConcatProperties
    <3> QED
      BY <3>1, <3>3, <3>5, ConcatProperties
  <2>4. CASE \E i \in {j \in whole : j + 1 \in whole} :
               f = [file EXCEPT ![i] = file[i + 1], ![i + 1] = file[i]]
    <3>1. PICK i \in {j \in whole : j + 1 \in whole} :
             f = [file EXCEPT ![i] = file[i + 1], ![i + 1] = file[i]]
      BY <2>4
    <3>2. i \in 1..Len(file) /\ i + 1 \in 1..Len(file)
      BY <1>1
    <3> DEFINE a == file[i + 1]
               b == file[i]
               g == [file EXCEPT ![i] = a]
    <3>3. a \in Good /\ b \in Good
      BY <1>2, <3>2
    <3>4. f = [g EXCEPT ![i + 1] = b]
      BY <3>1
    <3> HIDE DEF a, b
    <3>5. g \in Seq(Good) /\ Len(g) = Len(file)
      BY <1>3, <3>2, <3>3, ExceptSeq
    <3> HIDE DEF g
    <3> QED
      BY <3>2, <3>3, <3>4, <3>5, ExceptSeq
  <2> QED
    BY <2>1, <2>2, <2>3, <2>4 DEF Altered
<1>6. \A i \in DOMAIN f : f[i] \in Good
  BY <1>5
<1>7. f \in Seq(Chunks)
  <2>1. Good \subseteq Chunks
    BY DEF Good
  <2> QED
    BY <1>5, <2>1, SeqMonotonic
<1> QED
  BY <1>6, <1>7 DEF Good

LEMMA TamperStep == IInv /\ Tamper => IInv'
<1> SUFFICES ASSUME IInv, Tamper
             PROVE  IInv'
  OBVIOUS
<1>1. /\ ~isOpen /\ tampers < MaxTampers /\ tampers' = tampers + 1
      /\ UNCHANGED <<pending, isOpen, chain, count, log, acked>>
  BY DEF Tamper, writerVars
<1>2. tampers' \in 0..MaxTampers /\ tampers' # 0
  BY <1>1, StoreAssumption DEF IInv, Types
<1>3. InPlace' /\ WriterInPlace' /\ AckedOnDisk'
  BY <1>1, <1>2 DEF IInv, InPlace, WriterInPlace, AckedOnDisk
<1>4. CASE file' \in Altered /\ header' = header
  <2>1. file' \in Seq(Chunks) /\ AllGenuine'
    BY <1>1, <1>4, AlteredGenuine DEF AllGenuine
  <2>2. header' \notin {"none", "short"}
    <3>1. ASSUME file = <<>>
          PROVE  Altered = {}
      BY <3>1 DEF Altered
    <3> QED
      BY <1>4, <3>1 DEF IInv, Types
  <2>3. Types'
    BY <1>1, <1>2, <1>4, <2>1, <2>2 DEF IInv, Types
  <2> QED
    BY <1>3, <2>1, <2>3 DEF IInv
<1>5. CASE header = "whole" /\ header' = "damaged" /\ file' = file
  <2>1. Types' /\ AllGenuine'
    BY <1>1, <1>2, <1>5 DEF IInv, Types, AllGenuine
  <2> QED
    BY <1>3, <2>1 DEF IInv
<1> QED
  BY <1>4, <1>5 DEF Tamper

----------------------------------------------------------------------------
(* The theorems. *)

LEMMA InvStep == IInv /\ [Next]_vars => IInv'
<1> SUFFICES ASSUME IInv, [Next]_vars
             PROVE  IInv'
  OBVIOUS
<1>1. ASSUME NEW v \in Payloads, AppendRecord(v)
      PROVE  IInv'
  BY <1>1, AppendStep
<1>2. ASSUME NEW repair \in BOOLEAN, Reopen(repair)
      PROVE  IInv'
  BY <1>2, ReopenStep
<1>3. CASE UNCHANGED vars
  BY <1>3 DEF vars, IInv, Types, AllGenuine, InPlace, WriterInPlace, AckedOnDisk
<1> QED
  BY <1>1, <1>2, <1>3, CreateStep, TrailerStep, FlushStep, SpillStep, CrashStep, TamperStep
     DEF Next

(* Every file any writers, crashes and alterations lead to keeps the         *)
(* invariant the theorems below rest on.                                     *)
THEOREM Invariance == Spec => []IInv
<1> QED
  BY InitIInv, InvStep, PTL DEF Spec

(* load_store returns a beginning of what was written, however the file was  *)
(* altered (the digest chain of src/src/persistence.cpp).                    *)
THEOREM NothingForged == Spec => []RecoveredIsPrefix
<1>1. IInv => RecoveredIsPrefix
  BY PrefixHolds DEF IInv
<1> QED
  BY <1>1, Invariance, PTL

(* What a flush covered survives every crash and every reopening.            *)
THEOREM Durability == Spec => []FlushedSurvives
<1> QED
  BY FlushHolds, Invariance, PTL

(* A trailer that is trusted stands behind all that was appended.            *)
THEOREM Completeness == Spec => []TrailerMeansComplete
<1>1. IInv => TrailerMeansComplete
  BY CompleteHolds DEF IInv
<1> QED
  BY <1>1, Invariance, PTL

(* A crash is never reported as corruption.                                  *)
THEOREM CrashesAreBenign == Spec => []CrashIsNotCorruption
<1> QED
  BY CrashHolds, Invariance, PTL

(* The state has its types, and every reader of the file finds chunks in it. *)
THEOREM TypeCorrect == Spec => []TypeOK
<1>1. IInv => TypeOK
  <2> SUFFICES ASSUME IInv
               PROVE  TypeOK
    OBVIOUS
  <2>1. \A i \in DOMAIN file : file[i].state \in {"whole", "torn", "damaged", "overlong"}
    BY ChunkTypes DEF IInv, Types, States
  <2>2. \A i \in DOMAIN pending : pending[i].state = "whole"
    BY DEF IInv, WriterInPlace
  <2> QED
    BY <2>1, <2>2 DEF IInv, Types, TypeOK
<1> QED
  BY <1>1, Invariance, PTL
=============================================================================
