-------------------------- MODULE EpisodeLogProofs --------------------------
(***************************************************************************)
(* Proofs about EpisodeLog, for every set of series and every bound: what  *)
(* the list of closed episodes is after any number of them have closed.    *)
(* The modules that compose the log with the rest of the engine build on   *)
(* them.                                                                   *)
(***************************************************************************)
EXTENDS EpisodeLog, Induction

Reasons == {"recovered", "generation_changed", "evidence_lost", "superseded"}

(* A list of closed episodes as the log keeps it.                            *)
InOrder(list) ==
  \A i, j \in DOMAIN list : i <= j => list[i].opened <= list[j].opened
Chronicle == {list \in Seq(ClosedEpisode) : Len(list) <= MaxEpisodes /\ InOrder(list)}

(* A full list of which nothing opened before an instant; and what becomes   *)
(* of a list: an episode of it is dropped only from a full list of episodes  *)
(* that opened no earlier, and such a list is never left again.              *)
FullSince(list, instant) ==
  Len(list) = MaxEpisodes /\ \A i \in DOMAIN list : list[i].opened >= instant
Follows(list, later) ==
  /\ \A i \in DOMAIN list : \/ \E j \in DOMAIN later : later[j] = list[i]
                            \/ FullSince(later, list[i].opened)
  /\ \A instant \in Nat : FullSince(list, instant) => FullSince(later, instant)

LEMMA ChronicleShape ==
  ASSUME NEW list \in Chronicle
  PROVE  /\ list \in Seq(ClosedEpisode) /\ Len(list) \in Nat /\ DOMAIN list = 1..Len(list)
         /\ Len(list) <= MaxEpisodes /\ MaxEpisodes \in Nat \ {0}
         /\ \A i \in 1..Len(list) : list[i] \in ClosedEpisode /\ list[i].opened \in Nat
         /\ \A i, j \in 1..Len(list) : i <= j => list[i].opened <= list[j].opened
<1>1. /\ list \in Seq(ClosedEpisode) /\ Len(list) \in Nat /\ DOMAIN list = 1..Len(list)
      /\ Len(list) <= MaxEpisodes
  BY DEF Chronicle
<1>2. MaxEpisodes \in Nat \ {0}
  BY EpisodeAssumption DEF EpisodeAssumption
<1>3. \A i \in 1..Len(list) : list[i] \in ClosedEpisode
  BY <1>1
<1>4. \A e \in ClosedEpisode : e.opened \in Nat
  BY DEF ClosedEpisode
<1>5. \A i, j \in 1..Len(list) : i <= j => list[i].opened <= list[j].opened
  BY <1>1 DEF Chronicle, InOrder
<1> QED
  BY <1>1, <1>2, <1>3, <1>4, <1>5

LEMMA FollowsItself ==
  ASSUME NEW list \in Chronicle PROVE Follows(list, list)
  BY DEF Follows

LEMMA FollowsOn ==
  ASSUME NEW a \in Chronicle, NEW b \in Chronicle, NEW c \in Chronicle,
         Follows(a, b), Follows(b, c)
  PROVE  Follows(a, c)
<1>1. ASSUME NEW i \in DOMAIN a
      PROVE  (\E j \in DOMAIN c : c[j] = a[i]) \/ FullSince(c, a[i].opened)
  <2>1. a[i].opened \in Nat
    BY ChronicleShape
  <2>2. CASE FullSince(b, a[i].opened)
    BY <2>1, <2>2 DEF Follows
  <2>3. CASE \E j \in DOMAIN b : b[j] = a[i]
    BY <2>3 DEF Follows
  <2> QED
    BY <2>2, <2>3 DEF Follows
<1>2. \A instant \in Nat : FullSince(a, instant) => FullSince(c, instant)
  BY DEF Follows
<1> QED
  BY <1>1, <1>2 DEF Follows

(* A set of positions that holds all those before any of its own.            *)
LEMMA FirstOnes ==
  ASSUME NEW n \in Nat, NEW P, P \subseteq 1..n, \A j \in P, i \in 1..n : i <= j => i \in P
  PROVE  Cardinality(P) \in 0..n /\ P = 1..Cardinality(P)
<1> DEFINE Out == (1..(n + 1)) \ P
<1>1. PICK x \in Out : \A y \in Out : x <= y
  <2>1. Out \subseteq Nat /\ n + 1 \in Out
    OBVIOUS
  <2> HIDE DEF Out
  <2> QED
    BY <2>1, LeastNumber
<1>2. x \in 1..(n + 1) /\ x \notin P
  BY <1>1
<1>3. \A i \in 1..(x - 1) : i \in P
  <2> SUFFICES ASSUME NEW i \in 1..(x - 1), i \notin P PROVE FALSE
    OBVIOUS
  <2>1. i \in Out /\ i < x
    BY <1>2
  <2> QED
    BY <1>1, <1>2, <2>1
<1>4. \A i \in P : i \in 1..(x - 1)
  <2> SUFFICES ASSUME NEW i \in P, i >= x PROVE FALSE
    BY <1>2
  <2>1. x \in 1..n
    BY <1>2
  <2> QED
    BY <1>2, <2>1
<1>5. P = 1..(x - 1)
  BY <1>3, <1>4
<1>6. Cardinality(1..(x - 1)) = x - 1
  BY <1>2, FS_Interval
<1> QED
  BY <1>2, <1>5, <1>6

(* insert_closed puts an episode between those that opened no later and      *)
(* those that opened later.                                                  *)
LEMMA InsertedShape ==
  ASSUME NEW list \in Chronicle, NEW e \in ClosedEpisode
  PROVE  /\ Inserted(list, e) \in Seq(ClosedEpisode)
         /\ Len(Inserted(list, e)) = Len(list) + 1
         /\ \E n \in 0..Len(list) :
              /\ \A i \in 1..n : Inserted(list, e)[i] = list[i] /\ list[i].opened <= e.opened
              /\ Inserted(list, e)[n + 1] = e
              /\ \A i \in (n + 1)..Len(list) :
                   Inserted(list, e)[i + 1] = list[i] /\ list[i].opened > e.opened
<1> DEFINE P == {i \in DOMAIN list : list[i].opened <= e.opened}
           n == Cardinality(P)
           front == SubSeq(list, 1, n)
           back == SubSeq(list, n + 1, Len(list))
<1>1. /\ list \in Seq(ClosedEpisode) /\ Len(list) \in Nat /\ DOMAIN list = 1..Len(list)
      /\ \A i \in 1..Len(list) : list[i] \in ClosedEpisode /\ list[i].opened \in Nat
      /\ \A i, j \in 1..Len(list) : i <= j => list[i].opened <= list[j].opened
  BY ChronicleShape
<1>2. e.opened \in Nat
  BY DEF ClosedEpisode
<1>3. n \in 0..Len(list) /\ P = 1..n
  <2>1. P \subseteq 1..Len(list)
    BY <1>1
  <2>2. \A j \in P, i \in 1..Len(list) : i <= j => i \in P
    BY <1>1, <1>2
  <2> HIDE DEF P
  <2> QED
    BY <1>1, <2>1, <2>2, FirstOnes
<1>4. /\ \A i \in 1..n : list[i].opened <= e.opened
      /\ \A i \in (n + 1)..Len(list) : list[i].opened > e.opened
  <2>1. \A i \in 1..n : i \in P
    BY <1>3
  <2>2. \A i \in (n + 1)..Len(list) : i \in 1..Len(list) /\ i \notin P
    <3> HIDE DEF n, P
    <3> QED
      BY <1>1, <1>3
  <2> HIDE DEF n
  <2> QED
    BY <1>1, <1>2, <2>1, <2>2
<1>5. Inserted(list, e) = (front \o <<e>>) \o back
  <2>1. Inserted(list, e) = SubSeq(list, 1, (n + 1) - 1) \o <<e>> \o back
    BY DEF Inserted, InsertAt
  <2>2. (n + 1) - 1 = n
    BY <1>3
  <2> QED
    BY <2>1, <2>2
<1> HIDE DEF n
<1>6. /\ front \in Seq(ClosedEpisode) /\ Len(front) = n
      /\ \A i \in 1..n : front[i] = list[i]
  <2>1. \A i \in 1..n : list[i] \in ClosedEpisode
    BY <1>1, <1>3
  <2>2. n \in Int /\ 1 \in Int
    BY <1>3
  <2>3. /\ front \in Seq(ClosedEpisode)
        /\ Len(front) = IF 1 <= n THEN n - 1 + 1 ELSE 0
        /\ \A i \in 1..(n - 1 + 1) : front[i] = list[1 + i - 1]
    BY <2>1, <2>2, SubSeqProperties
  <2> HIDE DEF front
  <2> QED
    BY <1>3, <2>2, <2>3
<1>7. /\ back \in Seq(ClosedEpisode) /\ Len(back) = Len(list) - n
      /\ \A i \in 1..(Len(list) - n) : back[i] = list[n + i]
  <2>1. \A i \in (n + 1)..Len(list) : list[i] \in ClosedEpisode
    BY <1>1, <1>3
  <2>2. n + 1 \in Int /\ Len(list) \in Int
    BY <1>1, <1>3
  <2>3. /\ back \in Seq(ClosedEpisode)
        /\ Len(back) = IF n + 1 <= Len(list) THEN Len(list) - (n + 1) + 1 ELSE 0
        /\ \A i \in 1..(Len(list) - (n + 1) + 1) : back[i] = list[(n + 1) + i - 1]
    BY <2>1, <2>2, SubSeqProperties
  <2> HIDE DEF back
  <2>4. Len(list) \in Nat /\ n \in 0..Len(list)
    BY <1>1, <1>3
  <2>5. ASSUME NEW i \in 1..(Len(list) - n) PROVE back[i] = list[n + i]
    <3>1. i \in 1..(Len(list) - (n + 1) + 1) /\ (n + 1) + i - 1 = n + i
      BY <2>4
    <3> QED
      BY <2>3, <3>1
  <2>6. Len(back) = Len(list) - n
    <3>1. (n + 1 <= Len(list) <=> n # Len(list)) /\ Len(list) - (n + 1) + 1 = Len(list) - n
      BY <2>4
    <3>2. n = Len(list) => Len(list) - n = 0
      BY <2>4
    <3> QED
      BY <2>3, <3>1, <3>2
  <2> QED
    BY <2>3, <2>5, <2>6
<1> HIDE DEF front, back
<1> DEFINE mid == front \o <<e>>
           ins == mid \o back
<1>8. /\ mid \in Seq(ClosedEpisode) /\ Len(mid) = n + 1
      /\ \A i \in 1..n : mid[i] = list[i]
      /\ mid[n + 1] = e
  <2>1. <<e>> \in Seq(ClosedEpisode) /\ Len(<<e>>) = 1 /\ <<e>>[1] = e
    OBVIOUS
  <2>2. /\ mid \in Seq(ClosedEpisode) /\ Len(mid) = n + 1
        /\ \A i \in 1..(n + 1) : mid[i] = IF i <= n THEN front[i] ELSE <<e>>[i - n]
    BY <1>6, <2>1, ConcatProperties
  <2>3. (n + 1) - n = 1 /\ \A i \in 1..n : i \in 1..(n + 1) /\ i <= n
    BY <1>3
  <2>4. n + 1 \in 1..(n + 1) /\ ~(n + 1 <= n)
    BY <1>3
  <2> HIDE DEF mid
  <2> QED
    BY <1>6, <2>1, <2>2, <2>3, <2>4
<1> HIDE DEF mid
<1>9. /\ ins \in Seq(ClosedEpisode) /\ Len(ins) = Len(list) + 1
      /\ \A i \in 1..(n + 1) : ins[i] = mid[i]
      /\ \A i \in (n + 1)..Len(list) : ins[i + 1] = list[i]
  <2>1. /\ ins \in Seq(ClosedEpisode) /\ Len(ins) = (n + 1) + (Len(list) - n)
        /\ \A i \in 1..((n + 1) + (Len(list) - n)) :
             ins[i] = IF i <= n + 1 THEN mid[i] ELSE back[i - (n + 1)]
    <3>1. /\ ins \in Seq(ClosedEpisode) /\ Len(ins) = Len(mid) + Len(back)
          /\ \A i \in 1..(Len(mid) + Len(back)) :
               ins[i] = IF i <= Len(mid) THEN mid[i] ELSE back[i - Len(mid)]
      BY <1>7, <1>8, ConcatProperties
    <3> HIDE DEF ins
    <3> QED
      BY <1>7, <1>8, <3>1
  <2>2. (n + 1) + (Len(list) - n) = Len(list) + 1
    BY <1>1, <1>3
  <2>3. \A i \in 1..(n + 1) : i \in 1..(Len(list) + 1) /\ i <= n + 1
    BY <1>1, <1>3
  <2>4. \A i \in (n + 1)..Len(list) :
          /\ i + 1 \in 1..(Len(list) + 1) /\ ~(i + 1 <= n + 1)
          /\ (i + 1) - (n + 1) \in 1..(Len(list) - n) /\ n + ((i + 1) - (n + 1)) = i
    BY <1>1, <1>3
  <2> HIDE DEF ins
  <2>5. \A i \in 1..(n + 1) : ins[i] = mid[i]
    BY <2>1, <2>2, <2>3
  <2>6. \A i \in (n + 1)..Len(list) : ins[i + 1] = back[(i + 1) - (n + 1)]
    BY <2>1, <2>2, <2>4
  <2> QED
    BY <1>7, <2>1, <2>2, <2>4, <2>5, <2>6
<1>10. Inserted(list, e) = ins
  BY <1>5 DEF mid
<1>11. \A i \in 1..n : i \in 1..(n + 1)
  BY <1>3
<1>12. n + 1 \in 1..(n + 1)
  BY <1>3
<1> HIDE DEF ins
<1> QED
  BY <1>3, <1>4, <1>8, <1>9, <1>10, <1>11, <1>12

(* One episode more: the list stays in order and within its bound, and what  *)
(* it loses is the oldest of a full list.                                    *)
LEMMA JoinedByOne ==
  ASSUME NEW list \in Chronicle, NEW e \in ClosedEpisode
  PROVE  /\ Bounded(Inserted(list, e)) \in Chronicle
         /\ Follows(list, Bounded(Inserted(list, e)))
         /\ Len(Bounded(Inserted(list, e))) <= Len(list) + 1
         /\ Len(Bounded(Inserted(list, e))) = Len(list) + 1 =>
              Range(list) \cup {e} \subseteq Range(Bounded(Inserted(list, e)))
         /\ Range(Bounded(Inserted(list, e))) \subseteq Range(list) \cup {e}
<1> DEFINE ins == Inserted(list, e)
           len == Len(list)
<1>1. /\ list \in Seq(ClosedEpisode) /\ len \in Nat /\ DOMAIN list = 1..len
      /\ len <= MaxEpisodes /\ MaxEpisodes \in Nat \ {0}
      /\ \A i \in 1..len : list[i] \in ClosedEpisode /\ list[i].opened \in Nat
      /\ \A i, j \in 1..len : i <= j => list[i].opened <= list[j].opened
  BY ChronicleShape
<1>2. e.opened \in Nat
  BY DEF ClosedEpisode
<1>3. ins \in Seq(ClosedEpisode) /\ Len(ins) = len + 1
  BY InsertedShape
<1>4. PICK n \in 0..len :
        /\ \A i \in 1..n : ins[i] = list[i] /\ list[i].opened <= e.opened
        /\ ins[n + 1] = e
        /\ \A i \in (n + 1)..len : ins[i + 1] = list[i] /\ list[i].opened > e.opened
  BY InsertedShape
<1> HIDE DEF ins, len
<1>5. \A i \in 1..(len + 1) :
        \/ i \in 1..n /\ ins[i] = list[i] /\ i \in 1..len
        \/ i = n + 1 /\ ins[i] = e
        \/ i - 1 \in (n + 1)..len /\ ins[i] = list[i - 1] /\ i - 1 \in 1..len
  <2> SUFFICES ASSUME NEW i \in 1..(len + 1)
               PROVE  \/ i \in 1..n /\ ins[i] = list[i] /\ i \in 1..len
                      \/ i = n + 1 /\ ins[i] = e
                      \/ i - 1 \in (n + 1)..len /\ ins[i] = list[i - 1] /\ i - 1 \in 1..len
    OBVIOUS
  <2>1. i \in 1..n \/ i = n + 1 \/ i - 1 \in (n + 1)..len
    BY <1>1
  <2>2. (i - 1) + 1 = i /\ (i \in 1..n => i \in 1..len) /\ (i - 1 \in (n + 1)..len => i - 1 \in 1..len)
    BY <1>1
  <2> QED
    BY <1>4, <2>1, <2>2
<1>6. \A i \in 1..(len + 1) : ins[i].opened \in Nat
  BY <1>1, <1>2, <1>5
<1>7. \A i, j \in 1..(len + 1) : i <= j => ins[i].opened <= ins[j].opened
  <2> SUFFICES ASSUME NEW i \in 1..(len + 1), NEW j \in 1..(len + 1), i < j
               PROVE  ins[i].opened <= ins[j].opened
    BY <1>6
  <2>1. CASE i \in 1..n
    <3>1. ins[i] = list[i] /\ i \in 1..len /\ list[i].opened <= e.opened
      BY <1>1, <1>4, <2>1
    <3>2. CASE j \in 1..n /\ ins[j] = list[j] /\ j \in 1..len
      BY <1>1, <3>1, <3>2
    <3>3. CASE j = n + 1 /\ ins[j] = e
      BY <3>1, <3>3
    <3>4. CASE j - 1 \in (n + 1)..len /\ ins[j] = list[j - 1] /\ j - 1 \in 1..len
      <4>1. i <= j - 1
        OBVIOUS
      <4> QED
        BY <1>1, <3>1, <3>4, <4>1
    <3> QED
      BY <1>5, <3>2, <3>3, <3>4
  <2>2. CASE i = n + 1
    <3>1. ins[i] = e /\ j - 1 \in (n + 1)..len /\ ins[j] = list[j - 1]
      BY <1>1, <1>5, <2>2
    <3>2. list[j - 1].opened > e.opened /\ list[j - 1].opened \in Nat
      BY <1>1, <1>4, <3>1
    <3> QED
      BY <1>2, <3>1, <3>2
  <2>3. CASE i - 1 \in (n + 1)..len
    <3>1. ins[i] = list[i - 1] /\ i - 1 \in 1..len
      BY <1>1, <1>5, <2>3
    <3>2. j - 1 \in (n + 1)..len /\ ins[j] = list[j - 1] /\ j - 1 \in 1..len
      BY <1>1, <1>5, <2>3
    <3>3. i - 1 <= j - 1
      OBVIOUS
    <3> QED
      BY <1>1, <3>1, <3>2, <3>3
  <2> QED
    BY <1>5, <2>1, <2>2, <2>3
(* Every episode of the list is still there after the insertion. *)
<1>8. \A i \in 1..len : \E j \in 1..(len + 1) : ins[j] = list[i]
  <2> SUFFICES ASSUME NEW i \in 1..len PROVE \E j \in 1..(len + 1) : ins[j] = list[i]
    OBVIOUS
  <2>1. CASE i \in 1..n
    <3>1. i \in 1..(len + 1)
      BY <1>1
    <3> QED
      BY <1>4, <2>1, <3>1
  <2>2. CASE i \in (n + 1)..len
    <3>1. i + 1 \in 1..(len + 1)
      BY <1>1
    <3> QED
      BY <1>4, <2>2, <3>1
  <2> QED
    BY <1>1, <2>1, <2>2
<1>9. \A i \in 1..(len + 1) : ins[i] \in Range(list) \cup {e}
  BY <1>1, <1>5 DEF Range
<1>10. CASE len + 1 <= MaxEpisodes
  <2>1. Bounded(ins) = ins
    BY <1>1, <1>3, <1>10 DEF Bounded
  <2>2. DOMAIN ins = 1..(len + 1)
    BY <1>3
  <2>3. ins \in Chronicle
    BY <1>3, <1>7, <1>10, <2>2 DEF Chronicle, InOrder
  <2>4. \A instant \in Nat : ~FullSince(list, instant)
    <3>1. Len(list) # MaxEpisodes
      <4>1. len # MaxEpisodes
        BY <1>1, <1>10
      <4> QED
        BY <4>1 DEF len
    <3> QED
      BY <3>1 DEF FullSince
  <2>5. Follows(list, ins)
    BY <1>1, <1>8, <2>2, <2>4 DEF Follows
  <2>6. Range(list) \cup {e} \subseteq Range(ins)
    <3>1. \A x \in Range(list) : x \in Range(ins)
      BY <1>1, <1>8, <2>2 DEF Range
    <3>2. n + 1 \in 1..(len + 1) /\ ins[n + 1] = e
      BY <1>1, <1>4
    <3>3. e \in Range(ins)
      BY <2>2, <3>2 DEF Range
    <3> QED
      BY <3>1, <3>3
  <2>7. Len(ins) <= Len(list) + 1
    BY <1>1, <1>3 DEF len
  <2>8. Range(ins) \subseteq Range(list) \cup {e}
    BY <1>9, <2>2 DEF Range
  <2> QED
    BY <2>1, <2>3, <2>5, <2>6, <2>7, <2>8 DEF ins
<1>11. CASE len + 1 > MaxEpisodes
  <2> DEFINE m == Bounded(ins)
  <2>1. len = MaxEpisodes
    BY <1>1, <1>11
  <2>2. m = SubSeq(ins, 2, len + 1)
    <3>1. Len(ins) - MaxEpisodes + 1 = 2 /\ Len(ins) > MaxEpisodes
      BY <1>1, <1>3, <2>1
    <3> QED
      BY <1>3, <3>1 DEF Bounded
  <2> HIDE DEF m
  <2>3. /\ m \in Seq(ClosedEpisode) /\ Len(m) = len
        /\ \A i \in 1..len : m[i] = ins[i + 1]
    <3>1. \A i \in 2..(len + 1) : ins[i] \in ClosedEpisode
      BY <1>1, <1>3
    <3>2. 2 \in Int /\ len + 1 \in Int
      BY <1>1
    <3>3. /\ m \in Seq(ClosedEpisode)
          /\ Len(m) = IF 2 <= len + 1 THEN (len + 1) - 2 + 1 ELSE 0
          /\ \A i \in 1..((len + 1) - 2 + 1) : m[i] = ins[2 + i - 1]
      BY <2>2, <3>1, <3>2, SubSeqProperties
    <3>4. (len + 1) - 2 + 1 = len /\ 2 <= len + 1
      BY <1>1, <2>1
    <3>5. \A i \in 1..len : 2 + i - 1 = i + 1
      BY <1>1
    <3>6. \A i \in 1..len : m[i] = ins[2 + i - 1]
      BY <3>3, <3>4
    <3> QED
      BY <3>3, <3>4, <3>5, <3>6
  <2>4. DOMAIN m = 1..len /\ \A i \in 1..len : i + 1 \in 1..(len + 1)
    BY <1>1, <2>3
  <2>5. m \in Chronicle
    <3>1. \A i, j \in 1..len : i <= j => m[i].opened <= m[j].opened
      BY <1>7, <2>3, <2>4
    <3> QED
      BY <2>1, <2>3, <2>4, <3>1, <1>1 DEF Chronicle, InOrder
  <2>6. \A i \in 1..len : m[i].opened >= ins[1].opened
    <3> SUFFICES ASSUME NEW i \in 1..len PROVE m[i].opened >= ins[1].opened
      OBVIOUS
    <3>1. 1 \in 1..(len + 1) /\ i + 1 \in 1..(len + 1) /\ 1 <= i + 1
      BY <1>1
    <3> QED
      BY <1>6, <1>7, <2>3, <3>1
  <2>7. \A i \in 1..len : (\E j \in 1..len : m[j] = list[i]) \/ FullSince(m, list[i].opened)
    <3> SUFFICES ASSUME NEW i \in 1..len
                 PROVE  (\E j \in 1..len : m[j] = list[i]) \/ FullSince(m, list[i].opened)
      OBVIOUS
    <3>1. PICK j \in 1..(len + 1) : ins[j] = list[i]
      BY <1>8
    <3>2. CASE j = 1
      BY <2>1, <2>3, <2>4, <2>6, <3>1, <3>2 DEF FullSince
    <3>3. CASE j # 1
      <4>1. j - 1 \in 1..len /\ (j - 1) + 1 = j
        BY <1>1, <3>3
      <4>2. m[j - 1] = list[i]
        BY <2>3, <3>1, <4>1
      <4> QED
        BY <4>1, <4>2
    <3> QED
      BY <3>2, <3>3
  <2>8. ASSUME NEW instant \in Nat, FullSince(list, instant) PROVE FullSince(m, instant)
    <3>1. \A i \in 1..len : list[i].opened >= instant
      BY <1>1, <2>8 DEF FullSince
    <3>2. ASSUME NEW i \in 1..len PROVE m[i].opened >= instant
      <4>1. i + 1 \in 1..(len + 1) /\ (i + 1) - 1 = i /\ 1 \in 1..len
        BY <1>1, <2>1
      <4>2. CASE i + 1 \in 1..n /\ ins[i + 1] = list[i + 1] /\ i + 1 \in 1..len
        BY <2>3, <3>1, <4>2
      <4>3. CASE i + 1 = n + 1 /\ ins[i + 1] = e
        <5>1. 1 \in 1..n
          BY <4>3
        <5>2. list[1].opened <= e.opened /\ list[1].opened >= instant /\ list[1].opened \in Nat
          BY <1>1, <1>4, <3>1, <4>1, <5>1
        <5> QED
          BY <1>2, <2>3, <4>3, <5>2
      <4>4. CASE (i + 1) - 1 \in (n + 1)..len /\ ins[i + 1] = list[(i + 1) - 1]
        BY <2>3, <3>1, <4>1, <4>4
      <4> QED
        BY <1>5, <4>1, <4>2, <4>3, <4>4
    <3> QED
      BY <2>1, <2>3, <2>4, <3>2 DEF FullSince
  <2>9. Follows(list, m)
    BY <1>1, <2>4, <2>7, <2>8 DEF Follows
  <2>10. Len(m) <= len + 1 /\ Len(m) # len + 1
    BY <1>1, <2>3
  <2>11. Range(m) \subseteq Range(list) \cup {e}
    BY <1>9, <2>3, <2>4 DEF Range
  <2> QED
    BY <2>5, <2>9, <2>10, <2>11 DEF m, ins, len
<1> QED
  BY <1>1, <1>10, <1>11

(* An open episode closed is a closed episode. *)
LEMMA ClosedIs ==
  ASSUME NEW e \in OpenEpisode, NEW t \in Nat, NEW reason \in Reasons
  PROVE  Closed(e, t, reason) \in ClosedEpisode
<1>1. e.series \in Series /\ e.ordinal \in Nat /\ e.opened \in Nat
  BY DEF OpenEpisode
<1>2. (IF t < e.opened THEN e.opened ELSE t) \in Nat
  BY <1>1
<1> QED
  BY <1>1, <1>2 DEF Closed, ClosedEpisode, Reasons

(* What joining the first n of es makes of a list: it follows from what it   *)
(* was, holds nothing else, and holds all of them unless it lost some.       *)
Gathered(list, es, n, later) ==
  /\ later \in Chronicle /\ Follows(list, later)
  /\ Len(later) <= Len(list) + n
  /\ Len(later) = Len(list) + n =>
       Range(list) \cup {es[i] : i \in 1..n} \subseteq Range(later)
  /\ Range(later) \subseteq Range(list) \cup {es[i] : i \in 1..n}

LEMMA JoinedByAll ==
  ASSUME NEW list \in Chronicle, NEW es \in Seq(ClosedEpisode)
  PROVE  Gathered(list, es, Len(es), Joined(list, es))
<1> DEFINE n == Len(es)
           X == Chronicle
           upTo[i \in 0..n] == IF i = 0 THEN list ELSE Bounded(Inserted(upTo[i - 1], es[i]))
           step == [i \in 1..n |-> [l \in X |-> Bounded(Inserted(l, es[i]))]]
<1>1. n \in Nat /\ \A i \in 1..n : es[i] \in ClosedEpisode
  OBVIOUS
<1> HIDE DEF n
<1>3. \A i \in 1..n : \A l \in X :
        /\ Bounded(Inserted(l, es[i])) \in X /\ Follows(l, Bounded(Inserted(l, es[i])))
        /\ Len(Bounded(Inserted(l, es[i]))) <= Len(l) + 1
        /\ Len(Bounded(Inserted(l, es[i]))) = Len(l) + 1 =>
             Range(l) \cup {es[i]} \subseteq Range(Bounded(Inserted(l, es[i])))
        /\ Range(Bounded(Inserted(l, es[i]))) \subseteq Range(l) \cup {es[i]}
  BY <1>1, JoinedByOne
<1>4. \E f : f = [i \in 0..n |-> IF i = 0 THEN list ELSE Bounded(Inserted(f[i - 1], es[i]))]
  <2>1. list \in X /\ step \in StepMaps(X, n)
    <3>1. \A i \in 1..n : \A l \in X : Bounded(Inserted(l, es[i])) \in X
      BY <1>3
    <3> HIDE DEF X
    <3>2. list \in X
      BY DEF X
    <3> QED
      BY <3>1, <3>2 DEF StepMaps
  <2> HIDE DEF step, X
  <2>2. PICK f \in [0..n -> X] : f[0] = list /\ \A i \in 1..n : f[i] = step[i][f[i - 1]]
    <3>1. Runs(X, list, n, step) # {}
      BY <1>1, <2>1, RunExists
    <3> QED
      BY <3>1 DEF Runs
  <2>3. ASSUME NEW i \in 1..n PROVE step[i][f[i - 1]] = Bounded(Inserted(f[i - 1], es[i]))
    <3>1. f[i - 1] \in X
      BY <1>1
    <3> QED
      BY <3>1 DEF step
  <2>4. \A i \in 0..n : i # 0 => i \in 1..n
    BY <1>1
  <2>5. \A i \in 0..n : f[i] = IF i = 0 THEN list ELSE Bounded(Inserted(f[i - 1], es[i]))
    BY <2>2, <2>3, <2>4
  <2>6. f = [i \in 0..n |-> IF i = 0 THEN list ELSE Bounded(Inserted(f[i - 1], es[i]))]
    BY <2>2, <2>5
  <2> QED
    BY <2>6
<1>5. upTo = [i \in 0..n |-> IF i = 0 THEN list ELSE Bounded(Inserted(upTo[i - 1], es[i]))]
  BY <1>4
<1>6. Joined(list, es) = upTo[n]
  BY DEF Joined, n
<1> HIDE DEF upTo, step, X
<1> DEFINE T == {i \in 0..n : Gathered(list, es, i, upTo[i])}
<1>7. 0 \in T
  <2>1. upTo[0] = list /\ 0 \in 0..n
    BY <1>1, <1>5
  <2>2. Follows(list, list) /\ Len(list) \in Nat
    BY FollowsItself, ChronicleShape
  <2>3. Gathered(list, es, 0, list)
    BY <2>2 DEF Gathered
  <2> QED
    BY <2>1, <2>3
<1>8. ASSUME NEW i \in 1..n, i - 1 \in T PROVE i \in T
  <2> DEFINE l == upTo[i - 1]
             m == upTo[i]
  <2>1. m = Bounded(Inserted(l, es[i])) /\ i \in 0..n
    BY <1>1, <1>5
  <2>2. Gathered(list, es, i - 1, l)
    BY <1>8
  <2> HIDE DEF l, m
  <2>3. /\ l \in Chronicle /\ Follows(list, l)
        /\ Len(l) <= Len(list) + (i - 1)
        /\ Len(l) = Len(list) + (i - 1) =>
             Range(list) \cup {es[k] : k \in 1..(i - 1)} \subseteq Range(l)
        /\ Range(l) \subseteq Range(list) \cup {es[k] : k \in 1..(i - 1)}
    BY <2>2 DEF Gathered
  <2>4. /\ m \in Chronicle /\ Follows(l, m)
        /\ Len(m) <= Len(l) + 1
        /\ Len(m) = Len(l) + 1 => Range(l) \cup {es[i]} \subseteq Range(m)
        /\ Range(m) \subseteq Range(l) \cup {es[i]}
    BY <1>3, <2>1, <2>3 DEF X
  <2>5. Follows(list, m)
    BY <2>3, <2>4, FollowsOn
  <2>6. Len(l) \in Nat /\ Len(m) \in Nat /\ Len(list) \in Nat
    BY <2>3, <2>4, ChronicleShape
  <2>7. Len(m) <= Len(list) + i
    BY <2>3, <2>4, <2>6
  <2>8. ASSUME Len(m) = Len(list) + i
        PROVE  Range(list) \cup {es[k] : k \in 1..i} \subseteq Range(m)
    <3>1. Len(l) = Len(list) + (i - 1) /\ Len(m) = Len(l) + 1
      BY <2>3, <2>4, <2>6, <2>8
    <3>2. Range(list) \cup {es[k] : k \in 1..(i - 1)} \cup {es[i]} \subseteq Range(m)
      BY <2>3, <2>4, <3>1
    <3>3. \A k \in 1..i : k \in 1..(i - 1) \/ k = i
      OBVIOUS
    <3> QED
      BY <3>2, <3>3
  <2>9. Range(m) \subseteq Range(list) \cup {es[k] : k \in 1..i}
    <3>1. i \in 1..i /\ \A k \in 1..(i - 1) : k \in 1..i
      OBVIOUS
    <3>2. {es[k] : k \in 1..(i - 1)} \cup {es[i]} \subseteq {es[k] : k \in 1..i}
      BY <3>1
    <3> QED
      BY <2>3, <2>4, <3>2
  <2>10. Gathered(list, es, i, m)
    BY <2>4, <2>5, <2>7, <2>8, <2>9 DEF Gathered
  <2> QED
    BY <2>1, <2>10 DEF m
<1>9. n \in T
  <2> HIDE DEF T
  <2>1. 0..n \subseteq T
    BY <1>1, <1>7, <1>8, AllAlong
  <2> QED
    BY <1>1, <2>1
<1> QED
  BY <1>6, <1>9 DEF n

(* SetToSeq lists a finite set. *)
LEMMA Listed ==
  ASSUME NEW S, IsFiniteSet(S)
  PROVE  SetToSeq(S) \in Seq(S) /\ S \subseteq Range(SetToSeq(S))
<1> DEFINE n == Cardinality(S)
           q == SetToSeq(S)
<1>1. n \in Nat /\ ExistsBijection(1..n, S)
  BY FS_CardinalityType
<1> HIDE DEF n
<1>2. PICK f : f \in Bijection(1..n, S)
  BY <1>1 DEF ExistsBijection
<1>3. f \in [1..n -> S] /\ IsInjective(f)
  BY <1>2 DEF Bijection, Injection, IsInjective
<1>4. q \in [1..n -> S] /\ IsInjective(q)
  BY <1>3 DEF SetToSeq, n
<1> HIDE DEF q
<1>5. q \in Surjection(1..n, S)
  <2>1. q \in Injection(1..n, S)
    BY <1>4 DEF Injection
  <2>2. IsFiniteSet(1..n) /\ Cardinality(1..n) = Cardinality(S)
    BY <1>1, FS_Interval DEF n
  <2> QED
    BY <2>1, <2>2, FS_Injection
<1>6. S \subseteq Range(q)
  BY <1>4, <1>5 DEF Surjection, Range
<1>7. q \in Seq(S)
  BY <1>1, <1>4, SeqDef
<1> QED
  BY <1>6, <1>7 DEF q

LEMMA AllClosedAre ==
  ASSUME NEW E, E \subseteq OpenEpisode, IsFiniteSet(E), NEW t \in Nat, NEW reason \in Reasons
  PROVE  AllClosed(E, t, reason) \in Seq(ClosedEpisode)
<1> DEFINE q == SetToSeq(E)
<1>1. q \in Seq(OpenEpisode)
  BY Listed, SeqMonotonic
<1> HIDE DEF q
<1>2. Len(q) \in Nat /\ DOMAIN q = 1..Len(q) /\ \A i \in 1..Len(q) : q[i] \in OpenEpisode
  BY <1>1
<1>3. \A i \in 1..Len(q) : Closed(q[i], t, reason) \in ClosedEpisode
  BY <1>2, ClosedIs
<1>4. AllClosed(E, t, reason) = [i \in 1..Len(q) |-> Closed(q[i], t, reason)]
  BY <1>2 DEF AllClosed, q
<1>5. AllClosed(E, t, reason) \in [1..Len(q) -> ClosedEpisode]
  BY <1>3, <1>4
<1> QED
  BY <1>2, <1>5, SeqDef

(* The log: finitely many episodes are open, and the closed ones of each     *)
(* series are in order and within the bound.                                 *)
LogHeld ==
  /\ open \subseteq OpenEpisode /\ IsFiniteSet(open)
  /\ closed \in [Series -> Chronicle]

(* What a step may do to it.                                                 *)
LogStep == LogHeld' /\ \A s \in Series : Follows(closed[s], closed'[s])

(* Episodes close at the instant t. *)
LEMMA ClosedLists ==
  ASSUME LogHeld, NEW t \in Nat, NEW E \in SUBSET open, NEW reason \in Reasons,
         Close(E, t, reason)
  PROVE  LogStep
<1> DEFINE list(s) == Joined(closed[s], AllClosed({e \in E : e.series = s}, t, reason))
<1>1. IsFiniteSet(open') /\ open' \subseteq OpenEpisode
  <2>1. open' = open \ E
    BY DEF Close
  <2> QED
    BY <2>1, FS_Subset DEF LogHeld
<1>2. ASSUME NEW s \in Series
      PROVE  list(s) \in Chronicle /\ Follows(closed[s], list(s))
  <2>1. \A S : S \subseteq E => S \subseteq OpenEpisode /\ IsFiniteSet(S)
    BY FS_Subset DEF LogHeld
  <2>2. AllClosed({e \in E : e.series = s}, t, reason) \in Seq(ClosedEpisode)
    <3>1. {e \in E : e.series = s} \subseteq E
      OBVIOUS
    <3> QED
      BY <2>1, <3>1, AllClosedAre
  <2>3. closed[s] \in Chronicle
    BY DEF LogHeld
  <2> QED
    BY <2>2, <2>3, JoinedByAll DEF Gathered
<1>3. closed' = [s \in Series |-> list(s)]
  BY DEF Close, ClosedWith
<1> HIDE DEF list
<1> QED
  BY <1>1, <1>2, <1>3 DEF LogHeld, LogStep

(* One observation at the instant t. *)
LEMMA ObservedLists ==
  ASSUME LogHeld, NEW t \in Nat, NEW s \in Series, NEW ordinal \in Nat,
         NEW current, NEW level, Observe(s, ordinal, current, level, t)
  PROVE  LogStep
<1>1. ASSUME IsFiniteSet(open'), open' \subseteq OpenEpisode, closed' = closed
      PROVE  LogStep
  BY <1>1, FollowsItself DEF LogHeld, LogStep
<1>2. OpenOf(s, ordinal) \subseteq open
  BY DEF OpenOf
<1>3. ASSUME NEW E, NEW count \in [open -> Nat],
             open' = {IF e \in E THEN [e EXCEPT !.recovery = count[e]] ELSE e : e \in open}
      PROVE  IsFiniteSet(open') /\ open' \subseteq OpenEpisode
  <2> DEFINE After(e) == IF e \in E THEN [e EXCEPT !.recovery = count[e]] ELSE e
             f == [e \in open |-> After(e)]
  <2>1. f \in Surjection(open, open')
    BY <1>3 DEF Surjection
  <2>2. \A e \in open : After(e) \in OpenEpisode
    BY DEF LogHeld, OpenEpisode
  <2>3. open' \subseteq OpenEpisode
    BY <1>3, <2>2
  <2> QED
    BY <2>1, <2>3, FS_Surjection DEF LogHeld
<1>5. CASE ObserveClosedGeneration(s, ordinal, t) \/ ObserveLoss(s, ordinal, t)
  BY <1>2, <1>5, ClosedLists DEF ObserveClosedGeneration, ObserveLoss, Reasons
<1>6. CASE ObserveBreach(s, ordinal, t)
  <2>0. closed' = closed
    BY <1>6 DEF ObserveBreach
  <2>1. CASE OpenOf(s, ordinal) = {}
    <3> DEFINE new == [series |-> s, ordinal |-> ordinal, opened |-> t, recovery |-> 0]
    <3>1. open' = open \cup {new} /\ new \in OpenEpisode
      BY <1>6, <2>1 DEF ObserveBreach, OpenEpisode
    <3>2. IsFiniteSet(open') /\ open' \subseteq OpenEpisode
      BY <3>1, FS_AddElement DEF LogHeld
    <3> QED
      BY <1>1, <2>0, <3>2
  <2>2. CASE OpenOf(s, ordinal) # {}
    <3> DEFINE E == OpenOf(s, ordinal)
               zero == [e \in open |-> 0]
    <3>1. open' = {IF e \in E THEN [e EXCEPT !.recovery = zero[e]] ELSE e : e \in open}
      BY <1>6, <2>2 DEF ObserveBreach
    <3>2. zero \in [open -> Nat]
      OBVIOUS
    <3> HIDE DEF zero, E
    <3> QED
      BY <1>1, <1>3, <2>0, <3>1, <3>2
  <2> QED
    BY <2>1, <2>2
<1>7. CASE ObserveCalm(s, ordinal, t)
  <2> DEFINE E == OpenOf(s, ordinal)
             recovered == {e \in E : e.recovery + 1 >= CloseWindows}
             more == [e \in open |-> e.recovery + 1]
  <2>1. CASE recovered # {}
    <3>1. Close(recovered, t, "recovered")
      BY <1>7, <2>1 DEF ObserveCalm
    <3> QED
      BY <1>2, <3>1, ClosedLists DEF Reasons
  <2>2. CASE recovered = {}
    <3>1. /\ open' = {IF e \in E THEN [e EXCEPT !.recovery = more[e]] ELSE e : e \in open}
          /\ closed' = closed
      BY <1>7, <2>2 DEF ObserveCalm
    <3>2. more \in [open -> Nat]
      BY DEF LogHeld, OpenEpisode
    <3> HIDE DEF more, E
    <3> QED
      BY <1>1, <1>3, <3>1, <3>2
  <2> QED
    BY <2>1, <2>2
<1> QED
  BY <1>5, <1>6, <1>7 DEF Observe

(* What joins a list when episodes close is one of them, for that reason.    *)
LEMMA ClosedFrom ==
  ASSUME LogHeld, NEW t \in Nat, NEW E \in SUBSET open, NEW reason \in Reasons,
         Close(E, t, reason), NEW s \in Series, NEW f \in Range(closed'[s]) \ Range(closed[s])
  PROVE  /\ f.reason = reason
         /\ \E e \in E \cap (open \ open') :
              e.series = s /\ e.ordinal = f.ordinal /\ e.opened = f.opened
<1> DEFINE mine == {e \in E : e.series = s}
           es == AllClosed(mine, t, reason)
           q == SetToSeq(mine)
<1>1. mine \subseteq OpenEpisode /\ IsFiniteSet(mine)
  <2>1. mine \subseteq open
    OBVIOUS
  <2> HIDE DEF mine
  <2> QED
    BY <2>1, FS_Subset DEF LogHeld
<1>2. closed'[s] = Joined(closed[s], es) /\ closed[s] \in Chronicle
  BY DEF Close, ClosedWith, LogHeld
<1>3. \A e \in mine : e \in E \cap (open \ open') /\ e.series = s
  BY DEF Close
<1> HIDE DEF mine
<1>4. es \in Seq(ClosedEpisode) /\ q \in Seq(mine)
  BY <1>1, AllClosedAre, Listed
<1>5. /\ DOMAIN q = 1..Len(q) /\ Len(es) = Len(q) /\ Len(q) \in Nat
      /\ \A i \in 1..Len(q) : q[i] \in mine /\ es[i] = Closed(q[i], t, reason)
  <2>1. /\ Len(q) \in Nat /\ DOMAIN q = 1..Len(q) /\ \A i \in 1..Len(q) : q[i] \in mine
    BY <1>4
  <2>2. es = [i \in DOMAIN q |-> Closed(q[i], t, reason)]
    BY DEF AllClosed
  <2>3. DOMAIN es = 1..Len(es) /\ Len(es) \in Nat
    BY <1>4
  <2> HIDE DEF q, es
  <2>4. DOMAIN es = 1..Len(q)
    BY <2>1, <2>2
  <2>5. Len(es) = Len(q)
    <3>1. \A m, n \in Nat : 1..m = 1..n => ~(m < n)
      <4> SUFFICES ASSUME NEW m \in Nat, NEW n \in Nat, 1..m = 1..n, m < n PROVE FALSE
        OBVIOUS
      <4>1. n \in 1..n /\ n \notin 1..m
        OBVIOUS
      <4> QED
        BY <4>1
    <3>2. Len(es) \in Nat /\ Len(q) \in Nat /\ 1..Len(es) = 1..Len(q)
      BY ONLY <2>1, <2>3, <2>4
    <3> DEFINE m == Len(es)
               n == Len(q)
    <3>3. m \in Nat /\ n \in Nat /\ 1..m = 1..n
      BY ONLY <3>2
    <3> HIDE DEF m, n
    <3>4. m = n
      BY ONLY <3>1, <3>3
    <3> QED
      BY <3>4 DEF m, n
  <2>6. \A i \in DOMAIN q : es[i] = Closed(q[i], t, reason)
    BY ONLY <2>2
  <2>7. \A i \in 1..Len(q) : es[i] = Closed(q[i], t, reason)
    BY ONLY <2>1, <2>6
  <2> QED
    BY ONLY <2>1, <2>5, <2>7
<1> HIDE DEF q, es
<1>6. Range(closed'[s]) \subseteq Range(closed[s]) \cup {es[i] : i \in 1..Len(es)}
  BY <1>2, <1>4, JoinedByAll DEF Gathered
<1>7. PICK i \in 1..Len(q) : f = Closed(q[i], t, reason)
  BY <1>5, <1>6
<1>8. q[i] \in mine /\ q[i].ordinal = f.ordinal /\ q[i].opened = f.opened /\ f.reason = reason
  BY <1>5, <1>7 DEF Closed
<1> QED
  BY <1>3, <1>8

(* What one observation opens and closes: only for the series and generation *)
(* observed, nothing but closing when that generation is not the current one. *)
LEMMA ObservedFrom ==
  ASSUME LogHeld, NEW t \in Nat, NEW s \in Series, NEW ordinal \in Nat,
         NEW current \in BOOLEAN, NEW level, Observe(s, ordinal, current, level, t)
  PROVE  /\ \A e \in open' \ open : current /\ e.series = s /\ e.ordinal = ordinal
         /\ \A z \in Series : \A f \in Range(closed'[z]) \ Range(closed[z]) :
              /\ z = s /\ f.ordinal = ordinal
              /\ \/ current /\ f.reason \in {"recovered", "evidence_lost"}
                 \/ ~current /\ f.reason = "superseded"
              /\ \E e \in open \ open' :
                   e.series = z /\ e.ordinal = f.ordinal /\ e.opened = f.opened
<1> DEFINE Opens == \A e \in open' \ open : current /\ e.series = s /\ e.ordinal = ordinal
           Closes == \A z \in Series : \A f \in Range(closed'[z]) \ Range(closed[z]) :
              /\ z = s /\ f.ordinal = ordinal
              /\ \/ current /\ f.reason \in {"recovered", "evidence_lost"}
                 \/ ~current /\ f.reason = "superseded"
              /\ \E e \in open \ open' :
                   e.series = z /\ e.ordinal = f.ordinal /\ e.opened = f.opened
<1>1. ASSUME NEW E \in SUBSET OpenOf(s, ordinal), NEW reason \in Reasons, Close(E, t, reason),
             \/ current /\ reason \in {"recovered", "evidence_lost"}
             \/ ~current /\ reason = "superseded"
      PROVE  Opens /\ Closes
  <2>1. E \in SUBSET open /\ \A e \in E : e.series = s /\ e.ordinal = ordinal
    BY DEF OpenOf
  <2>2. open' \subseteq open
    BY <1>1 DEF Close
  <2>3. ASSUME NEW z \in Series, NEW f \in Range(closed'[z]) \ Range(closed[z])
        PROVE  /\ f.reason = reason
               /\ \E e \in E \cap (open \ open') :
                    e.series = z /\ e.ordinal = f.ordinal /\ e.opened = f.opened
    BY <1>1, <2>1, ClosedFrom
  <2> QED
    BY <1>1, <2>1, <2>2, <2>3
<1>2. ASSUME current, closed' = closed, NEW E \in SUBSET OpenOf(s, ordinal), NEW count \in [open -> Nat],
             open' = {IF e \in E THEN [e EXCEPT !.recovery = count[e]] ELSE e : e \in open}
      PROVE  Opens /\ Closes
  <2> SUFFICES ASSUME NEW e \in open' \ open PROVE e.series = s /\ e.ordinal = ordinal
    BY <1>2
  <2>1. PICK d \in open : e = IF d \in E THEN [d EXCEPT !.recovery = count[d]] ELSE d
    BY <1>2
  <2>2. d \in E /\ e = [d EXCEPT !.recovery = count[d]]
    BY <2>1
  <2>3. d \in OpenEpisode /\ d.series = s /\ d.ordinal = ordinal
    BY <2>2 DEF OpenOf, LogHeld
  <2> QED
    BY <2>2, <2>3 DEF OpenEpisode
<1>3. CASE ~current
  <2>1. Close(OpenOf(s, ordinal), t, "superseded")
    BY <1>3 DEF Observe, ObserveClosedGeneration
  <2> QED
    BY <1>1, <1>3, <2>1 DEF Reasons
<1>4. CASE current /\ ObserveLoss(s, ordinal, t)
  <2>1. Close(OpenOf(s, ordinal), t, "evidence_lost")
    BY <1>4 DEF ObserveLoss
  <2> QED
    BY <1>1, <1>4, <2>1 DEF Reasons
<1>5. CASE current /\ ObserveBreach(s, ordinal, t)
  <2>0. closed' = closed
    BY <1>5 DEF ObserveBreach
  <2>1. CASE OpenOf(s, ordinal) = {}
    <3>1. open' = open \cup {[series |-> s, ordinal |-> ordinal, opened |-> t, recovery |-> 0]}
      BY <1>5, <2>1 DEF ObserveBreach
    <3> QED
      BY <1>5, <2>0, <3>1
  <2>2. CASE OpenOf(s, ordinal) # {}
    <3> DEFINE E == OpenOf(s, ordinal)
               zero == [e \in open |-> 0]
    <3>1. open' = {IF e \in E THEN [e EXCEPT !.recovery = zero[e]] ELSE e : e \in open}
      BY <1>5, <2>2 DEF ObserveBreach
    <3>2. zero \in [open -> Nat] /\ E \in SUBSET OpenOf(s, ordinal)
      OBVIOUS
    <3> HIDE DEF zero, E
    <3> QED
      BY <1>2, <1>5, <2>0, <3>1, <3>2
  <2> QED
    BY <2>1, <2>2
<1>6. CASE current /\ ObserveCalm(s, ordinal, t)
  <2> DEFINE E == OpenOf(s, ordinal)
             recovered == {e \in E : e.recovery + 1 >= CloseWindows}
             more == [e \in open |-> e.recovery + 1]
  <2>1. CASE recovered # {}
    <3>1. Close(recovered, t, "recovered") /\ recovered \in SUBSET OpenOf(s, ordinal)
      BY <1>6, <2>1 DEF ObserveCalm
    <3> HIDE DEF recovered
    <3> QED
      BY <1>1, <1>6, <3>1 DEF Reasons
  <2>2. CASE recovered = {}
    <3>1. /\ open' = {IF e \in E THEN [e EXCEPT !.recovery = more[e]] ELSE e : e \in open}
          /\ closed' = closed
      BY <1>6, <2>2 DEF ObserveCalm
    <3>2. more \in [open -> Nat] /\ E \in SUBSET OpenOf(s, ordinal)
      BY DEF LogHeld, OpenEpisode
    <3> HIDE DEF more, E
    <3> QED
      BY <1>2, <1>6, <3>1, <3>2
  <2> QED
    BY <2>1, <2>2
<1> QED
  BY <1>3, <1>4, <1>5, <1>6 DEF Observe

(* A log nothing has been observed in.                                       *)
LEMMA NewLog ==
  /\ <<>> \in Chronicle
  /\ EpisodeInit => LogHeld
<1>1. <<>> \in Seq(ClosedEpisode) /\ Len(<<>>) = 0 /\ 0 <= MaxEpisodes
  BY EmptySeq, EpisodeAssumption DEF EpisodeAssumption
<1>2. <<>> \in Chronicle
  BY <1>1 DEF Chronicle, InOrder
<1> QED
  BY <1>2, FS_EmptySet DEF EpisodeInit, LogHeld
=============================================================================
