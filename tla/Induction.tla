----------------------------- MODULE Induction -----------------------------
(***************************************************************************)
(* Induction over the naturals as lemmas about sets of them: a recursive   *)
(* function of a definition exists, and what holds at its start and        *)
(* survives its steps holds at its end.  Then what this says of the        *)
(* operators of Listings: listings, sums and sorted sequences.             *)
(***************************************************************************)
EXTENDS Listings, Functions, SequenceTheorems, FiniteSetTheorems, WellFoundedInduction, TLAPS

(* A set of naturals has a least element. *)
LEMMA LeastNumber ==
  ASSUME NEW T, T \subseteq Nat, T # {}
  PROVE  \E x \in T : \A y \in T : x <= y
<1> DEFINE R == OpToRel(<, Nat)
<1>1. IsWellFoundedOn(R, Nat)
  BY NatLessThanWellFounded
<1>2. \A x, y \in Nat : x < y => <<x, y>> \in R
  BY DEF OpToRel
<1>3. PICK x \in T : \A y \in T : ~(<<y, x>> \in R)
  <2> HIDE DEF R
  <2> QED
    BY <1>1, WFMin
<1>4. ASSUME NEW y \in T
      PROVE  x <= y
  <2>1. y \in Nat /\ x \in Nat
    OBVIOUS
  <2>2. ~(<<y, x>> \in R)
    BY <1>3
  <2>3. ~(y < x)
    <3> HIDE DEF R
    <3> QED
      BY <1>2, <2>1, <2>2
  <2> QED
    BY <2>1, <2>3
<1> QED
  BY <1>4

(* What holds at the start of a run and survives each of its steps holds all *)
(* along: T is the set of the numbers it holds at.                           *)
LEMMA AllAlong ==
  ASSUME NEW n \in Nat, NEW T, 0 \in T, \A i \in 1..n : (i - 1) \in T => i \in T
  PROVE  0..n \subseteq T
<1> DEFINE Bad == (0..n) \ T
<1> SUFFICES ASSUME Bad # {} PROVE FALSE
  OBVIOUS
<1>1. PICK x \in Bad : \A y \in Bad : x <= y
  <2>1. Bad \subseteq Nat
    OBVIOUS
  <2> HIDE DEF Bad
  <2> QED
    BY <2>1, LeastNumber
<1>2. x \in 1..n /\ x - 1 \in 0..n
  BY <1>1
<1>3. x - 1 \in T
  BY <1>1, <1>2
<1> QED
  BY <1>1, <1>2, <1>3

(* The runs of n steps, each a function of the state before it.              *)
StepMaps(X, n) == [1..n -> [X -> X]]
Runs(X, first, n, step) ==
  {f \in [0..n -> X] : f[0] = first /\ \A i \in 1..n : f[i] = step[i][f[i - 1]]}

(* There is one. *)
LEMMA RunExists ==
  ASSUME NEW X, NEW first \in X, NEW n \in Nat, NEW step \in StepMaps(X, n)
  PROVE  Runs(X, first, n, step) # {}
<1> DEFINE Run(f, m) ==
             /\ f \in [0..m -> X] /\ f[0] = first
             /\ \A i \in 1..m : f[i] = step[i][f[i - 1]]
           T == {m \in Nat : m <= n => \E f \in [0..m -> X] : Run(f, m)}
<1>1. 0 \in T
  <2>1. Run([i \in 0..0 |-> first], 0)
    OBVIOUS
  <2> QED
    BY <2>1
<1>2. ASSUME NEW i \in 1..n, i - 1 \in T PROVE i \in T
  <2>1. PICK f \in [0..(i - 1) -> X] : Run(f, i - 1)
    BY <1>2
  <2> DEFINE g == [j \in 0..i |-> IF j = i THEN step[i][f[i - 1]] ELSE f[j]]
  <2>2. f[i - 1] \in X /\ step[i] \in [X -> X]
    BY <2>1 DEF StepMaps
  <2>3. g \in [0..i -> X] /\ g[0] = first
    BY <2>1, <2>2
  <2>4. \A j \in 1..i : g[j] = step[j][g[j - 1]]
    BY <2>1, <2>2
  <2>5. Run(g, i)
    BY <2>3, <2>4
  <2> HIDE DEF g
  <2> QED
    BY <2>3, <2>5
<1>3. n \in T
  <2> HIDE DEF T
  <2>1. 0..n \subseteq T
    BY <1>1, <1>2, AllAlong
  <2> QED
    BY <2>1
<1>4. PICK f \in [0..n -> X] : Run(f, n)
  BY <1>3
<1> QED
  BY <1>4 DEF Runs

(* A sequence has finitely many elements. *)
LEMMA RangeFinite ==
  ASSUME NEW Y, NEW s \in Seq(Y)
  PROVE  /\ IsFiniteSet(Range(s)) /\ Cardinality(Range(s)) \in Nat
         /\ Range(s) \subseteq Y
<1>1. Len(s) \in Nat /\ s \in [1..Len(s) -> Y] /\ DOMAIN s = 1..Len(s)
  OBVIOUS
<1>2. s \in Surjection(1..Len(s), Range(s))
  BY <1>1 DEF Surjection, Range
<1>3. IsFiniteSet(1..Len(s))
  BY <1>1, FS_Interval
<1>4. IsFiniteSet(Range(s))
  BY <1>2, <1>3, FS_Surjection
<1>5. Cardinality(Range(s)) \in Nat
  BY <1>4, FS_CardinalityType
<1>6. Range(s) \subseteq Y
  BY <1>1 DEF Range
<1> QED
  BY <1>4, <1>5, <1>6

----------------------------------------------------------------------------
(* Listings.  R is a strict total order on S.                                *)
Orders(R, S) ==
  /\ \A x \in S : <<x, x>> \notin R
  /\ \A x, y, z \in S : <<x, y>> \in R /\ <<y, z>> \in R => <<x, z>> \in R
  /\ \A x, y \in S : x # y => <<x, y>> \in R \/ <<y, x>> \in R

Rising(s, R) == \A i, j \in DOMAIN s : i < j => <<s[i], s[j]>> \in R

(* What goes before x in S. *)
Under(x, S, R) == {y \in S : <<y, x>> \in R}

(* The listing of a set holds its elements, each once, in order: the number  *)
(* of those before an element is its place.                                  *)
LEMMA ListingIs ==
  ASSUME NEW S, IsFiniteSet(S), NEW R, Orders(R, S)
  PROVE  /\ Listing(S, R) \in Seq(S) /\ Len(Listing(S, R)) = Cardinality(S)
         /\ Cardinality(S) \in Nat /\ Range(Listing(S, R)) = S
         /\ Rising(Listing(S, R), R)
         /\ \A i \in DOMAIN Listing(S, R) :
              Cardinality(Under(Listing(S, R)[i], S, R)) = i - 1
<1> DEFINE n == Cardinality(S)
           L == Listing(S, R)
           place == [x \in S |-> Cardinality(Under(x, S, R)) + 1]
<1>1. n \in Nat
  BY FS_CardinalityType
<1>2. ASSUME NEW x \in S
      PROVE  /\ IsFiniteSet(Under(x, S, R)) /\ Cardinality(Under(x, S, R)) \in Nat
             /\ Cardinality(Under(x, S, R)) < n
  <2>1. IsFiniteSet(S \ {x}) /\ Cardinality(S \ {x}) = n - 1
    BY FS_RemoveElement
  <2>2. Under(x, S, R) \in SUBSET (S \ {x})
    BY DEF Under, Orders
  <2>3. IsFiniteSet(Under(x, S, R)) /\ Cardinality(Under(x, S, R)) <= n - 1
    BY <2>1, <2>2, FS_Subset
  <2>4. Cardinality(Under(x, S, R)) \in Nat
    BY <2>3, FS_CardinalityType
  <2> QED
    BY <1>1, <2>3, <2>4
<1>3. ASSUME NEW x \in S, NEW y \in S, <<x, y>> \in R
      PROVE  Cardinality(Under(x, S, R)) < Cardinality(Under(y, S, R))
  <2>1. x \in Under(y, S, R) /\ x \notin Under(x, S, R)
    BY <1>3 DEF Under, Orders
  <2>2. Under(x, S, R) \in SUBSET Under(y, S, R)
    BY <1>3 DEF Under, Orders
  <2>3. /\ Cardinality(Under(x, S, R)) <= Cardinality(Under(y, S, R))
        /\ Cardinality(Under(x, S, R)) # Cardinality(Under(y, S, R))
    BY <1>2, <2>1, <2>2, FS_Subset
  <2> QED
    BY <1>2, <2>3
<1>4. place \in Injection(S, 1..n)
  <2>1. place \in [S -> 1..n]
    BY <1>1, <1>2
  <2>2. ASSUME NEW x \in S, NEW y \in S, x # y PROVE place[x] # place[y]
    <3>1. <<x, y>> \in R \/ <<y, x>> \in R
      BY <2>2 DEF Orders
    <3> QED
      BY <1>2, <1>3, <3>1
  <2> HIDE DEF place
  <2> QED
    BY <2>1, <2>2 DEF Injection, IsInjective
<1>5. place \in Surjection(S, 1..n)
  <2>1. IsFiniteSet(1..n) /\ Cardinality(1..n) = n
    BY <1>1, FS_Interval
  <2> HIDE DEF place
  <2> QED
    BY <1>4, <2>1, FS_Injection
<1>6. \A i \in 1..n : \E x \in S : place[x] = i
  BY <1>5 DEF Surjection
<1>7. \A i \in 1..n : \E x \in S : Cardinality({y \in S : <<y, x>> \in R}) = i - 1
  <2> TAKE i \in 1..n
  <2>1. PICK x \in S : place[x] = i
    BY <1>6
  <2>2. Cardinality(Under(x, S, R)) = i - 1
    BY <1>1, <1>2, <2>1
  <2> QED
    BY <2>2 DEF Under
<1>8. DOMAIN L = 1..n /\ \A i \in 1..n : L[i] \in S /\ Cardinality(Under(L[i], S, R)) = i - 1
  <2>1. L = [i \in 1..n |-> CHOOSE x \in S : Cardinality({y \in S : <<y, x>> \in R}) = i - 1]
    BY DEF Listing
  <2> HIDE DEF L
  <2>2. ASSUME NEW i \in 1..n
        PROVE  L[i] \in S /\ Cardinality({y \in S : <<y, L[i]>> \in R}) = i - 1
    BY <1>7, <2>1
  <2> QED
    BY <2>1, <2>2 DEF Under
<1>9. L \in Seq(S) /\ Len(L) = n
  <2>1. L \in [1..n -> S]
    <3>1. L = [i \in 1..n |-> CHOOSE x \in S : Cardinality({y \in S : <<y, x>> \in R}) = i - 1]
      BY DEF Listing
    <3> HIDE DEF L
    <3> QED
      BY <1>8, <3>1
  <2> HIDE DEF L, n
  <2> QED
    BY <1>1, <2>1
<1>10. Range(L) = S
  <2> HIDE DEF L, n
  <2>1. ASSUME NEW x \in S PROVE \E i \in 1..n : L[i] = x
    <3>1. place[x] \in 1..n
      BY <1>4 DEF Injection
    <3>2. PICK i \in 1..n : i = place[x]
      BY <3>1
    <3>3. L[i] \in S /\ place[L[i]] = i
      BY <1>1, <1>8
    <3> HIDE DEF place
    <3>4. L[i] = x
      BY <1>4, <3>2, <3>3 DEF Injection, IsInjective
    <3> QED
      BY <3>4
  <2> QED
    BY <1>8, <2>1 DEF Range
<1>11. Rising(L, R)
  <2> HIDE DEF L
  <2>1. ASSUME NEW i \in 1..n, NEW j \in 1..n, i < j PROVE <<L[i], L[j]>> \in R
    <3>1. L[i] # L[j]
      BY <1>1, <1>8, <2>1
    <3>2. <<L[i], L[j]>> \in R \/ <<L[j], L[i]>> \in R
      BY <1>8, <3>1 DEF Orders
    <3>3. ~(<<L[j], L[i]>> \in R)
      BY <1>1, <1>3, <1>8, <2>1
    <3> QED
      BY <3>2, <3>3
  <2> QED
    BY <1>8, <2>1 DEF Rising
<1> QED
  BY <1>1, <1>8, <1>9, <1>10, <1>11

(* The numbers of a finite set, from the least to the greatest. *)
LEMMA IncreasingIs ==
  ASSUME NEW I, IsFiniteSet(I), I \subseteq Int
  PROVE  /\ Increasing(I) \in Seq(I) /\ Len(Increasing(I)) = Cardinality(I)
         /\ Range(Increasing(I)) = I /\ Cardinality(I) \in Nat
         /\ \A k, l \in DOMAIN Increasing(I) : k < l => Increasing(I)[k] < Increasing(I)[l]
<1> DEFINE R == {q \in I \X I : q[1] < q[2]}
<1>1. \A x, y \in I : <<x, y>> \in R <=> x < y
  OBVIOUS
<1> HIDE DEF R
<1>2. Orders(R, I)
  BY <1>1 DEF Orders
<1>3. Increasing(I) = Listing(I, R)
  BY DEF Increasing, R
<1>4. /\ Listing(I, R) \in Seq(I) /\ Len(Listing(I, R)) = Cardinality(I)
      /\ Cardinality(I) \in Nat /\ Range(Listing(I, R)) = I /\ Rising(Listing(I, R), R)
  BY <1>2, ListingIs
<1> DEFINE s == Increasing(I)
<1>5. s \in Seq(I) /\ Len(s) = Cardinality(I) /\ Range(s) = I /\ Cardinality(I) \in Nat
  BY <1>3, <1>4
<1>6. \A k, l \in DOMAIN s : k < l => s[k] < s[l]
  <2>1. Rising(s, R)
    BY <1>3, <1>4
  <2>2. \A k \in DOMAIN s : s[k] \in I
    BY <1>5
  <2> HIDE DEF s
  <2> QED
    BY <1>1, <2>1, <2>2 DEF Rising
<1> QED
  BY <1>5, <1>6

(* No element stands twice. *)
Once(s) == \A i, j \in DOMAIN s : s[i] = s[j] => i = j

LEMMA OnceCounts ==
  ASSUME NEW Y, NEW s \in Seq(Y), Once(s)
  PROVE  IsFiniteSet(Range(s)) /\ Len(s) = Cardinality(Range(s)) /\ Range(s) \subseteq Y
<1> DEFINE n == Len(s)
<1>1. n \in Nat /\ DOMAIN s = 1..n /\ s \in [1..n -> Y]
  OBVIOUS
<1> HIDE DEF n
<1>2. s \in Bijection(1..n, Range(s))
  BY <1>1 DEF Once, Bijection, Injection, Surjection, IsInjective, Range
<1>3. IsFiniteSet(1..n) /\ Cardinality(1..n) = n
  BY <1>1, FS_Interval
<1>4. IsFiniteSet(Range(s)) /\ Cardinality(Range(s)) = n
  BY <1>2, <1>3, FS_Bijection DEF ExistsBijection
<1>5. Range(s) \subseteq Y
  BY <1>1 DEF Range
<1> QED
  BY <1>4, <1>5 DEF n

----------------------------------------------------------------------------
(* Sums. *)
PartialSums(s, n) ==
  {f \in [0..n -> Int] : f[0] = 0 /\ \A i \in 1..n : f[i] = f[i - 1] + s[i]}

(* A sum is what its partial sums end with.                                  *)
LEMMA SumIs ==
  ASSUME NEW n \in Nat, NEW s \in [1..n -> Int]
  PROVE  \E f \in PartialSums(s, n) : Sum(s) = f[n]
<1> DEFINE step == [i \in 1..n |-> [v \in Int |-> v + s[i]]]
           sum[i \in 0..n] == IF i = 0 THEN 0 ELSE sum[i - 1] + s[i]
<1>1. Len(s) = n
  OBVIOUS
<1>2. PICK f \in [0..n -> Int] : f[0] = 0 /\ \A i \in 1..n : f[i] = step[i][f[i - 1]]
  <2>1. step \in StepMaps(Int, n) /\ 0 \in Int
    BY DEF StepMaps
  <2> HIDE DEF step
  <2>2. Runs(Int, 0, n, step) # {}
    BY <2>1, RunExists
  <2> QED
    BY <2>2 DEF Runs
<1>3. \A i \in 1..n : f[i] = f[i - 1] + s[i]
  <2> TAKE i \in 1..n
  <2>1. f[i - 1] \in Int /\ s[i] \in Int
    OBVIOUS
  <2> QED
    BY <1>2, <2>1 DEF step
<1>4. \A i \in 0..n : f[i] = IF i = 0 THEN 0 ELSE f[i - 1] + s[i]
  <2>1. \A i \in 0..n : i # 0 => i \in 1..n
    OBVIOUS
  <2> QED
    BY <1>2, <1>3, <2>1
<1>5. f = [i \in 0..n |-> IF i = 0 THEN 0 ELSE f[i - 1] + s[i]]
  BY <1>2, <1>4
<1>6. sum = [i \in 0..n |-> IF i = 0 THEN 0 ELSE sum[i - 1] + s[i]]
  BY <1>5
<1>7. Sum(s) = sum[n]
  BY <1>1 DEF Sum
<1> HIDE DEF sum
<1> DEFINE T == {i \in 0..n : sum[i] = f[i]}
<1>8. 0 \in T
  BY <1>2, <1>6
<1>9. ASSUME NEW i \in 1..n, i - 1 \in T PROVE i \in T
  <2>1. i \in 0..n /\ i # 0
    OBVIOUS
  <2> QED
    BY <1>3, <1>6, <1>9, <2>1
<1>10. n \in T
  <2> HIDE DEF T
  <2>1. 0..n \subseteq T
    BY <1>8, <1>9, AllAlong
  <2> QED
    BY <2>1
<1> QED
  BY <1>2, <1>3, <1>7, <1>10 DEF PartialSums

LEMMA SumType ==
  ASSUME NEW n \in Nat, NEW s \in [1..n -> Int]
  PROVE  Sum(s) \in Int
BY SumIs DEF PartialSums

(* The squares of the distances from c, expanded.                            *)
LEMMA SquaresExpanded ==
  ASSUME NEW n \in Nat, NEW s \in [1..n -> Int],
         NEW S \in PartialSums(s, n),
         NEW Q \in PartialSums([i \in 1..n |-> s[i] * s[i]], n),
         NEW m \in 0..n, NEW b \in Int, NEW c \in Int,
         NEW d \in [1..m -> Int], \A i \in 1..m : d[i] = (b * s[i] - c) * (b * s[i] - c)
  PROVE  Sum(d) = b * b * Q[m] - 2 * b * c * S[m] + m * c * c
<1> m \in Nat
  OBVIOUS
<1>1. PICK D \in PartialSums(d, m) : Sum(d) = D[m]
  BY SumIs
<1> DEFINE T == {i \in 0..m : D[i] = b * b * Q[i] - 2 * b * c * S[i] + i * c * c}
<1>2. /\ S \in [0..n -> Int] /\ Q \in [0..n -> Int] /\ D \in [0..m -> Int]
      /\ S[0] = 0 /\ Q[0] = 0 /\ D[0] = 0
      /\ \A i \in 1..n : S[i] = S[i - 1] + s[i] /\ Q[i] = Q[i - 1] + s[i] * s[i]
      /\ \A i \in 1..m : D[i] = D[i - 1] + d[i]
  BY DEF PartialSums
<1>3. 0 \in T
  BY <1>2
<1>4. ASSUME NEW i \in 1..m, i - 1 \in T PROVE i \in T
  <2>1. i \in 1..n /\ i \in 0..n /\ i - 1 \in 0..n /\ i \in 0..m /\ i - 1 \in 0..m /\ i \in Int
    OBVIOUS
  <2> DEFINE x == s[i] S0 == S[i - 1] Q0 == Q[i - 1] D0 == D[i - 1]
  <2>2. x \in Int /\ S0 \in Int /\ Q0 \in Int /\ D0 \in Int
    BY <1>2, <2>1
  <2>3. /\ S[i] = S0 + x /\ Q[i] = Q0 + x * x
        /\ D[i] = D0 + (b * x - c) * (b * x - c)
        /\ D0 = b * b * Q0 - 2 * b * c * S0 + (i - 1) * c * c
    BY <1>2, <1>4, <2>1
  <2> HIDE DEF x, S0, Q0, D0
  <2>4. b * b * Q0 - 2 * b * c * S0 + (i - 1) * c * c + (b * x - c) * (b * x - c)
          = b * b * (Q0 + x * x) - 2 * b * c * (S0 + x) + i * c * c
    BY <2>1, <2>2
  <2> QED
    BY <2>1, <2>3, <2>4
<1>5. m \in T
  <2> HIDE DEF T
  <2>1. 0..m \subseteq T
    BY <1>3, <1>4, AllAlong
  <2> QED
    BY <2>1
<1> QED
  BY <1>1, <1>5

(* The squared differences of all pairs, expanded.                           *)
LEMMA PairsExpanded ==
  ASSUME NEW n \in Nat, NEW s \in [1..n -> Int],
         NEW S \in PartialSums(s, n),
         NEW Q \in PartialSums([i \in 1..n |-> s[i] * s[i]], n),
         NEW p, p = [i \in 1..n |->
                       Sum([j \in 1..(i - 1) |-> (s[i] - s[j]) * (s[i] - s[j])])]
  PROVE  Sum(p) = n * Q[n] - S[n] * S[n]
<1>1. /\ S \in [0..n -> Int] /\ Q \in [0..n -> Int] /\ S[0] = 0 /\ Q[0] = 0
      /\ \A i \in 1..n : S[i] = S[i - 1] + s[i] /\ Q[i] = Q[i - 1] + s[i] * s[i]
  BY DEF PartialSums
<1>2. ASSUME NEW i \in 1..n
      PROVE  p[i] = Q[i - 1] - 2 * s[i] * S[i - 1] + (i - 1) * s[i] * s[i]
  <2> DEFINE m == i - 1
             c == s[i]
             d == [j \in 1..m |-> (c - s[j]) * (c - s[j])]
  <2>1. m \in 0..n /\ c \in Int /\ 1 \in Int
    OBVIOUS
  <2>2. \A j \in 1..m : s[j] \in Int /\ (c - s[j]) * (c - s[j]) \in Int
    BY <2>1
  <2>3. p[i] = Sum(d)
    OBVIOUS
  <2> HIDE DEF m, c
  <2>4. d \in [1..m -> Int]
    BY <2>2
  <2>5. \A j \in 1..m : d[j] = (1 * s[j] - c) * (1 * s[j] - c)
    BY <2>1, <2>2
  <2> HIDE DEF d
  <2>6. Sum(d) = 1 * 1 * Q[m] - 2 * 1 * c * S[m] + m * c * c
    BY <2>1, <2>4, <2>5, SquaresExpanded
  <2>7. Q[m] \in Int /\ S[m] \in Int
    BY <1>1, <2>1
  <2>8. Sum(d) = Q[m] - 2 * c * S[m] + m * c * c
    BY <2>1, <2>6, <2>7
  <2> QED
    BY <2>3, <2>8 DEF m, c
<1>3. p \in [1..n -> Int]
  <2>1. \A i \in 1..n : p[i] \in Int
    <3> TAKE i \in 1..n
    <3>1. i - 1 \in 0..n /\ i \in Int /\ s[i] \in Int
      OBVIOUS
    <3>2. Q[i - 1] \in Int /\ S[i - 1] \in Int
      BY <1>1, <3>1
    <3>3. \A a, b, c, m \in Int : a - 2 * c * b + (m - 1) * c * c \in Int
      OBVIOUS
    <3>4. Q[i - 1] - 2 * s[i] * S[i - 1] + (i - 1) * s[i] * s[i] \in Int
      BY <3>1, <3>2, <3>3
    <3> QED
      BY <1>2, <3>4
  <2>2. p = [i \in 1..n |-> p[i]]
    OBVIOUS
  <2> QED
    BY <2>1, <2>2
<1>4. PICK P \in PartialSums(p, n) : Sum(p) = P[n]
  BY <1>3, SumIs
<1> DEFINE T == {i \in 0..n : P[i] = i * Q[i] - S[i] * S[i]}
<1>5. /\ P \in [0..n -> Int] /\ P[0] = 0 /\ \A i \in 1..n : P[i] = P[i - 1] + p[i]
  BY DEF PartialSums
<1>6. 0 \in T
  BY <1>1, <1>5
<1>7. ASSUME NEW i \in 1..n, i - 1 \in T PROVE i \in T
  <2>1. i \in 0..n /\ i - 1 \in 0..n /\ i \in Int
    OBVIOUS
  <2> DEFINE x == s[i] S0 == S[i - 1] Q0 == Q[i - 1] P0 == P[i - 1]
  <2>2. x \in Int /\ S0 \in Int /\ Q0 \in Int /\ P0 \in Int
    BY <1>1, <1>5, <2>1
  <2>3. /\ S[i] = S0 + x /\ Q[i] = Q0 + x * x
        /\ P[i] = P0 + (Q0 - 2 * x * S0 + (i - 1) * x * x)
        /\ P0 = (i - 1) * Q0 - S0 * S0
    BY <1>1, <1>2, <1>5, <1>7
  <2> HIDE DEF x, S0, Q0, P0
  <2>4. (i - 1) * Q0 - S0 * S0 + (Q0 - 2 * x * S0 + (i - 1) * x * x)
          = i * (Q0 + x * x) - (S0 + x) * (S0 + x)
    BY <2>1, <2>2
  <2> QED
    BY <2>1, <2>3, <2>4
<1>8. n \in T
  <2> HIDE DEF T
  <2>1. 0..n \subseteq T
    BY <1>6, <1>7, AllAlong
  <2> QED
    BY <2>1
<1> QED
  BY <1>4, <1>8

(* Squared distances from the mean say the same as squared differences of    *)
(* pairs, here without a division.                                           *)
LEMMA VarianceByPairs ==
  ASSUME NEW n \in Nat, NEW s \in [1..n -> Int],
         NEW d, d = [i \in 1..n |-> (n * s[i] - Sum(s)) * (n * s[i] - Sum(s))],
         NEW p, p = [i \in 1..n |->
                       Sum([j \in 1..(i - 1) |-> (s[i] - s[j]) * (s[i] - s[j])])]
  PROVE  Sum(d) \in Int /\ Sum(p) \in Int /\ Sum(d) = n * Sum(p)
<1> DEFINE squares == [i \in 1..n |-> s[i] * s[i]]
<1>1. squares \in [1..n -> Int] /\ n \in Int /\ n \in 0..n
  OBVIOUS
<1>2. PICK S \in PartialSums(s, n) : Sum(s) = S[n]
  BY SumIs
<1>3. PICK Q \in PartialSums(squares, n) : Sum(squares) = Q[n]
  <2> HIDE DEF squares
  <2> QED
    BY <1>1, SumIs
<1> DEFINE c == S[n]
           q == Q[n]
<1>4. c \in Int /\ q \in Int
  BY DEF PartialSums
<1>5. Sum(d) = n * n * q - 2 * n * c * c + n * c * c
  <2> HIDE DEF c, q
  <2>1. \A i \in 1..n : s[i] \in Int /\ (n * s[i] - c) * (n * s[i] - c) \in Int
    BY <1>1, <1>4
  <2>2. d = [i \in 1..n |-> (n * s[i] - c) * (n * s[i] - c)]
    BY <1>2 DEF c
  <2>3. d \in [1..n -> Int] /\ \A i \in 1..n : d[i] = (n * s[i] - c) * (n * s[i] - c)
    BY <2>1, <2>2
  <2>4. Q \in PartialSums([i \in 1..n |-> s[i] * s[i]], n)
    OBVIOUS
  <2> HIDE DEF squares
  <2> DEFINE b == n
  <2>5. b \in Int /\ \A i \in 1..n : d[i] = (b * s[i] - c) * (b * s[i] - c)
    BY <1>1, <2>3
  <2> HIDE DEF b
  <2> DEFINE value(m) == b * b * Q[m] - 2 * b * c * S[m] + m * c * c
  <2>6. \A m \in 0..n : d \in [1..m -> Int] =>
          ((\A i \in 1..m : d[i] = (b * s[i] - c) * (b * s[i] - c)) => Sum(d) = value(m))
    BY <1>4, <2>4, <2>5, SquaresExpanded
  <2>7. Sum(d) = value(n)
    <3> HIDE DEF value
    <3> QED
      BY <1>1, <2>3, <2>5, <2>6
  <2> QED
    BY <2>7 DEF b, c, q
<1>6. Sum(p) = n * q - c * c
  BY PairsExpanded
<1> HIDE DEF c, q
<1>7. n * n * q - 2 * n * c * c + n * c * c = n * (n * q - c * c)
  BY <1>1, <1>4
<1> QED
  BY <1>1, <1>4, <1>5, <1>6, <1>7

----------------------------------------------------------------------------
(* Order statistics. *)
Below(s, v) == {i \in DOMAIN s : s[i] < v}
UpTo(s, v) == {i \in DOMAIN s : s[i] <= v}

(* v is the k-th smallest number of s.                                       *)
HasRank(s, v, k) ==
  v \in Range(s) /\ Cardinality(Below(s, v)) < k /\ Cardinality(UpTo(s, v)) >= k

(* There is one such number.                                                 *)
LEMMA RankIsOne ==
  ASSUME NEW n \in Nat, NEW s \in [1..n -> Int], NEW k \in Int, NEW v, NEW w,
         HasRank(s, v, k), HasRank(s, w, k)
  PROVE  v = w
<1>1. ASSUME NEW x \in Int, NEW y \in Int, HasRank(s, x, k), HasRank(s, y, k), x < y
      PROVE  FALSE
  <2>1. UpTo(s, x) \in SUBSET Below(s, y) /\ Below(s, y) \in SUBSET (1..n)
    BY <1>1 DEF UpTo, Below
  <2>2. IsFiniteSet(Below(s, y))
    BY <2>1, FS_Interval, FS_Subset
  <2>3. Cardinality(UpTo(s, x)) <= Cardinality(Below(s, y)) /\ IsFiniteSet(UpTo(s, x))
    BY <2>1, <2>2, FS_Subset
  <2>4. Cardinality(UpTo(s, x)) \in Nat /\ Cardinality(Below(s, y)) \in Nat
    BY <2>2, <2>3, FS_CardinalityType
  <2> QED
    BY <1>1, <2>3, <2>4 DEF HasRank
<1>2. v \in Int /\ w \in Int
  BY DEF HasRank, Range
<1> QED
  BY <1>1, <1>2

(* A sorted sequence has the k-th smallest number at its k-th place.         *)
LEMMA SortedIs ==
  ASSUME NEW n \in Nat, NEW s \in [1..n -> Int]
  PROVE  /\ Sorted(s) \in [1..n -> Int] /\ Len(Sorted(s)) = n
         /\ \A k \in 1..n : HasRank(s, Sorted(s)[k], k)
<1> DEFINE R == Sooner(s)
           places == Listing(1..n, R)
<1>1. DOMAIN s = 1..n /\ IsFiniteSet(1..n) /\ Cardinality(1..n) = n
  BY FS_Interval
<1>2. \A i, j \in 1..n : <<i, j>> \in R <=> s[i] < s[j] \/ (s[i] = s[j] /\ i < j)
  BY <1>1 DEF Sooner
<1>3. Sorted(s) = [k \in DOMAIN places |-> s[places[k]]]
  BY <1>1 DEF Sorted
<1> HIDE DEF R
<1>4. Orders(R, 1..n)
  <2>1. \A i \in 1..n : s[i] \in Int
    OBVIOUS
  <2>2. \A x \in 1..n : <<x, x>> \notin R
    BY <1>2, <2>1
  <2>3. ASSUME NEW x \in 1..n, NEW y \in 1..n, NEW z \in 1..n,
               <<x, y>> \in R, <<y, z>> \in R
        PROVE  <<x, z>> \in R
    <3> DEFINE a == s[x] b == s[y] c == s[z]
    <3>1. a \in Int /\ b \in Int /\ c \in Int /\ x \in Int /\ y \in Int /\ z \in Int
      BY <2>1
    <3>2. (a < b \/ (a = b /\ x < y)) /\ (b < c \/ (b = c /\ y < z))
      BY <1>2, <2>3
    <3>3. <<x, z>> \in R <=> a < c \/ (a = c /\ x < z)
      BY <1>2
    <3> HIDE DEF a, b, c
    <3> QED
      BY <3>1, <3>2, <3>3
  <2>4. \A x, y \in 1..n : x # y => <<x, y>> \in R \/ <<y, x>> \in R
    BY <1>2, <2>1
  <2> QED
    BY <2>2, <2>3, <2>4 DEF Orders
<1>5. /\ places \in Seq(1..n) /\ Len(places) = n
      /\ \A k \in DOMAIN places : Cardinality(Under(places[k], 1..n, R)) = k - 1
  BY <1>1, <1>4, ListingIs
<1> HIDE DEF places
<1>6. DOMAIN places = 1..n /\ \A k \in 1..n : places[k] \in 1..n
  BY <1>5
<1>7. Sorted(s) \in [1..n -> Int] /\ \A k \in 1..n : Sorted(s)[k] = s[places[k]]
  BY <1>3, <1>6
<1>8. Len(Sorted(s)) = n
  BY <1>7
<1>9. ASSUME NEW k \in 1..n PROVE HasRank(s, Sorted(s)[k], k)
  <2> DEFINE p == places[k]
             v == s[p]
             U == Under(p, 1..n, R)
  <2>1. p \in 1..n /\ v \in Int /\ Cardinality(U) = k - 1
    BY <1>5, <1>6
  <2> HIDE DEF p
  <2>2. U \in SUBSET (1..n) /\ p \notin U
    BY <1>4 DEF Under, Orders
  <2>3. IsFiniteSet(U)
    BY <1>1, <2>2, FS_Subset
  <2>4. Below(s, v) \in SUBSET U
    BY <1>1, <1>2, <2>1 DEF Below, Under
  <2>5. Cardinality(Below(s, v)) <= k - 1 /\ Cardinality(Below(s, v)) \in Nat
    BY <2>1, <2>3, <2>4, FS_Subset, FS_CardinalityType
  <2>6. U \cup {p} \in SUBSET UpTo(s, v) /\ UpTo(s, v) \in SUBSET (1..n)
    <3>1. \A i \in U : i \in 1..n /\ s[i] <= v
      BY <1>2, <2>1 DEF Under
    <3>2. v <= v
      BY <2>1
    <3> QED
      BY <1>1, <2>1, <3>1, <3>2 DEF UpTo
  <2>7. Cardinality(U \cup {p}) = k
    <3>1. Cardinality(U \cup {p}) = Cardinality(U) + 1
      BY <2>2, <2>3, FS_AddElement
    <3> QED
      BY <2>1, <3>1
  <2>8. IsFiniteSet(UpTo(s, v))
    BY <1>1, <2>6, FS_Subset
  <2>9. Cardinality(UpTo(s, v)) >= k /\ Cardinality(UpTo(s, v)) \in Nat
    <3>1. Cardinality(U \cup {p}) <= Cardinality(UpTo(s, v))
      BY <2>6, <2>8, FS_Subset
    <3>2. Cardinality(UpTo(s, v)) \in Nat
      BY <2>8, FS_CardinalityType
    <3> QED
      BY <2>7, <3>1, <3>2
  <2>10. v \in Range(s)
    BY <1>1, <2>1 DEF Range
  <2>11. Cardinality(Below(s, v)) < k
    BY <2>5
  <2>12. HasRank(s, v, k)
    BY <2>9, <2>10, <2>11 DEF HasRank
  <2> QED
    BY <1>7, <2>12 DEF p
<1> QED
  BY <1>7, <1>8, <1>9

(* The last of a sorted sequence is the greatest, the first the least.       *)
LEMMA LastRankIsGreatest ==
  ASSUME NEW n \in Nat, NEW s \in [1..n -> Int], NEW v, HasRank(s, v, n)
  PROVE  v \in Int /\ v \in Range(s) /\ \A u \in Range(s) : u <= v
<1>1. DOMAIN s = 1..n /\ IsFiniteSet(1..n) /\ Cardinality(1..n) = n
  BY FS_Interval
<1>2. v \in Range(s) /\ v \in Int
  BY <1>1 DEF HasRank, Range
<1>3. UpTo(s, v) \in SUBSET (1..n)
  BY <1>1 DEF UpTo
<1>4. Cardinality(UpTo(s, v)) = n
  <2>1. Cardinality(UpTo(s, v)) <= n /\ Cardinality(UpTo(s, v)) \in Nat
    BY <1>1, <1>3, FS_Subset, FS_CardinalityType
  <2> QED
    BY <2>1 DEF HasRank
<1>5. UpTo(s, v) = 1..n
  BY <1>1, <1>3, <1>4, FS_Subset
<1>6. \A i \in 1..n : s[i] <= v
  BY <1>5 DEF UpTo
<1> QED
  BY <1>1, <1>2, <1>6 DEF Range

LEMMA FirstRankIsLeast ==
  ASSUME NEW n \in Nat, NEW s \in [1..n -> Int], NEW v, HasRank(s, v, 1)
  PROVE  v \in Int /\ v \in Range(s) /\ \A u \in Range(s) : v <= u
<1>1. DOMAIN s = 1..n /\ IsFiniteSet(1..n)
  BY FS_Interval
<1>2. v \in Range(s) /\ v \in Int
  BY <1>1 DEF HasRank, Range
<1>3. Below(s, v) \in SUBSET (1..n)
  BY <1>1 DEF Below
<1>4. Below(s, v) = {}
  <2>1. IsFiniteSet(Below(s, v))
    BY <1>1, <1>3, FS_Subset
  <2>2. Cardinality(Below(s, v)) \in Nat
    BY <2>1, FS_CardinalityType
  <2>3. Cardinality(Below(s, v)) = 0
    BY <2>2 DEF HasRank
  <2> QED
    BY <2>1, <2>3, FS_EmptySet
<1>5. \A i \in 1..n : ~(s[i] < v)
  BY <1>1, <1>4 DEF Below
<1> QED
  BY <1>1, <1>2, <1>5 DEF Range
=============================================================================
