---------------------------- MODULE OrderingProof ----------------------------
(***************************************************************************)
(* Facts about naturals, finite orders and loops over lists that the       *)
(* proofs of the other modules cite: the least element, induction over a   *)
(* range, loops as recursive functions, sorted and filtered lists.         *)
(***************************************************************************)
EXTENDS Ordering, SequencesExt, FiniteSetTheorems, SequenceTheorems, WellFoundedInduction, TLAPS

-----------------------------------------------------------------------------
(* The least and the greatest element of a set of naturals.                 *)

LEMMA LeastExists ==
  ASSUME NEW S \in SUBSET Nat, S # {}
  PROVE  \E m \in S : \A n \in S : m <= n
<1>1. PICK m \in S : \A n \in S : ~(<<n, m>> \in OpToRel(<, Nat))
  BY NatLessThanWellFounded, WFMin
<1>2. \A n \in S : ~(n < m)
  BY <1>1 DEF OpToRel
<1> QED
  BY <1>2

LEMMA MinOf ==
  ASSUME NEW S \in SUBSET Nat, S # {}
  PROVE  Min(S) \in S /\ \A n \in S : Min(S) <= n
BY LeastExists DEF Min

LEMMA MaxOf ==
  ASSUME NEW b \in Nat, NEW S \in SUBSET (0..b), S # {}
  PROVE  Max(S) \in S /\ \A n \in S : n <= Max(S)
<1> DEFINE T == {t \in Nat : \E n \in S : t = b - n}
<1>1. \A n \in S : n \in 0..b /\ b - n \in Nat
  OBVIOUS
<1>2. T \in SUBSET Nat /\ T # {}
  BY <1>1
<1>3. PICK t \in T : \A u \in T : t <= u
  BY <1>2, LeastExists
<1>4. PICK m \in S : t = b - m
  BY <1>3
<1>5. \A n \in S : n <= m
  <2>1. TAKE n \in S
  <2>2. b - n \in T
    BY <1>1
  <2> QED
    BY <1>1, <1>3, <1>4, <2>2
<1>6. \A n \in S : m >= n
  BY <1>1, <1>5
<1>7. Max(S) \in S /\ \A n \in S : Max(S) >= n
  BY <1>6 DEF Max
<1> QED
  BY <1>1, <1>7

-----------------------------------------------------------------------------
(* Loops.                                                                   *)

\* Induction over the turns of a loop: P is the set of turns after which the invariant holds.
LEMMA TurnInduction ==
  ASSUME NEW N \in Nat, NEW P, 0 \in P, \A n \in 1..N : n - 1 \in P => n \in P
  PROVE  \A n \in 0..N : n \in P
<1> DEFINE Bad == {n \in 0..N : n \notin P}
<1> SUFFICES ASSUME Bad # {} PROVE FALSE
  OBVIOUS
<1>1. Bad \in SUBSET Nat
  OBVIOUS
<1>2. PICK m \in Bad : \A n \in Bad : m <= n
  BY <1>1, LeastExists
<1>3. m # 0 /\ m \in 1..N
  OBVIOUS
<1>4. m - 1 \in 0..N /\ ~(m <= m - 1)
  BY <1>3
<1>5. m - 1 \in P
  BY <1>2, <1>4
<1> QED
  BY <1>3, <1>5

\* A loop of N turns from x0 through the states X; turn n goes from x to G[<<n, x>>].
Runs(f, N, X, x0, G) == f \in [0..N -> X] /\ f[0] = x0 /\ \A n \in 1..N : f[n] = G[<<n, f[n - 1]>>]

LEMMA LoopRuns ==
  ASSUME NEW N \in Nat, NEW X, NEW x0 \in X, NEW G \in [(1..N) \X X -> X]
  PROVE  \E f : Runs(f, N, X, x0, G)
<1> DEFINE P == {n \in 0..N : \E f : Runs(f, n, X, x0, G)}
<1>1. 0 \in P
  <2>1. Runs([n \in 0..0 |-> x0], 0, X, x0, G)
    BY DEF Runs
  <2> QED
    BY <2>1
<1>2. ASSUME NEW n \in 1..N, n - 1 \in P
      PROVE  n \in P
  <2>1. PICK f : Runs(f, n - 1, X, x0, G)
    BY <1>2
  <2>2. f[n - 1] \in X
    BY <2>1 DEF Runs
  <2> DEFINE g == [m \in 0..n |-> IF m = n THEN G[<<n, f[n - 1]>>] ELSE f[m]]
  <2>3. G[<<n, f[n - 1]>>] \in X
    BY <2>2
  <2>4. \A m \in 0..n : m # n => m \in 0..(n - 1) /\ g[m] = f[m]
    OBVIOUS
  <2>5. g \in [0..n -> X]
    BY <2>1, <2>3 DEF Runs
  <2>6. g[0] = x0
    BY <2>1 DEF Runs
  <2>7. g[n] = G[<<n, g[n - 1]>>]
    BY <2>4
  <2>8. \A m \in 1..n : g[m] = G[<<m, g[m - 1]>>]
    <3>1. TAKE m \in 1..n
    <3>2. CASE m = n
      BY <3>2, <2>7
    <3>3. CASE m # n
      <4>1. m \in 1..(n - 1) /\ m - 1 \in 0..n /\ m - 1 # n
        BY <3>3
      <4>2. f[m] = G[<<m, f[m - 1]>>]
        BY <2>1, <4>1 DEF Runs
      <4> QED
        BY <2>4, <3>3, <4>1, <4>2
    <3> QED
      BY <3>2, <3>3
  <2>9. Runs(g, n, X, x0, G)
    BY <2>5, <2>6, <2>8 DEF Runs
  <2> QED
    BY <2>9
<1> HIDE DEF P
<1>3. N \in P
  BY <1>1, <1>2, TurnInduction
<1> QED
  BY <1>3 DEF P

\* Of finitely many scores one is the greatest, the earliest where they tie.
LEMMA BestExists ==
  ASSUME NEW N \in Nat, NEW S \in SUBSET (1..N), S # {}, NEW f, \A i \in S : f[i] \in Int
  PROVE  \E i \in S : \A j \in S : f[j] < f[i] \/ (f[j] = f[i] /\ i <= j)
<1> DEFINE Best(n, i) == i <= n /\ \A j \in S : j <= n => f[j] < f[i] \/ (f[j] = f[i] /\ i <= j)
           P == {n \in 0..N : (\E i \in S : i <= n) => \E i \in S : Best(n, i)}
<1>1. 0 \in P
  OBVIOUS
<1>2. ASSUME NEW n \in 1..N, n - 1 \in P
      PROVE  n \in P
  <2>1. \A j \in S : j \in Nat /\ (j <= n <=> j <= n - 1 \/ j = n)
    OBVIOUS
  <2>2. CASE n \notin S
    <3>1. \A j \in S : j <= n <=> j <= n - 1
      BY <2>1, <2>2
    <3> QED
      BY <1>2, <3>1
  <2>3. CASE n \in S /\ ~(\E i \in S : i <= n - 1)
    <3>1. Best(n, n)
      BY <2>1, <2>3
    <3> QED
      BY <2>3, <3>1
  <2>4. CASE n \in S /\ \E i \in S : i <= n - 1
    <3>1. PICK i \in S : Best(n - 1, i)
      BY <1>2, <2>4
    <3>2. f[i] \in Int /\ f[n] \in Int
      BY <2>4
    <3>3. i <= n /\ i < n
      BY <2>1, <3>1
    <3>4. CASE f[n] > f[i]
      <4>1. \A j \in S : j <= n - 1 => f[j] < f[n]
        BY <3>1, <3>2, <3>4
      <4>2. Best(n, n)
        BY <2>1, <4>1
      <4> QED
        BY <2>4, <4>2
    <3>5. CASE ~(f[n] > f[i])
      <4>1. f[n] < f[i] \/ (f[n] = f[i] /\ i <= n)
        BY <3>2, <3>3, <3>5
      <4>2. Best(n, i)
        BY <2>1, <3>1, <3>3, <4>1
      <4> QED
        BY <4>2
    <3> QED
      BY <3>4, <3>5
  <2> QED
    BY <2>2, <2>3, <2>4
<1> HIDE DEF P
<1>3. N \in P
  BY <1>1, <1>2, TurnInduction
<1>4. \A j \in S : j <= N
  OBVIOUS
<1> QED
  BY <1>3, <1>4 DEF P

-----------------------------------------------------------------------------
(* Sorted lists.                                                            *)

\* R orders S strictly and totally.
Orders(R, S) ==
    /\ \A x \in S : <<x, x>> \notin R
    /\ \A x, y, z \in S : <<x, y>> \in R /\ <<y, z>> \in R => <<x, z>> \in R
    /\ \A x, y \in S : x = y \/ <<x, y>> \in R \/ <<y, x>> \in R

\* InOrder lists every element of S once, first to last under R.
LEMMA InOrderLists ==
  ASSUME NEW S, IsFiniteSet(S), NEW R, Orders(R, S)
  PROVE  /\ Cardinality(S) \in Nat
         /\ InOrder(S, R) \in [1..Cardinality(S) -> S]
         /\ \A x \in S : \E i \in 1..Cardinality(S) : InOrder(S, R)[i] = x
         /\ \A i, j \in 1..Cardinality(S) : i < j => <<InOrder(S, R)[i], InOrder(S, R)[j]>> \in R
<1>1. PICK N \in Nat : N = Cardinality(S)
  BY FS_CardinalityType
<1> DEFINE before(x) == {y \in S : <<y, x>> \in R}
           place == [x \in S |-> Cardinality(before(x))]
           q == InOrder(S, R)
<1> HIDE DEF q
<1>2. ASSUME NEW x \in S
      PROVE  IsFiniteSet(before(x)) /\ place[x] \in 0..(N - 1)
  <2>1. IsFiniteSet(before(x)) /\ Cardinality(before(x)) <= N /\ (Cardinality(before(x)) = N => before(x) = S)
    BY <1>1, FS_Subset
  <2>2. before(x) # S
    BY DEF Orders
  <2>3. Cardinality(before(x)) \in Nat
    BY <2>1, FS_CardinalityType
  <2> QED
    BY <1>1, <2>1, <2>2, <2>3
<1>3. place \in [S -> 0..(N - 1)]
  BY <1>2
<1> HIDE DEF place
<1>4. \A x \in S : place[x] \in Nat /\ place[x] < N
  BY <1>3
<1>5. ASSUME NEW x \in S, NEW y \in S, <<x, y>> \in R
      PROVE  place[x] < place[y]
  <2>1. before(x) \subseteq before(y) /\ x \in before(y) /\ x \notin before(x)
    BY <1>5 DEF Orders
  <2>2. IsFiniteSet(before(y))
    BY <1>2
  <2>3. Cardinality(before(x)) <= Cardinality(before(y)) /\ (Cardinality(before(x)) = Cardinality(before(y)) => before(x) = before(y))
    BY <2>1, <2>2, FS_Subset
  <2>4. place[x] <= place[y] /\ place[x] # place[y]
    BY <2>1, <2>3 DEF place
  <2> QED
    BY <1>4, <2>4
<1>6. \A x \in S : place[x] = Cardinality({y \in S : <<y, x>> \in R})
  BY DEF place
<1>7. q = [n \in 1..N |-> CHOOSE x \in S : Cardinality({y \in S : <<y, x>> \in R}) = n - 1]
  BY <1>1 DEF InOrder, q
<1>8. \A x, y \in S : place[x] = place[y] => x = y
  <2>1. TAKE x, y \in S
  <2>2. place[x] \in Nat /\ place[y] \in Nat
    BY <1>4
  <2>3. <<x, y>> \in R => place[x] < place[y]
    BY <1>5
  <2>4. <<y, x>> \in R => place[y] < place[x]
    BY <1>5
  <2>5. x = y \/ <<x, y>> \in R \/ <<y, x>> \in R
    BY DEF Orders
  <2> QED
    BY <2>2, <2>3, <2>4, <2>5
<1>9. \A n \in 1..N : \E x \in S : place[x] = n - 1
  <2>1. SUFFICES ASSUME NEW n \in 1..N, \A x \in S : place[x] # n - 1
                 PROVE  FALSE
    OBVIOUS
  <2> DEFINE T == (0..(N - 1)) \ {n - 1}
  <2>2. 0 \in Int /\ N - 1 \in Int /\ ~(0 > N - 1) /\ n - 1 \in 0..(N - 1)
    BY <1>1
  <2>3. IsFiniteSet(0..(N - 1)) /\ Cardinality(0..(N - 1)) = (N - 1) - 0 + 1
    BY <2>2, FS_Interval
  <2>4. IsFiniteSet(T) /\ Cardinality(T) = Cardinality(0..(N - 1)) - 1
    BY <2>2, <2>3, FS_RemoveElement, Zenon
  <2>5. place \in [S -> T]
    BY <1>3, <2>1
  <2> HIDE DEF T
  <2>6. Cardinality(T) < Cardinality(S)
    BY <1>1, <2>3, <2>4
  <2>7. \E x, y \in S : x # y /\ place[x] = place[y]
    BY <2>4, <2>5, <2>6, FS_PigeonHole
  <2> QED
    BY <1>8, <2>7
<1>10. \A n \in 1..N : q[n] \in S /\ place[q[n]] = n - 1
  <2>1. TAKE n \in 1..N
  <2>2. q[n] = CHOOSE x \in S : Cardinality({y \in S : <<y, x>> \in R}) = n - 1
    BY <1>7
  <2>3. \E x \in S : Cardinality({y \in S : <<y, x>> \in R}) = n - 1
    BY <1>6, <1>9
  <2>4. q[n] \in S /\ Cardinality({y \in S : <<y, q[n]>> \in R}) = n - 1
    BY <2>2, <2>3, Zenon
  <2> QED
    BY <1>6, <2>4
<1>11. q \in [1..N -> S]
  BY <1>7, <1>10
<1>12. \A x \in S : \E i \in 1..N : q[i] = x
  <2>1. TAKE x \in S
  <2>2. place[x] + 1 \in 1..N /\ (place[x] + 1) - 1 = place[x]
    BY <1>4
  <2>3. q[place[x] + 1] \in S /\ place[q[place[x] + 1]] = place[x]
    BY <1>10, <2>2
  <2>4. q[place[x] + 1] = x
    BY <1>8, <2>3
  <2> QED
    BY <2>2, <2>4
<1>13. \A i, j \in 1..N : i < j => <<q[i], q[j]>> \in R
  <2>1. SUFFICES ASSUME NEW i \in 1..N, NEW j \in 1..N, i < j
                 PROVE  <<q[i], q[j]>> \in R
    OBVIOUS
  <2>2. q[i] \in S /\ q[j] \in S /\ place[q[i]] = i - 1 /\ place[q[j]] = j - 1
    BY <1>10
  <2>3. q[i] # q[j]
    BY <2>1, <2>2
  <2>4. ~(place[q[j]] < place[q[i]])
    BY <2>1, <2>2
  <2> QED
    BY <1>5, <2>2, <2>3, <2>4 DEF Orders
<1> QED
  BY <1>1, <1>11, <1>12, <1>13 DEF q

-----------------------------------------------------------------------------
(* Filtered lists.                                                          *)

\* q lists the n elements of a set S of naturals, each once, in ascending order.
Ascending(q, n, S) ==
    /\ \A x \in S : \E i \in 1..n : q[i] = x
    /\ \A i, j \in 1..n : i < j => q[i] < q[j]
    /\ \A i, j \in 1..n : q[i] = q[j] => i = j

\* t is the list of the elements of s at the indices q lists, which are of X.
Drawn(t, s, q, n, X) ==
    /\ t \in Seq(X) /\ Len(t) = n /\ DOMAIN t = 1..n
    /\ \A k \in 1..n : t[k] = s[q[k]]

LEMMA IntervalSize ==
  ASSUME NEW n \in Nat
  PROVE  IsFiniteSet(1..n) /\ Cardinality(1..n) = n
<1>1. IsFiniteSet(1..n) /\ Cardinality(1..n) = IF 1 > n THEN 0 ELSE n - 1 + 1
  BY FS_Interval
<1> QED
  BY <1>1

LEMMA PickedLists ==
  ASSUME NEW N \in Nat, NEW S \in SUBSET (1..N), NEW X, NEW s, \A i \in S : s[i] \in X
  PROVE  \E n \in 0..N : \E q \in [1..n -> S] : Ascending(q, n, S) /\ Drawn(Picked(s, S), s, q, n, X)
<1> DEFINE R == {p \in S \X S : p[1] < p[2]}
           q == InOrder(S, R)
<1>1. IsFiniteSet(S) /\ Cardinality(S) \in 0..N
  <2>1. IsFiniteSet(1..N) /\ Cardinality(1..N) = N
    BY IntervalSize
  <2>2. IsFiniteSet(S) /\ Cardinality(S) <= N
    BY <2>1, FS_Subset
  <2>3. Cardinality(S) \in Nat
    BY <2>2, FS_CardinalityType
  <2> QED
    BY <2>2, <2>3
<1>2. PICK n \in 0..N : n = Cardinality(S)
  BY <1>1
<1>3. \A x, y \in S : <<x, y>> \in R <=> x < y
  OBVIOUS
<1>4. \A x \in S : x \in Nat
  OBVIOUS
<1> HIDE DEF R
<1>5. Orders(R, S)
  BY <1>3, <1>4 DEF Orders
<1>6. /\ q \in [1..n -> S]
      /\ \A x \in S : \E i \in 1..n : q[i] = x
      /\ \A i, j \in 1..n : i < j => <<q[i], q[j]>> \in R
  BY <1>1, <1>2, <1>5, InOrderLists
<1>7. Picked(s, S) = [k \in 1..n |-> s[q[k]]]
  BY <1>2 DEF Picked, R
<1> HIDE DEF q
<1>8. \A i, j \in 1..n : i < j => q[i] < q[j]
  BY <1>3, <1>6
<1>9. \A i, j \in 1..n : q[i] = q[j] => i = j
  <2>1. TAKE i, j \in 1..n
  <2>2. q[i] \in Nat /\ q[j] \in Nat
    BY <1>4, <1>6
  <2>3. (i < j => q[i] < q[j]) /\ (j < i => q[j] < q[i])
    BY <1>8
  <2> QED
    BY <2>2, <2>3
<1>10. Ascending(q, n, S)
  BY <1>6, <1>8, <1>9 DEF Ascending
<1>11. Picked(s, S) \in [1..n -> X] /\ \A k \in 1..n : Picked(s, S)[k] = s[q[k]]
  BY <1>6, <1>7
<1>12. Picked(s, S) \in Seq(X) /\ Len(Picked(s, S)) = n
  BY <1>11
<1>13. Drawn(Picked(s, S), s, q, n, X)
  BY <1>11, <1>12 DEF Drawn
<1> QED
  BY <1>6, <1>10, <1>13

\* q is ascending and no two elements it lists have the same key.
OncePerKey(q, n, key) ==
    /\ \A i, j \in 1..n : i < j => q[i] < q[j]
    /\ \A i, j \in 1..n : key[q[i]] = key[q[j]] => i = j

\* FirstOf keeps the order and no two elements of the same key.
LEMMA FirstOfLists ==
  ASSUME NEW N \in Nat, NEW X, NEW s, DOMAIN s = 1..N, \A i \in 1..N : s[i] \in X, NEW key
  PROVE  \E n \in 0..N : \E q \in [1..n -> 1..N] :
            Drawn(FirstOf(s, key), s, q, n, X) /\ OncePerKey(q, n, key)
<1> DEFINE S == {i \in DOMAIN s : \A j \in 1..(i - 1) : key[j] # key[i]}
<1>1. S \in SUBSET (1..N) /\ \A i \in S : s[i] \in X
  OBVIOUS
<1>2. \A i, j \in S : i < j => key[i] # key[j]
  OBVIOUS
<1>3. FirstOf(s, key) = Picked(s, S)
  BY DEF FirstOf
<1> HIDE DEF S
<1>4. PICK n \in 0..N : \E q \in [1..n -> S] : Ascending(q, n, S) /\ Drawn(Picked(s, S), s, q, n, X)
  BY <1>1, PickedLists
<1>5. PICK q \in [1..n -> S] : Ascending(q, n, S) /\ Drawn(Picked(s, S), s, q, n, X)
  BY <1>4
<1>6. \A i \in 1..n : q[i] \in S
  OBVIOUS
<1>7. \A i, j \in 1..n : i < j => q[i] < q[j]
  BY <1>5 DEF Ascending
<1>8. \A i, j \in 1..n : key[q[i]] = key[q[j]] => i = j
  <2>1. TAKE i, j \in 1..n
  <2>2. i < j => key[q[i]] # key[q[j]]
    BY <1>2, <1>6, <1>7
  <2>3. j < i => key[q[j]] # key[q[i]]
    BY <1>2, <1>6, <1>7
  <2> QED
    BY <2>2, <2>3
<1>9. q \in [1..n -> 1..N]
  BY <1>1
<1>10. OncePerKey(q, n, key)
  BY <1>7, <1>8 DEF OncePerKey
<1> QED
  BY <1>3, <1>5, <1>9, <1>10

\* What is drawn from a list has no more of a kind than the list.
LEMMA CountDrawn ==
  ASSUME NEW N \in Nat, NEW n \in Nat, NEW q \in [1..n -> 1..N], \A i, j \in 1..n : q[i] = q[j] => i = j,
         NEW A \in SUBSET (1..n), NEW B \in SUBSET (1..N), \A i \in A : q[i] \in B
  PROVE  IsFiniteSet(A) /\ Cardinality(A) <= Cardinality(B)
<1>1. IsFiniteSet(B)
  BY IntervalSize, FS_Subset
<1> DEFINE f == [i \in A |-> q[i]]
<1>2. f \in Injection(A, B)
  BY DEF Injection, IsInjective
<1> HIDE DEF f
<1> QED
  BY <1>1, <1>2, FS_Injection

-----------------------------------------------------------------------------
(* Lists one after another.                                                 *)

LEMMA HoldsBoth ==
  ASSUME NEW X, NEW s \in Seq(X), NEW t \in Seq(X)
  PROVE  ToSet(s \o t) = ToSet(s) \cup ToSet(t)
<1>1. /\ Len(s) \in Nat /\ Len(t) \in Nat /\ DOMAIN s = 1..Len(s) /\ DOMAIN t = 1..Len(t)
      /\ DOMAIN (s \o t) = 1..(Len(s) + Len(t))
      /\ \A i \in 1..(Len(s) + Len(t)) : (s \o t)[i] = IF i <= Len(s) THEN s[i] ELSE t[i - Len(s)]
  OBVIOUS
<1>2. ASSUME NEW x \in ToSet(s \o t)
      PROVE  x \in ToSet(s) \cup ToSet(t)
  <2>1. PICK i \in 1..(Len(s) + Len(t)) : x = (s \o t)[i]
    BY <1>1 DEF ToSet
  <2>2. i <= Len(s) \/ i - Len(s) \in 1..Len(t)
    BY <1>1
  <2> QED
    BY <1>1, <2>1, <2>2 DEF ToSet
<1>3. ASSUME NEW i \in 1..Len(s)
      PROVE  s[i] \in ToSet(s \o t)
  <2>1. i \in 1..(Len(s) + Len(t)) /\ (s \o t)[i] = s[i]
    BY <1>1
  <2> QED
    BY <1>1, <2>1 DEF ToSet
<1>4. ASSUME NEW i \in 1..Len(t)
      PROVE  t[i] \in ToSet(s \o t)
  <2>1. Len(s) + i \in 1..(Len(s) + Len(t)) /\ (s \o t)[Len(s) + i] = t[i]
    BY <1>1
  <2> QED
    BY <1>1, <2>1 DEF ToSet
<1> QED
  BY <1>1, <1>2, <1>3, <1>4 DEF ToSet

LEMMA PrefixGrows ==
  ASSUME NEW X, NEW t \in Seq(X), NEW n \in 1..Len(t)
  PROVE  /\ SubSeq(t, 1, n - 1) \in Seq(X) /\ t[n] \in X
         /\ SubSeq(t, 1, n) = Append(SubSeq(t, 1, n - 1), t[n])
<1>1. Len(t) \in Nat /\ n \in Nat /\ n - 1 \in Nat /\ n <= Len(t)
  OBVIOUS
<1>2. /\ SubSeq(t, 1, n - 1) \in Seq(X) /\ Len(SubSeq(t, 1, n - 1)) = n - 1
      /\ \A i \in 1..(n - 1) : SubSeq(t, 1, n - 1)[i] = t[i]
  BY <1>1
<1>3. t[n] \in X
  BY <1>1
<1>4. /\ SubSeq(t, 1, n) \in Seq(X) /\ Len(SubSeq(t, 1, n)) = n
      /\ \A i \in 1..n : SubSeq(t, 1, n)[i] = t[i]
  BY <1>1
<1> DEFINE u == Append(SubSeq(t, 1, n - 1), t[n])
<1>5. u \in Seq(X) /\ Len(u) = n /\ \A i \in 1..n : u[i] = t[i]
  BY <1>1, <1>2, <1>3
<1> HIDE DEF u
<1>6. u = SubSeq(t, 1, n)
  BY <1>4, <1>5, SeqEqual
<1> QED
  BY <1>2, <1>3, <1>6 DEF u

LEMMA PrefixEnds ==
  ASSUME NEW X, NEW t \in Seq(X)
  PROVE  SubSeq(t, 1, Len(t)) = t /\ SubSeq(t, 1, 0) = <<>>
OBVIOUS

LEMMA JoinAppend ==
  ASSUME NEW X, NEW s \in Seq(X), NEW t \in Seq(X), NEW x \in X
  PROVE  s \o Append(t, x) = Append(s \o t, x)
OBVIOUS

LEMMA AppendIsJoin ==
  ASSUME NEW X, NEW t \in Seq(X), NEW x \in X
  PROVE  t \o <<x>> = Append(t, x)
OBVIOUS

LEMMA JoinsRegroup ==
  ASSUME NEW X, NEW x \in Seq(X), NEW y \in Seq(X), NEW z \in Seq(X),
         NEW xy, xy = x \o y, NEW yz, yz = y \o z
  PROVE  x \o yz = xy \o z
BY ConcatAssociative

\* v is s and then t.
JoinOf(v, s, t) ==
    /\ Len(s) \in Nat /\ Len(t) \in Nat /\ Len(v) = Len(s) + Len(t) /\ DOMAIN v = 1..(Len(s) + Len(t))
    /\ \A i \in 1..(Len(s) + Len(t)) : v[i] = IF i <= Len(s) THEN s[i] ELSE t[i - Len(s)]

LEMMA JoinIs ==
  ASSUME NEW Y, NEW s \in Seq(Y), NEW t \in Seq(Y)
  PROVE  s \o t \in Seq(Y) /\ JoinOf(s \o t, s, t)
BY DEF JoinOf

ListOfLists(ss, X) == ss \in Seq(Seq(X))

\* f[n] is what the first n lists of ss make together.
Together(f, ss, X) ==
    /\ f \in [0..Len(ss) -> Seq(X)]
    /\ f[0] = <<>> /\ \A n \in 1..Len(ss) : f[n] = f[n - 1] \o ss[n]

LEMMA FlattenIs ==
  ASSUME NEW X, NEW ss, ListOfLists(ss, X)
  PROVE  \E f : Together(f, ss, X) /\ FlattenSeq(ss) = f[Len(ss)]
<1> DEFINE N == Len(ss)
           S == Seq(X)
           G == [p \in (1..N) \X S |-> p[2] \o ss[p[1]]]
           up == CHOOSE u : u = [n \in 1..N |-> IF n = 1 THEN ss[n] ELSE u[n - 1] \o ss[n]]
<1>1. N \in Nat /\ DOMAIN ss = 1..N /\ \A n \in 1..N : ss[n] \in S
  BY DEF ListOfLists
<1>2. FlattenSeq(ss) = IF N = 0 THEN ss ELSE up[N]
  BY Zenon DEF FlattenSeq
<1>3. <<>> \in S /\ \A x \in S : <<>> \o x = x
  BY ConcatEmptySeq
<1>4. N = 0 => ss = <<>>
  BY DEF ListOfLists
<1> HIDE DEF N
<1>5. \A n \in 1..N : \A x \in S : x \o ss[n] \in S
  BY <1>1
<1>6. G \in [(1..N) \X S -> S] /\ \A n \in 1..N : \A x \in S : G[<<n, x>>] = x \o ss[n]
  BY <1>5
<1> HIDE DEF S, G
<1>7. PICK f : Runs(f, N, S, <<>>, G)
  BY <1>1, <1>3, <1>6, LoopRuns
<1>8. f \in [0..N -> S] /\ f[0] = <<>> /\ \A n \in 1..N : f[n] = G[<<n, f[n - 1]>>]
  BY <1>7 DEF Runs
<1>9. \A n \in 1..N : f[n] = f[n - 1] \o ss[n]
  <2>1. TAKE n \in 1..N
  <2>2. n - 1 \in 0..N
    BY <1>1
  <2>3. f[n - 1] \in S
    BY <1>8, <2>2
  <2> QED
    BY <1>6, <1>8, <2>3
<1> DEFINE g == [n \in 1..N |-> f[n]]
<1>10. \A n \in 1..N : g[n] = IF n = 1 THEN ss[n] ELSE g[n - 1] \o ss[n]
  <2>1. TAKE n \in 1..N
  <2>2. CASE n = 1
    <3>1. 1 \in 1..N /\ 1 - 1 = 0
      BY <2>2
    <3>2. f[1] = <<>> \o ss[1]
      BY <1>8, <1>9, <3>1
    <3>3. f[1] = ss[1]
      BY <1>1, <1>3, <3>1, <3>2
    <3> QED
      BY <2>2, <3>3
  <2>3. CASE n # 1
    <3>1. n - 1 \in 1..N
      BY <1>1, <2>3
    <3> QED
      BY <1>9, <2>3, <3>1
  <2> QED
    BY <2>2, <2>3
<1>11. g = [n \in 1..N |-> IF n = 1 THEN ss[n] ELSE g[n - 1] \o ss[n]]
  <2>1. g = [n \in 1..N |-> g[n]]
    OBVIOUS
  <2> HIDE DEF g
  <2> QED
    BY <1>10, <2>1
<1> HIDE DEF g
<1>12. up = [n \in 1..N |-> IF n = 1 THEN ss[n] ELSE up[n - 1] \o ss[n]]
  BY <1>11
<1> HIDE DEF up
<1>13. \A n \in 1..N : up[n] = IF n = 1 THEN ss[n] ELSE up[n - 1] \o ss[n]
  BY <1>12
<1> DEFINE P == {n \in 0..N : n = 0 \/ up[n] = f[n]}
<1>14. 0 \in P
  BY <1>1
<1>15. ASSUME NEW n \in 1..N, n - 1 \in P
       PROVE  n \in P
  <2>1. n \in 0..N /\ up[n] = IF n = 1 THEN ss[n] ELSE up[n - 1] \o ss[n]
    BY <1>1, <1>13
  <2>2. f[n] = IF n = 1 THEN ss[n] ELSE f[n - 1] \o ss[n]
    <3>1. CASE n = 1
      <4>1. f[1] = f[0] \o ss[1] /\ ss[1] \in S
        BY <1>1, <1>9, <3>1
      <4>2. f[1] = ss[1]
        BY <1>3, <1>8, <4>1
      <4> QED
        BY <3>1, <4>2
    <3>2. CASE n # 1
      BY <1>9, <3>2
    <3> QED
      BY <3>1, <3>2
  <2>3. n # 1 => up[n - 1] = f[n - 1]
    BY <1>1, <1>15
  <2> QED
    BY <2>1, <2>2, <2>3
<1> HIDE DEF P
<1>a. N \in Nat
  BY <1>1
<1>16. N \in P
  BY ONLY <1>14, <1>15, <1>a, TurnInduction
<1>17. FlattenSeq(ss) = f[N]
  BY <1>2, <1>4, <1>8, <1>16 DEF P
<1>18. Together(f, ss, X)
  BY <1>8, <1>9 DEF Together, N, S
<1> QED
  BY <1>17, <1>18 DEF N

Agree(ss, tt, n) == \A i \in 1..n : ss[i] = tt[i]

LEMMA TogetherOnce ==
  ASSUME NEW X, NEW n \in Nat, NEW ss, ListOfLists(ss, X), NEW tt, ListOfLists(tt, X), NEW f, NEW g,
         Together(f, ss, X), Together(g, tt, X), n <= Len(ss), n <= Len(tt), Agree(ss, tt, n)
  PROVE  f[n] = g[n]
<1> DEFINE P == {i \in 0..n : f[i] = g[i]}
<1>1. 0 \in P
  BY DEF Together
<1>2. ASSUME NEW i \in 1..n, i - 1 \in P
      PROVE  i \in P
  <2>1. i \in 1..Len(ss) /\ i \in 1..Len(tt) /\ ss[i] = tt[i]
    BY DEF ListOfLists, Agree
  <2>2. f[i] = f[i - 1] \o ss[i] /\ g[i] = g[i - 1] \o tt[i]
    BY <2>1 DEF Together
  <2>3. f[i - 1] = g[i - 1] /\ i \in 0..n
    BY <1>2
  <2>4. f[i] = g[i]
    BY <2>1, <2>2, <2>3
  <2> QED
    BY <2>3, <2>4
<1> HIDE DEF P
<1>3. n \in P
  BY ONLY n \in Nat, <1>1, <1>2, TurnInduction
<1> QED
  BY <1>3 DEF P

LEMMA FlattenTyped ==
  ASSUME NEW X, NEW ss, ListOfLists(ss, X)
  PROVE  FlattenSeq(ss) \in Seq(X)
<1>1. PICK f : Together(f, ss, X) /\ FlattenSeq(ss) = f[Len(ss)]
  BY FlattenIs
<1>2. Len(ss) \in 0..Len(ss)
  BY DEF ListOfLists
<1> QED
  BY <1>1, <1>2 DEF Together

LEMMA FlattenNothing == FlattenSeq(<<>>) = <<>>
BY DEF FlattenSeq

LEMMA FlattenAppend ==
  ASSUME NEW X, NEW ss, ListOfLists(ss, X), NEW s \in Seq(X)
  PROVE  FlattenSeq(Append(ss, s)) = FlattenSeq(ss) \o s
<1> DEFINE tt == Append(ss, s)
           N == Len(ss)
<1>1. ListOfLists(tt, X) /\ Len(tt) = N + 1 /\ tt[N + 1] = s /\ N \in Nat /\ \A i \in 1..N : ss[i] = tt[i]
  BY DEF ListOfLists
<1>2. PICK f : Together(f, ss, X) /\ FlattenSeq(ss) = f[Len(ss)]
  BY FlattenIs
<1> HIDE DEF tt
<1>3. PICK g : Together(g, tt, X) /\ FlattenSeq(tt) = g[Len(tt)]
  BY <1>1, FlattenIs
<1>4. N <= Len(ss) /\ N <= Len(tt)
  BY <1>1
<1> HIDE DEF N
<1>a. N \in Nat /\ ListOfLists(tt, X) /\ Agree(ss, tt, N)
  BY <1>1 DEF Agree
<1>5. f[N] = g[N]
  BY <1>a, <1>2, <1>3, <1>4, TogetherOnce
<1>6. N + 1 \in 1..Len(tt) /\ (N + 1) - 1 = N
  BY <1>1
<1>7. g[N + 1] = g[N] \o s
  BY <1>1, <1>3, <1>6 DEF Together
<1> QED
  BY <1>1, <1>2, <1>3, <1>5, <1>7 DEF N, tt

LEMMA TwoJoins ==
  ASSUME NEW X, NEW a, NEW b, NEW c, a \in Seq(X), b \in Seq(X), c \in Seq(X)
  PROVE  (a \o b) \o c = a \o (b \o c)
BY ConcatAssociative

LEMMA FlattenConcat ==
  ASSUME NEW X, NEW ss, ListOfLists(ss, X), NEW tt, ListOfLists(tt, X)
  PROVE  FlattenSeq(ss \o tt) = FlattenSeq(ss) \o FlattenSeq(tt)
<1> DEFINE uu == ss \o tt
           M == Len(ss)
           N == Len(tt)
<1>1. /\ ListOfLists(uu, X) /\ Len(uu) = M + N /\ M \in Nat /\ N \in Nat
      /\ \A i \in 1..M : uu[i] = ss[i] /\ \A j \in 1..N : uu[M + j] = tt[j]
  BY DEF ListOfLists
<1>b. \A j \in 1..N : uu[M + j] = tt[j]
  BY <1>1
<1>2. \A j \in 1..N : tt[j] \in Seq(X)
  BY DEF ListOfLists
<1>3. PICK f : Together(f, ss, X) /\ FlattenSeq(ss) = f[Len(ss)]
  BY FlattenIs
<1>4. PICK g : Together(g, tt, X) /\ FlattenSeq(tt) = g[Len(tt)]
  BY FlattenIs
<1> HIDE DEF uu
<1>5. PICK h : Together(h, uu, X) /\ FlattenSeq(uu) = h[Len(uu)]
  BY <1>1, FlattenIs
<1> HIDE DEF M, N
<1>6. h[M] = f[M]
  <2>1. M <= Len(ss) /\ M <= Len(uu)
    BY <1>1 DEF M
  <2>2. M \in Nat /\ ListOfLists(uu, X) /\ Agree(ss, uu, M)
    BY <1>1 DEF Agree
  <2>3. f[M] = h[M]
    BY <1>3, <1>5, <2>1, <2>2, TogetherOnce
  <2> QED
    BY <2>3
<1>7. f[M] \in Seq(X) /\ g \in [0..N -> Seq(X)] /\ g[0] = <<>>
      /\ \A j \in 1..N : g[j] = g[j - 1] \o tt[j]
  <2>1. M \in 0..M
    BY <1>1
  <2> QED
    BY <1>3, <1>4, <2>1 DEF Together, M, N
<1>8. \A j \in 1..N : h[M + j] = h[M + (j - 1)] \o tt[j]
  <2>1. TAKE j \in 1..N
  <2>2. M + j \in 1..Len(uu) /\ (M + j) - 1 = M + (j - 1)
    BY <1>1
  <2>3. h[M + j] = h[(M + j) - 1] \o uu[M + j]
    BY <1>5, <2>2 DEF Together
  <2>4. uu[M + j] = tt[j]
    BY ONLY <1>b, j \in 1..N
  <2> QED
    BY <2>2, <2>3, <2>4
<1> DEFINE P == {j \in 0..N : h[M + j] = f[M] \o g[j]}
<1>9. 0 \in P
  <2>1. M + 0 = M /\ 0 \in 0..N
    BY <1>1
  <2>2. f[M] \o <<>> = f[M]
    BY <1>7, ConcatEmptySeq
  <2>3. h[M + 0] = f[M] \o g[0]
    BY <1>6, <1>7, <2>1, <2>2
  <2> QED
    BY <2>1, <2>3
<1>10. ASSUME NEW j \in 1..N, j - 1 \in P
       PROVE  j \in P
  <2>1. h[M + (j - 1)] = f[M] \o g[j - 1]
    BY <1>10
  <2>2. j - 1 \in 0..N /\ j \in 0..N
    BY <1>1
  <2>3. g[j - 1] \in Seq(X) /\ tt[j] \in Seq(X) /\ f[M] \in Seq(X)
    BY <1>2, <1>7, <2>2
  <2>4. (f[M] \o g[j - 1]) \o tt[j] = f[M] \o (g[j - 1] \o tt[j])
    <3>1. PICK a, b, c : a = f[M] /\ b = g[j - 1] /\ c = tt[j]
      OBVIOUS
    <3>2. a \in Seq(X) /\ b \in Seq(X) /\ c \in Seq(X)
      BY <2>3, <3>1
    <3>3. (a \o b) \o c = a \o (b \o c)
      BY <3>2, ConcatAssociative, SMTT(30)
    <3> QED
      BY <3>1, <3>3
  <2>5. h[M + j] = h[M + (j - 1)] \o tt[j] /\ g[j] = g[j - 1] \o tt[j]
    BY <1>7, <1>8
  <2>6. h[M + j] = f[M] \o g[j]
    BY <2>1, <2>4, <2>5
  <2> QED
    BY <2>2, <2>6
<1> HIDE DEF P
<1>a. N \in Nat
  BY <1>1
<1>11. N \in P
  BY ONLY <1>a, <1>9, <1>10, TurnInduction
<1>12. h[M + N] = f[M] \o g[N]
  BY <1>11 DEF P
<1> QED
  BY <1>1, <1>3, <1>4, <1>5, <1>12 DEF M, N, uu

\* What the lists hold, together they hold.
LEMMA FlattenHolds ==
  ASSUME NEW X, NEW ss, ListOfLists(ss, X)
  PROVE  \A x : x \in ToSet(FlattenSeq(ss)) <=> \E i \in 1..Len(ss) : x \in ToSet(ss[i])
<1>1. PICK f : Together(f, ss, X) /\ FlattenSeq(ss) = f[Len(ss)]
  BY FlattenIs
<1> DEFINE N == Len(ss)
           P == {n \in 0..N : \A x : x \in ToSet(f[n]) <=> \E i \in 1..n : x \in ToSet(ss[i])}
<1>2. N \in Nat /\ \A n \in 1..N : ss[n] \in Seq(X)
  BY DEF ListOfLists
<1>3. f \in [0..N -> Seq(X)] /\ f[0] = <<>> /\ \A n \in 1..N : f[n] = f[n - 1] \o ss[n]
  BY <1>1 DEF Together
<1> HIDE DEF N
<1>4. 0 \in P
  <2>1. ToSet(f[0]) = {}
    BY <1>3 DEF ToSet
  <2> QED
    BY <1>2, <2>1
<1>5. ASSUME NEW n \in 1..N, n - 1 \in P
      PROVE  n \in P
  <2>1. n - 1 \in 0..N /\ n \in 0..N
    BY <1>2
  <2>2. f[n - 1] \in Seq(X) /\ ss[n] \in Seq(X) /\ f[n] = f[n - 1] \o ss[n]
    BY <1>2, <1>3, <2>1
  <2>3. ToSet(f[n]) = ToSet(f[n - 1]) \cup ToSet(ss[n])
    BY <2>2, HoldsBoth
  <2>4. \A x : x \in ToSet(f[n - 1]) <=> \E i \in 1..(n - 1) : x \in ToSet(ss[i])
    BY <1>5
  <2>5. \A i : i \in 1..n <=> i \in 1..(n - 1) \/ i = n
    OBVIOUS
  <2>6. \A x : x \in ToSet(f[n]) <=> \E i \in 1..n : x \in ToSet(ss[i])
    BY <2>3, <2>4, <2>5
  <2> QED
    BY <2>1, <2>6
<1> HIDE DEF P
<1>a. N \in Nat
  BY <1>2
<1>6. N \in P
  BY ONLY <1>a, <1>4, <1>5, TurnInduction
<1> QED
  BY <1>1, <1>6 DEF P, N

\* One more list.
LEMMA AppendedList ==
  ASSUME NEW X, NEW ss, ListOfLists(ss, X), NEW s \in Seq(X)
  PROVE  /\ ListOfLists(Append(ss, s), X) /\ Len(ss) \in Nat /\ Len(Append(ss, s)) = Len(ss) + 1
         /\ Append(ss, s)[Len(ss) + 1] = s /\ Agree(ss, Append(ss, s), Len(ss))
BY DEF ListOfLists, Agree
=============================================================================
