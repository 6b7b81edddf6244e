--------------------------- MODULE RetrievalProof ---------------------------
(***************************************************************************)
(* Proofs that retrieval sends every chunk to the reranker once, that the  *)
(* reranker only reorders, and that the context is sound, for any chunks,  *)
(* documents, sub-queries, limits, caps and budgets.                       *)
(***************************************************************************)
EXTENDS Retrieval, OrderingProof

-----------------------------------------------------------------------------
(* Fusion.                                                                  *)

LEMMA MinOfTwo ==
  ASSUME NEW a \in Nat, NEW b \in Nat
  PROVE  Min({a, b}) \in Nat /\ Min({a, b}) = IF a <= b THEN a ELSE b
<1>1. {a, b} \in SUBSET Nat /\ {a, b} # {}
  OBVIOUS
<1>2. Min({a, b}) \in {a, b} /\ \A n \in {a, b} : Min({a, b}) <= n
  BY <1>1, MinOf
<1> QED
  BY <1>2

LEMMA ListTyped ==
  ASSUME NEW M, NEW s \in Seq(M)
  PROVE  Len(s) \in Nat /\ DOMAIN s = 1..Len(s) /\ \A r \in 1..Len(s) : s[r] \in M
OBVIOUS

LEMMA WeightTyped ==
  ASSUME NEW M, NEW s \in Seq(M), NEW c
  PROVE  Weight(s, c) \in Int
<1>1. RrfK \in Nat /\ Scale \in Nat
  BY RetrievalAssumption DEF RetrievalAssumption
<1>2. CASE c \in ToSet(s)
  <2>1. \E r \in DOMAIN s : s[r] = c
    BY <1>2 DEF ToSet
  <2>2. Rank(s, c) \in DOMAIN s
    BY <2>1 DEF Rank
  <2>3. Rank(s, c) \in Nat /\ Rank(s, c) > 0
    BY <2>2, ListTyped
  <2>4. Weight(s, c) = Scale \div (RrfK + Rank(s, c))
    BY <1>2 DEF Weight
  <2> QED
    BY <1>1, <2>3, <2>4
<1>3. CASE c \notin ToSet(s)
  BY <1>3 DEF Weight
<1> QED
  BY <1>2, <1>3

\* A list of (chunk, score) as rrf_fuse leaves it: within the limit, of chunks of M, each once.
Candidates(s, M) ==
    /\ s \in Seq(M \X Int) /\ Len(s) <= CandidateLimit
    /\ \A r \in 1..Len(s) : s[r][1] \in M
    /\ \A q, r \in 1..Len(s) : s[q][1] = s[r][1] => q = r

LEMMA SeenOnce ==
  ASSUME NEW M, NEW v \in Seq(M), NEW k \in Seq(M), IsInjective(v), IsInjective(k),
         NEW t, t = Picked(k, {r \in DOMAIN k : k[r] \notin ToSet(v)})
  PROVE  v \o t \in Seq(M) /\ IsInjective(v \o t)
<1> DEFINE S == {r \in DOMAIN k : k[r] \notin ToSet(v)}
<1>1. Len(k) \in Nat /\ DOMAIN k = 1..Len(k) /\ Len(v) \in Nat /\ DOMAIN v = 1..Len(v)
  BY ListTyped
<1>2. S \in SUBSET (1..Len(k))
  BY <1>1
<1>3. \A r \in S : k[r] \in M /\ \A j \in 1..Len(v) : v[j] # k[r]
  BY <1>1, ListTyped DEF ToSet
<1> HIDE DEF S
<1>4. PICK n \in 0..Len(k) : \E q \in [1..n -> S] : Ascending(q, n, S) /\ Drawn(Picked(k, S), k, q, n, M)
  BY <1>1, <1>2, <1>3, PickedLists
<1>5. PICK q \in [1..n -> S] : Ascending(q, n, S) /\ Drawn(Picked(k, S), k, q, n, M)
  BY <1>4
<1>6. \A i \in 1..n : q[i] \in S
  OBVIOUS
<1>7. n \in Nat
  BY <1>1
<1>8. t \in Seq(M) /\ Len(t) = n /\ DOMAIN t = 1..n /\ \A i \in 1..n : t[i] = k[q[i]]
  BY <1>5 DEF S, Drawn
<1>9. \A i, j \in 1..n : t[i] = t[j] => i = j
  <2>1. TAKE i, j \in 1..n
  <2>2. q[i] \in DOMAIN k /\ q[j] \in DOMAIN k
    BY <1>1, <1>2, <1>6
  <2>3. q[i] = q[j] => i = j
    BY <1>5 DEF Ascending
  <2> QED
    BY <1>8, <2>2, <2>3 DEF IsInjective
<1>10. \A i \in 1..n, j \in 1..Len(v) : t[i] # v[j]
  BY <1>3, <1>6, <1>8
<1>11. v \o t \in Seq(M) /\ Len(v \o t) = Len(v) + n /\ DOMAIN (v \o t) = 1..(Len(v) + n)
  <2>1. t \in Seq(M) /\ Len(t) = n
    BY <1>8
  <2>2. v \o t \in Seq(M)
    BY <2>1
  <2>3. Len(v \o t) = Len(v) + n
    <3>1. JoinOf(v \o t, v, t)
      BY <2>1, JoinIs
    <3> QED
      BY <2>1, <3>1 DEF JoinOf
  <2> QED
    BY <2>2, <2>3, ListTyped
<1>12. ASSUME NEW i \in 1..(Len(v) + n), NEW j \in 1..(Len(v) + n), (v \o t)[i] = (v \o t)[j]
       PROVE  i = j
  <2>1. (v \o t)[i] = IF i <= Len(v) THEN v[i] ELSE t[i - Len(v)]
    BY <1>1, <1>8
  <2>2. (v \o t)[j] = IF j <= Len(v) THEN v[j] ELSE t[j - Len(v)]
    BY <1>1, <1>8
  <2>3. i <= Len(v) \/ i - Len(v) \in 1..n
    BY <1>1, <1>7
  <2>4. j <= Len(v) \/ j - Len(v) \in 1..n
    BY <1>1, <1>7
  <2>5. CASE i <= Len(v) /\ j <= Len(v)
    BY <1>1, <1>12, <2>1, <2>2, <2>5 DEF IsInjective
  <2>6. CASE i <= Len(v) /\ ~(j <= Len(v))
    <3>1. i \in 1..Len(v) /\ j - Len(v) \in 1..n
      BY <1>1, <2>4, <2>6
    <3> QED
      BY <1>10, <1>12, <2>1, <2>2, <2>6, <3>1
  <2>7. CASE ~(i <= Len(v)) /\ j <= Len(v)
    <3>1. j \in 1..Len(v) /\ i - Len(v) \in 1..n
      BY <1>1, <2>3, <2>7
    <3> QED
      BY <1>10, <1>12, <2>1, <2>2, <2>7, <3>1
  <2>8. CASE ~(i <= Len(v)) /\ ~(j <= Len(v))
    <3>1. i - Len(v) = j - Len(v)
      BY <1>9, <1>12, <2>1, <2>2, <2>3, <2>4, <2>8
    <3> QED
      BY <1>1, <1>7, <3>1
  <2> QED
    BY <2>5, <2>6, <2>7, <2>8
<1> QED
  BY <1>11, <1>12 DEF IsInjective

LEMMA FuseRanks ==
  ASSUME NEW M, NEW v \in Seq(M), NEW k \in Seq(M), IsInjective(v), IsInjective(k)
  PROVE  Candidates(Fuse(v, k), M)
<1> DEFINE seen == v \o Picked(k, {r \in DOMAIN k : k[r] \notin ToSet(v)})
           score == [r \in DOMAIN seen |-> Weight(v, seen[r]) + Weight(k, seen[r])]
           ahead == {p \in (DOMAIN seen) \X (DOMAIN seen) :
                         \/ score[p[1]] > score[p[2]]
                         \/ score[p[1]] = score[p[2]] /\ p[1] < p[2]}
           order == InOrder(DOMAIN seen, ahead)
           last == Min({CandidateLimit, Len(seen)})
<1>1. seen \in Seq(M) /\ IsInjective(seen)
  BY SeenOnce
<1>2. Fuse(v, k) = [n \in 1..last |-> <<seen[order[n]], score[order[n]]>>]
  BY DEF Fuse
<1> HIDE DEF seen
<1>3. Len(seen) \in Nat /\ DOMAIN seen = 1..Len(seen) /\ \A r \in 1..Len(seen) : seen[r] \in M
  BY <1>1, ListTyped
<1>4. \A r \in DOMAIN seen : Weight(v, seen[r]) \in Int /\ Weight(k, seen[r]) \in Int
  BY WeightTyped
<1>5. \A r \in DOMAIN seen : score[r] \in Int
  BY <1>4
<1> HIDE DEF score
<1>6. \A x, y \in DOMAIN seen :
         <<x, y>> \in ahead <=> score[x] > score[y] \/ (score[x] = score[y] /\ x < y)
  OBVIOUS
<1> HIDE DEF ahead
<1>7. Orders(ahead, DOMAIN seen)
  <2>1. \A x \in DOMAIN seen : x \in Nat
    BY <1>3
  <2>2. \A x \in DOMAIN seen : <<x, x>> \notin ahead
    BY <1>5, <1>6, <2>1
  <2>3. \A x, y \in DOMAIN seen : x = y \/ <<x, y>> \in ahead \/ <<y, x>> \in ahead
    <3>1. TAKE x, y \in DOMAIN seen
    <3>2. score[x] \in Int /\ score[y] \in Int /\ x \in Nat /\ y \in Nat
      BY <1>5, <2>1
    <3>3. score[x] > score[y] \/ score[y] > score[x] \/ score[x] = score[y]
      BY <3>2
    <3> QED
      BY <1>6, <3>2, <3>3
  <2>4. ASSUME NEW x \in DOMAIN seen, NEW y \in DOMAIN seen, NEW z \in DOMAIN seen,
               <<x, y>> \in ahead, <<y, z>> \in ahead
        PROVE  <<x, z>> \in ahead
    <3>1. score[x] \in Int /\ score[y] \in Int /\ score[z] \in Int /\ x \in Nat /\ y \in Nat /\ z \in Nat
      BY <1>5, <2>1
    <3>2. score[x] > score[y] \/ (score[x] = score[y] /\ x < y)
      BY <1>6, <2>4
    <3>3. score[y] > score[z] \/ (score[y] = score[z] /\ y < z)
      BY <1>6, <2>4
    <3>4. score[x] > score[z] \/ (score[x] = score[z] /\ x < z)
      BY <3>1, <3>2, <3>3
    <3> QED
      BY <1>6, <3>4
  <2> QED
    BY <2>2, <2>3, <2>4 DEF Orders
<1>8. IsFiniteSet(DOMAIN seen) /\ Cardinality(DOMAIN seen) = Len(seen)
  BY <1>3, IntervalSize
<1>9. /\ order \in [1..Len(seen) -> DOMAIN seen]
      /\ \A i, j \in 1..Len(seen) : i < j => <<order[i], order[j]>> \in ahead
  BY <1>7, <1>8, InOrderLists
<1> HIDE DEF order
<1>10. \A i, j \in 1..Len(seen) : i < j => order[i] # order[j]
  BY <1>7, <1>9 DEF Orders
<1>11. \A i, j \in 1..Len(seen) : seen[order[i]] = seen[order[j]] => i = j
  <2>1. TAKE i, j \in 1..Len(seen)
  <2>2. order[i] \in DOMAIN seen /\ order[j] \in DOMAIN seen
    BY <1>9
  <2>3. seen[order[i]] = seen[order[j]] => order[i] = order[j]
    BY <1>1, <2>2 DEF IsInjective
  <2> QED
    BY <1>3, <1>10, <2>3
<1>12. last \in Nat /\ last <= CandidateLimit /\ last <= Len(seen)
  <2>1. CandidateLimit \in Nat
    BY RetrievalAssumption DEF RetrievalAssumption
  <2> QED
    BY <1>3, <2>1, MinOfTwo
<1> HIDE DEF last
<1>13. \A n \in 1..last : n \in 1..Len(seen) /\ seen[order[n]] \in M /\ score[order[n]] \in Int
  <2>1. TAKE n \in 1..last
  <2>2. n \in 1..Len(seen)
    BY <1>3, <1>12
  <2>3. order[n] \in 1..Len(seen)
    BY <1>9, <2>2
  <2> QED
    BY <1>3, <1>5, <2>2, <2>3
<1>14. Fuse(v, k) \in [1..last -> M \X Int]
  BY <1>2, <1>13
<1>15. \A n \in 1..last : Fuse(v, k)[n][1] = seen[order[n]]
  BY <1>2
<1>16. Fuse(v, k) \in Seq(M \X Int) /\ Len(Fuse(v, k)) = last
  BY <1>12, <1>14
<1> QED
  BY <1>11, <1>12, <1>13, <1>15, <1>16 DEF Candidates

-----------------------------------------------------------------------------
(* The invariant.                                                           *)

RankedChunk == [id : Chunk, product : Product, version : Version, tokens : Nat, parent : Nat, whole : Nat]
Shaped ==
    /\ stage \in {"recall", "parents", "rank", "done", "failed"}
    /\ sub \in Seq(Scope)
    /\ candidates \in [DOMAIN sub -> Seq(Seq(Chunk \X Int))]
    /\ rows \subseteq Chunk
    /\ stage \in {"rank", "done"} => ranked \in [DOMAIN sub -> Seq(Seq(RankedChunk))]

\* Every sub-query that has its candidates has only chunks its filter admits, each once.
RecallSound ==
    /\ \A i \in DOMAIN sub : candidates[i] # Unset => Candidates(Found(i), Matching(i))
    /\ stage \in {"parents", "rank", "done"} => \A i \in DOMAIN sub : candidates[i] # Unset

RowsSound == asked.version # None => \A c \in rows : Row[c].version = asked.version

\* The outcome of a batch: of the servable chunks as many as the limit admits, each once.
Reordered(out, loaded, found) ==
    /\ \A r \in DOMAIN out : out[r].id \in found /\ out[r].version = Row[out[r].id].version
    /\ \A q, r \in DOMAIN out : out[q].id = out[r].id => q = r
    /\ \A r \in DOMAIN out : \E l \in DOMAIN loaded : loaded[l] = out[r].id
    /\ Len(out) = Min({TopN, Len(loaded)})
Outcome(i) == Reordered(ranked[i][1], Loaded(i), rows)

\* What LoadParents stored, of the candidates as they still are.
Results == [i \in DOMAIN sub |-> Found(i)]
Batches == RerankBatches(Results)

RankSound ==
    stage \in {"rank", "done"} =>
        /\ batches = Batches
        /\ \A i \in DOMAIN sub : ranked[i] # Unset => Outcome(i)

Reached == Shaped /\ RecallSound /\ RowsSound /\ RankSound /\ ContextSound

LEMMA RowTyped ==
  ASSUME NEW c \in Chunk
  PROVE  /\ Row[c].product \in Product /\ Row[c].version \in Version
         /\ Row[c].parent \in Nat /\ Row[c].tokens \in Nat /\ Row[c].whole \in Nat
BY RetrievalAssumption DEF RetrievalAssumption

LEMMA FoundTyped ==
  ASSUME Shaped, RecallSound, NEW i \in DOMAIN sub, candidates[i] # Unset
  PROVE  /\ Len(Found(i)) \in Nat /\ DOMAIN Found(i) = 1..Len(Found(i)) /\ Len(Found(i)) <= CandidateLimit
         /\ \A r \in 1..Len(Found(i)) : /\ Found(i)[r] \in Chunk \X Int
                                       /\ Found(i)[r][1] \in Matching(i)
         /\ \A q, r \in 1..Len(Found(i)) : Found(i)[q][1] = Found(i)[r][1] => q = r
<1>1. Candidates(Found(i), Matching(i))
  BY DEF RecallSound
<1>2. Found(i) \in Seq(Matching(i) \X Int)
  BY <1>1 DEF Candidates
<1>3. Len(Found(i)) \in Nat /\ DOMAIN Found(i) = 1..Len(Found(i))
      /\ \A r \in 1..Len(Found(i)) : Found(i)[r] \in Matching(i) \X Int
  BY <1>2, ListTyped
<1>4. Matching(i) \subseteq Chunk
  BY DEF Matching
<1>5. \A r \in 1..Len(Found(i)) : Found(i)[r] \in Chunk \X Int
  BY <1>3, <1>4
<1> QED
  BY <1>1, <1>3, <1>5 DEF Candidates

-----------------------------------------------------------------------------
(* The batches.                                                             *)

Pair == Chunk \X Int
Sending == [seen : [Chunk -> Int], owner : [Chunk -> Nat], batches : Seq(Seq(Pair)), unique : Seq(Pair)]
Apart(b) == \A k, l \in 1..Len(b) : b[k][1] = b[l][1] => k = l

\* w is b without the chunk c.
Lacks(w, b, c) ==
    /\ w \in Seq(Pair) /\ Len(w) <= Len(b) /\ (Apart(b) => Apart(w))
    /\ \A k \in 1..Len(w) : \E m \in 1..Len(b) : w[k] = b[m] /\ b[m][1] # c
    /\ \A m \in 1..Len(b) : b[m][1] # c => \E k \in 1..Len(w) : w[k] = b[m]

LEMMA WithoutIs ==
  ASSUME NEW b \in Seq(Pair), NEW c, NEW w, w = Without(b, c)
  PROVE  Lacks(w, b, c)
<1> DEFINE S == {r \in DOMAIN b : b[r][1] # c}
<1>1. Len(b) \in Nat /\ DOMAIN b = 1..Len(b) /\ \A r \in 1..Len(b) : b[r] \in Pair
  BY ListTyped
<1>2. S \in SUBSET (1..Len(b)) /\ \A r \in S : b[r] \in Pair /\ b[r][1] # c
  BY <1>1
<1>3. \A r \in 1..Len(b) : b[r][1] # c => r \in S
  BY <1>1
<1>4. w = Picked(b, S)
  BY DEF Without
<1> HIDE DEF S
<1>5. PICK n \in 0..Len(b) : \E q \in [1..n -> S] : Ascending(q, n, S) /\ Drawn(Picked(b, S), b, q, n, Pair)
  BY <1>1, <1>2, PickedLists
<1>6. PICK q \in [1..n -> S] : Ascending(q, n, S) /\ Drawn(Picked(b, S), b, q, n, Pair)
  BY <1>5
<1>7. w \in Seq(Pair) /\ Len(w) = n /\ \A k \in 1..n : w[k] = b[q[k]]
  BY <1>4, <1>6 DEF Drawn
<1>8. n \in Nat /\ \A k \in 1..n : q[k] \in S /\ q[k] \in 1..Len(b)
  <2>1. n \in Nat
    BY <1>1
  <2>2. \A k \in 1..n : q[k] \in S
    OBVIOUS
  <2> QED
    BY <1>2, <2>1, <2>2
<1>9. Apart(b) => Apart(w)
  <2>0. HAVE Apart(b)
  <2>1. \A k, l \in 1..n : w[k][1] = w[l][1] => k = l
    <3>1. TAKE k, l \in 1..n
    <3>2. b[q[k]][1] = b[q[l]][1] => q[k] = q[l]
      BY <1>8, <2>0 DEF Apart
    <3>3. q[k] = q[l] => k = l
      BY <1>6 DEF Ascending
    <3> QED
      BY <1>7, <3>2, <3>3
  <2> QED
    BY <1>7, <2>1 DEF Apart
<1>10. \A k \in 1..n : \E m \in 1..Len(b) : w[k] = b[m] /\ b[m][1] # c
  BY <1>2, <1>7, <1>8
<1>11. \A m \in S : \E k \in 1..n : q[k] = m
  BY <1>6 DEF Ascending
<1>12. \A m \in 1..Len(b) : b[m][1] # c => \E k \in 1..n : w[k] = b[m]
  BY <1>3, <1>7, <1>11
<1>13. Len(w) <= Len(b)
  BY <1>1, <1>7
<1> QED
  BY <1>7, <1>9, <1>10, <1>12, <1>13 DEF Lacks

\* b is what batch j has of the first k candidates of found: the chunks it owns, each once with the
\* score that was seen.
Has(b, j, found, k, seen, owner) ==
    /\ b \in Seq(Pair) /\ Len(b) <= k /\ Apart(b)
    /\ \A m \in 1..Len(b) : owner[b[m][1]] = j /\ seen[b[m][1]] = b[m][2]
    /\ \A m \in 1..Len(b) : \E r \in 1..k : found[r] = b[m]
    /\ \A c \in Chunk : owner[c] = j => \E m \in 1..Len(b) : b[m][1] = c
\* The first k candidates of found have an owner, and none was seen with less than its score.
Known(found, k, seen, owner) ==
    \A r \in 1..k : owner[found[r][1]] # 0 /\ found[r][2] <= seen[found[r][1]]

\* What is seen and owned of the chunks other than c is the same.
SameBut(c, seen, owner, seen2, owner2) ==
    \A d \in Chunk : d # c => seen2[d] = seen[d] /\ owner2[d] = owner[d]

LEMMA HasStill ==
  ASSUME NEW b, NEW j, NEW found, NEW k, NEW seen, NEW owner, NEW seen2, NEW owner2, NEW c,
         Has(b, j, found, k, seen, owner), SameBut(c, seen, owner, seen2, owner2),
         owner[c] # j, owner2[c] # j
  PROVE  Has(b, j, found, k, seen2, owner2)
<1>1. b \in Seq(Pair) /\ \A m \in 1..Len(b) : owner[b[m][1]] = j /\ seen[b[m][1]] = b[m][2]
  BY DEF Has
<1>2. \A m \in 1..Len(b) : b[m] \in Pair
  BY <1>1, ListTyped
<1>3. \A m \in 1..Len(b) : b[m][1] \in Chunk /\ b[m][1] # c
  BY <1>1, <1>2 DEF Pair
<1>4. \A m \in 1..Len(b) : owner2[b[m][1]] = j /\ seen2[b[m][1]] = b[m][2]
  BY <1>1, <1>3 DEF SameBut
<1>5. \A d \in Chunk : owner2[d] = j => owner[d] = j
  BY DEF SameBut
<1> QED
  BY <1>4, <1>5 DEF Has

LEMMA HasLess ==
  ASSUME NEW b, NEW j, NEW found, NEW k \in Nat, NEW seen, NEW owner, NEW seen2, NEW owner2, NEW c,
         Has(b, j, found, k, seen, owner), SameBut(c, seen, owner, seen2, owner2), owner2[c] # j,
         NEW w, w = Without(b, c)
  PROVE  Has(w, j, found, k, seen2, owner2)
<1>1. /\ b \in Seq(Pair) /\ Len(b) <= k /\ Apart(b)
      /\ \A m \in 1..Len(b) : owner[b[m][1]] = j /\ seen[b[m][1]] = b[m][2]
      /\ \A m \in 1..Len(b) : \E r \in 1..k : found[r] = b[m]
      /\ \A d \in Chunk : owner[d] = j => \E m \in 1..Len(b) : b[m][1] = d
  BY DEF Has
<1>2. /\ w \in Seq(Pair) /\ Len(w) <= Len(b) /\ Apart(w)
      /\ \A l \in 1..Len(w) : \E m \in 1..Len(b) : w[l] = b[m] /\ b[m][1] # c
      /\ \A m \in 1..Len(b) : b[m][1] # c => \E l \in 1..Len(w) : w[l] = b[m]
  <2>1. b \in Seq(Pair) /\ Apart(b)
    BY <1>1
  <2>2. Lacks(w, b, c)
    BY <2>1, WithoutIs
  <2> QED
    BY <2>1, <2>2 DEF Lacks
<1>3. Len(w) <= k
  <2>1. Len(w) \in Nat /\ Len(b) \in Nat
    BY <1>1, <1>2, ListTyped
  <2> QED
    BY <1>1, <1>2, <2>1
<1>4. \A m \in 1..Len(b) : b[m][1] \in Chunk
  BY <1>1, ListTyped DEF Pair
<1>5. ASSUME NEW l \in 1..Len(w)
      PROVE  /\ owner2[w[l][1]] = j /\ seen2[w[l][1]] = w[l][2]
             /\ \E r \in 1..k : found[r] = w[l]
  <2>1. PICK m \in 1..Len(b) : w[l] = b[m] /\ b[m][1] # c
    BY <1>2
  <2>2. b[m][1] \in Chunk /\ owner[b[m][1]] = j /\ seen[b[m][1]] = b[m][2]
    BY <1>1, <1>4
  <2>3. owner2[b[m][1]] = j /\ seen2[b[m][1]] = b[m][2]
    BY <2>1, <2>2 DEF SameBut
  <2>4. \E r \in 1..k : found[r] = b[m]
    BY <1>1
  <2> QED
    BY <2>1, <2>3, <2>4
<1>6. ASSUME NEW d \in Chunk, owner2[d] = j
      PROVE  \E l \in 1..Len(w) : w[l][1] = d
  <2>1. d # c /\ owner[d] = j
    BY <1>6 DEF SameBut
  <2>2. PICK m \in 1..Len(b) : b[m][1] = d
    BY <1>1, <2>1
  <2>3. PICK l \in 1..Len(w) : w[l] = b[m]
    BY <1>2, <2>1, <2>2
  <2> QED
    BY <2>2, <2>3
<1> QED
  BY <1>2, <1>3, <1>5, <1>6 DEF Has

LEMMA HasMore ==
  ASSUME NEW b, NEW j, NEW found, NEW k \in Nat, k > 0, NEW seen, NEW owner, NEW seen2, NEW owner2,
         NEW c \in Chunk, NEW score \in Int, found[k] = <<c, score>>,
         Has(b, j, found, k - 1, seen, owner), SameBut(c, seen, owner, seen2, owner2),
         owner[c] # j, owner2[c] = j, seen2[c] = score,
         NEW a, a = Append(b, <<c, score>>)
  PROVE  Has(a, j, found, k, seen2, owner2)
<1>1. /\ b \in Seq(Pair) /\ Len(b) <= k - 1 /\ Apart(b)
      /\ \A m \in 1..Len(b) : owner[b[m][1]] = j /\ seen[b[m][1]] = b[m][2]
      /\ \A m \in 1..Len(b) : \E r \in 1..(k - 1) : found[r] = b[m]
      /\ \A d \in Chunk : owner[d] = j => \E m \in 1..Len(b) : b[m][1] = d
  BY DEF Has
<1>2. PICK x \in Pair : x = <<c, score>> /\ x[1] = c /\ x[2] = score
  <2>1. <<c, score>> \in Pair
    BY DEF Pair
  <2> QED
    BY <2>1
<1>3. Len(b) \in Nat /\ \A m \in 1..Len(b) : b[m] \in Pair
  BY <1>1, ListTyped
<1>4. a \in Seq(Pair) /\ Len(a) = Len(b) + 1 /\ a[Len(b) + 1] = x /\ \A m \in 1..Len(b) : a[m] = b[m]
  BY <1>1, <1>2
<1>5. \A m \in 1..Len(a) : m = Len(b) + 1 \/ m \in 1..Len(b)
  BY <1>3, <1>4
<1>6. \A m \in 1..Len(b) : b[m][1] \in Chunk /\ b[m][1] # c
  BY <1>1, <1>3 DEF Pair
<1>7. \A m \in 1..Len(b) : owner2[b[m][1]] = j /\ seen2[b[m][1]] = b[m][2]
  BY <1>1, <1>6 DEF SameBut
<1>8. \A m \in 1..Len(a) : owner2[a[m][1]] = j /\ seen2[a[m][1]] = a[m][2]
  BY <1>2, <1>4, <1>5, <1>7
<1>9. \A m \in 1..Len(a) : \E r \in 1..k : found[r] = a[m]
  <2>1. TAKE m \in 1..Len(a)
  <2>2. CASE m = Len(b) + 1
    <3>1. k \in 1..k /\ found[k] = a[m]
      BY <1>2, <1>4, <2>2
    <3> QED
      BY <3>1
  <2>3. CASE m \in 1..Len(b)
    <3>1. PICK r \in 1..(k - 1) : found[r] = b[m]
      BY <1>1, <2>3
    <3>2. r \in 1..k /\ a[m] = b[m]
      BY <1>4, <2>3
    <3> QED
      BY <3>1, <3>2
  <2> QED
    BY <1>5, <2>2, <2>3
<1>10. Apart(a)
  <2>1. \A l, m \in 1..Len(a) : a[l][1] = a[m][1] => l = m
    <3>1. TAKE l, m \in 1..Len(a)
    <3>2. CASE l \in 1..Len(b) /\ m \in 1..Len(b)
      BY <1>1, <1>4, <3>2 DEF Apart
    <3>3. CASE l = Len(b) + 1 \/ m = Len(b) + 1
      BY <1>2, <1>4, <1>5, <1>6, <3>3
    <3> QED
      BY <1>5, <3>2, <3>3
  <2> QED
    BY <2>1 DEF Apart
<1>11. ASSUME NEW d \in Chunk, owner2[d] = j
       PROVE  \E m \in 1..Len(a) : a[m][1] = d
  <2>1. CASE d = c
    <3>1. Len(b) + 1 \in 1..Len(a)
      BY <1>3, <1>4
    <3> QED
      BY <1>2, <1>4, <2>1, <3>1
  <2>2. CASE d # c
    <3>1. PICK m \in 1..Len(b) : b[m][1] = d
      BY <1>1, <1>11, <2>2 DEF SameBut
    <3>2. m \in 1..Len(a) /\ a[m] = b[m]
      BY <1>3, <1>4
    <3> QED
      BY <3>1, <3>2
  <2> QED
    BY <2>1, <2>2
<1>12. Len(a) <= k
  BY <1>1, <1>3, <1>4
<1> QED
  BY <1>4, <1>8, <1>9, <1>10, <1>11, <1>12 DEF Has

LEMMA HasPassed ==
  ASSUME NEW b, NEW j, NEW found, NEW k \in Nat, NEW seen, NEW owner, Has(b, j, found, k - 1, seen, owner)
  PROVE  Has(b, j, found, k, seen, owner)
<1>1. b \in Seq(Pair) /\ Len(b) <= k - 1 /\ \A m \in 1..Len(b) : \E r \in 1..(k - 1) : found[r] = b[m]
  BY DEF Has
<1>2. \A r \in 1..(k - 1) : r \in 1..k
  OBVIOUS
<1>3. Len(b) <= k
  BY <1>1, ListTyped
<1> QED
  BY <1>1, <1>2, <1>3 DEF Has

\* The first i batches hold what they own, and every candidate of their sub-queries is known.
Stored(s, i, results) ==
    /\ s \in Sending /\ Len(s.batches) = i
    /\ \A j \in 1..i : Has(s.batches[j], j, results[j], Len(results[j]), s.seen, s.owner)
    /\ \A j \in 1..i : Known(results[j], Len(results[j]), s.seen, s.owner)
Between(s, i, results) ==
    Stored(s, i, results) /\ s.unique = <<>> /\ \A c \in Chunk : s.owner[c] <= i
Amid(s, i, k, results) ==
    /\ Stored(s, i - 1, results) /\ \A c \in Chunk : s.owner[c] <= i
    /\ Has(s.unique, i, results[i], k, s.seen, s.owner) /\ Known(results[i], k, s.seen, s.owner)

\* What the sub-queries found: of each the candidates, no chunk twice.
Findings(results) == results \in Seq(Seq(Pair)) /\ \A i \in 1..Len(results) : Apart(results[i])

\* The chunk c moves to batch i with its score.
Moves(t, s, i, c, score) ==
    /\ ~(s.owner[c] # 0 /\ s.seen[c] >= score)
    /\ t.seen = [s.seen EXCEPT ![c] = score] /\ t.owner = [s.owner EXCEPT ![c] = i]
    /\ t.unique = Append(s.unique, <<c, score>>) /\ Len(t.batches) = Len(s.batches)
    /\ \A b \in 1..Len(s.batches) :
          t.batches[b] = IF b = s.owner[c] THEN Without(s.batches[b], c) ELSE s.batches[b]

LEMMA OfferTyped ==
  ASSUME NEW s \in Sending, NEW i \in Nat, NEW c \in Chunk, NEW score \in Int, NEW t, t = Offer(s, i, c, score)
  PROVE  /\ t \in Sending
         /\ \/ t = s /\ s.owner[c] # 0 /\ s.seen[c] >= score
            \/ Moves(t, s, i, c, score)
<1>1. /\ s.seen \in [Chunk -> Int] /\ s.owner \in [Chunk -> Nat] /\ s.batches \in Seq(Seq(Pair))
      /\ s.unique \in Seq(Pair)
  BY DEF Sending
<1>2. CASE s.owner[c] # 0 /\ s.seen[c] >= score
  <2>1. t = s
    BY <1>2, Zenon DEF Offer
  <2> QED
    BY <1>2, <2>1
<1>3. CASE ~(s.owner[c] # 0 /\ s.seen[c] >= score)
  <2> DEFINE bs == [b \in DOMAIN s.batches |->
                        IF b = s.owner[c] THEN Without(s.batches[b], c) ELSE s.batches[b]]
             u == Append(s.unique, <<c, score>>)
             new == [seen |-> [s.seen EXCEPT ![c] = score], owner |-> [s.owner EXCEPT ![c] = i],
                     batches |-> bs, unique |-> u]
  <2>1. t = new
    BY <1>3, Zenon DEF Offer
  <2>2. Len(s.batches) \in Nat /\ DOMAIN s.batches = 1..Len(s.batches)
        /\ \A b \in 1..Len(s.batches) : s.batches[b] \in Seq(Pair)
    BY <1>1, ListTyped
  <2>3. \A b \in 1..Len(s.batches) : Without(s.batches[b], c) \in Seq(Pair)
    <3>1. TAKE b \in 1..Len(s.batches)
    <3>2. PICK old, w : old = s.batches[b] /\ w = Without(s.batches[b], c)
      OBVIOUS
    <3>3. old \in Seq(Pair) /\ w = Without(old, c)
      BY <2>2, <3>2
    <3>4. Lacks(w, old, c)
      BY <3>3, WithoutIs
    <3> QED
      BY <3>2, <3>4 DEF Lacks
  <2>4. bs \in [1..Len(s.batches) -> Seq(Pair)]
    BY <2>2, <2>3
  <2>5. \A b \in 1..Len(s.batches) :
           bs[b] = IF b = s.owner[c] THEN Without(s.batches[b], c) ELSE s.batches[b]
    BY <2>2
  <2> HIDE DEF bs
  <2>6. bs \in Seq(Seq(Pair)) /\ Len(bs) = Len(s.batches)
    <3>1. PICK n, Y : n \in Nat /\ n = Len(s.batches) /\ Y = Seq(Pair)
      BY <2>2
    <3>2. n \in Nat /\ bs \in [1..n -> Y]
      BY <2>4, <3>1
    <3>3. bs \in Seq(Y) /\ Len(bs) = n
      BY ONLY <3>2
    <3> QED
      BY <3>1, <3>3
  <2>7. <<c, score>> \in Pair
    BY DEF Pair
  <2>8. u \in Seq(Pair)
    BY <1>1, <2>7
  <2> HIDE DEF u
  <2>9. new \in Sending
    BY <1>1, <2>6, <2>8 DEF Sending
  <2> QED
    BY <1>3, <2>1, <2>5, <2>6, <2>9 DEF u, Moves
<1> QED
  BY <1>2, <1>3

\* What an offer does to the batches: the one that had the chunk gives it up, the one under way takes it.
LEMMA OfferKeeps ==
  ASSUME NEW results, Findings(results), NEW i \in 1..Len(results), NEW k \in 1..Len(results[i]),
         NEW s, Amid(s, i, k - 1, results),
         NEW t, t = Offer(s, i, results[i][k][1], results[i][k][2])
  PROVE  Amid(t, i, k, results)
<1> DEFINE found == results[i]
           c == found[k][1]
           score == found[k][2]
<1>1. /\ s \in Sending /\ Len(s.batches) = i - 1 /\ \A d \in Chunk : s.owner[d] <= i
      /\ \A j \in 1..(i - 1) : Has(s.batches[j], j, results[j], Len(results[j]), s.seen, s.owner)
      /\ \A j \in 1..(i - 1) : Known(results[j], Len(results[j]), s.seen, s.owner)
      /\ Has(s.unique, i, found, k - 1, s.seen, s.owner) /\ Known(found, k - 1, s.seen, s.owner)
  BY DEF Amid, Stored
<1>2. /\ s.seen \in [Chunk -> Int] /\ s.owner \in [Chunk -> Nat] /\ s.batches \in Seq(Seq(Pair))
  BY <1>1 DEF Sending
<1>3. results \in Seq(Seq(Pair)) /\ \A j \in 1..Len(results) : Apart(results[j])
  BY DEF Findings
<1>4. /\ Len(results) \in Nat /\ i \in Nat /\ i > 0
      /\ \A j \in 1..Len(results) : results[j] \in Seq(Pair)
  BY <1>3, ListTyped
<1>5. found \in Seq(Pair) /\ Apart(found)
  BY <1>3, <1>4
<1>6. \A j \in 1..Len(results) : Len(results[j]) \in Nat /\ \A r \in 1..Len(results[j]) : results[j][r] \in Pair
  BY <1>4, ListTyped
<1>7. k \in Nat /\ k > 0 /\ k - 1 \in Nat /\ Len(found) \in Nat /\ found[k] \in Pair
  BY <1>6
<1>8. c \in Chunk /\ score \in Int /\ found[k] = <<c, score>>
  BY <1>7 DEF Pair
<1>9. \A j \in 1..(i - 1) : j \in 1..Len(results) /\ j # i
  BY <1>4
<1>10. s.owner[c] \in Nat /\ s.seen[c] \in Int
  BY <1>2, <1>8
<1>11. t = Offer(s, i, c, score)
  OBVIOUS
<1> HIDE DEF c, score
<1>12. /\ t \in Sending
       /\ \/ t = s /\ s.owner[c] # 0 /\ s.seen[c] >= score
          \/ Moves(t, s, i, c, score)
  BY <1>1, <1>4, <1>8, <1>11, OfferTyped
<1>13. found[k][1] = c /\ found[k][2] = score
  BY DEF c, score
<1>14. CASE t = s /\ s.owner[c] # 0 /\ s.seen[c] >= score
  <2>1. Has(t.unique, i, found, k, t.seen, t.owner)
    BY <1>1, <1>7, <1>14, HasPassed
  <2>2. Known(found, k, t.seen, t.owner)
    <3>1. \A r \in 1..k : r = k \/ r \in 1..(k - 1)
      BY <1>7
    <3>2. score <= s.seen[c]
      BY <1>8, <1>10, <1>14
    <3> QED
      BY <1>1, <1>13, <1>14, <3>1, <3>2 DEF Known
  <2> QED
    BY <1>1, <1>14, <2>1, <2>2 DEF Amid, Stored
<1>15. CASE ~(t = s /\ s.owner[c] # 0 /\ s.seen[c] >= score)
  <2>1. /\ ~(s.owner[c] # 0 /\ s.seen[c] >= score)
        /\ t.seen = [s.seen EXCEPT ![c] = score] /\ t.owner = [s.owner EXCEPT ![c] = i]
        /\ t.unique = Append(s.unique, <<c, score>>) /\ Len(t.batches) = i - 1
        /\ \A b \in 1..(i - 1) :
              t.batches[b] = IF b = s.owner[c] THEN Without(s.batches[b], c) ELSE s.batches[b]
    BY <1>1, <1>12, <1>15 DEF Moves
  <2>2. /\ t.seen[c] = score /\ t.owner[c] = i
        /\ SameBut(c, s.seen, s.owner, t.seen, t.owner)
    BY <1>2, <1>8, <2>1 DEF SameBut
  <2>3. s.owner[c] # i
    <3>1. SUFFICES ASSUME s.owner[c] = i PROVE FALSE
      OBVIOUS
    <3>2. PICK m \in 1..Len(s.unique) : s.unique[m][1] = c
      BY <1>1, <1>8, <3>1 DEF Has
    <3>3. PICK r \in 1..(k - 1) : found[r] = s.unique[m]
      BY <1>1 DEF Has
    <3>4. r \in 1..Len(found) /\ k \in 1..Len(found) /\ r # k
      BY <1>7
    <3> QED
      BY <1>5, <1>13, <3>2, <3>3, <3>4 DEF Apart
  <2>4. Has(t.unique, i, found, k, t.seen, t.owner)
    <3>1. PICK b, a, f : b = s.unique /\ a = t.unique /\ f = found
      OBVIOUS
    <3>2. /\ Has(b, i, f, k - 1, s.seen, s.owner) /\ f[k] = <<c, score>>
          /\ a = Append(b, <<c, score>>)
      BY <1>1, <1>8, <2>1, <3>1
    <3>3. Has(a, i, f, k, t.seen, t.owner)
      BY <1>7, <1>8, <2>2, <2>3, <3>2, HasMore
    <3> QED
      BY <3>1, <3>3
  <2>5. ASSUME NEW j \in 1..(i - 1)
        PROVE  Has(t.batches[j], j, results[j], Len(results[j]), t.seen, t.owner)
    <3>1. j # i /\ Len(results[j]) \in Nat /\ t.owner[c] # j
      BY <1>6, <1>9, <2>2
    <3>2. Has(s.batches[j], j, results[j], Len(results[j]), s.seen, s.owner)
      BY <1>1
    <3>3. CASE s.owner[c] = j
      <4>1. t.batches[j] = Without(s.batches[j], c)
        BY <2>1, <3>3
      <4>2. PICK b, w, f, l : b = s.batches[j] /\ w = t.batches[j] /\ f = results[j] /\ l = Len(results[j])
        OBVIOUS
      <4>3. l \in Nat /\ Has(b, j, f, l, s.seen, s.owner) /\ w = Without(b, c)
        BY <3>1, <3>2, <4>1, <4>2
      <4>4. Has(w, j, f, l, t.seen, t.owner)
        BY <2>2, <3>1, <4>3, HasLess
      <4> QED
        BY <4>2, <4>4
    <3>4. CASE s.owner[c] # j
      <4>1. t.batches[j] = s.batches[j]
        BY <2>1, <3>4
      <4>2. PICK b, f, l : b = s.batches[j] /\ f = results[j] /\ l = Len(results[j])
        OBVIOUS
      <4>3. Has(b, j, f, l, s.seen, s.owner)
        BY <3>2, <4>2
      <4>4. Has(b, j, f, l, t.seen, t.owner)
        BY <2>2, <3>1, <3>4, <4>3, HasStill
      <4> QED
        BY <4>1, <4>2, <4>4
    <3> QED
      BY <3>3, <3>4
  <2>6. \A d \in Chunk : /\ s.owner[d] # 0 => t.owner[d] # 0
                         /\ s.owner[d] # 0 => s.seen[d] <= t.seen[d]
                         /\ t.owner[d] <= i /\ s.seen[d] \in Int /\ t.seen[d] \in Int
    <3>1. TAKE d \in Chunk
    <3>2. CASE d = c
      <4>1. s.seen[d] \in Int /\ t.owner[d] = i /\ t.seen[d] = score
        BY <1>10, <2>2, <3>2
      <4>2. s.owner[d] # 0 => s.seen[d] <= score
        BY <1>8, <1>10, <2>1, <3>2
      <4> QED
        BY <1>4, <1>8, <4>1, <4>2
    <3>3. CASE d # c
      BY <1>1, <1>2, <2>2, <3>3 DEF SameBut
    <3> QED
      BY <3>2, <3>3
  <2>7. ASSUME NEW j \in 1..Len(results), NEW l \in Nat, l <= Len(results[j]),
               Known(results[j], l, s.seen, s.owner)
        PROVE  Known(results[j], l, t.seen, t.owner)
    <3>1. ASSUME NEW r \in 1..l
          PROVE  t.owner[results[j][r][1]] # 0 /\ results[j][r][2] <= t.seen[results[j][r][1]]
      <4>1. r \in 1..Len(results[j])
        BY <1>6, <2>7
      <4>2. PICK d, v : d = results[j][r][1] /\ v = results[j][r][2]
        OBVIOUS
      <4>3. results[j][r] \in Pair
        BY <1>6, <4>1
      <4>4. d \in Chunk /\ v \in Int
        BY <4>2, <4>3 DEF Pair
      <4>5. s.owner[d] # 0 /\ v <= s.seen[d]
        BY <2>7, <4>2 DEF Known
      <4>6. t.owner[d] # 0 /\ v <= t.seen[d]
        BY <2>6, <4>4, <4>5
      <4> QED
        BY <4>2, <4>6
    <3> QED
      BY <3>1 DEF Known
  <2>8. \A j \in 1..(i - 1) : Known(results[j], Len(results[j]), t.seen, t.owner)
    <3>1. TAKE j \in 1..(i - 1)
    <3>2. j \in 1..Len(results) /\ Len(results[j]) \in Nat /\ Len(results[j]) <= Len(results[j])
      BY <1>6, <1>9
    <3> QED
      BY <1>1, <2>7, <3>2
  <2>9. Known(found, k, t.seen, t.owner)
    <3>1. Known(found, k - 1, t.seen, t.owner)
      BY <1>1, <1>7, <2>7
    <3>2. \A r \in 1..k : r = k \/ r \in 1..(k - 1)
      BY <1>7
    <3>3. t.owner[c] # 0 /\ score <= t.seen[c]
      BY <1>4, <1>8, <2>2
    <3> QED
      BY <1>13, <3>1, <3>2, <3>3 DEF Known
  <2> QED
    BY <1>12, <2>1, <2>4, <2>5, <2>6, <2>8, <2>9 DEF Amid, Stored
<1> QED
  BY <1>14, <1>15

\* f[r] is what an inner loop leaves after r candidates.
Offered(f, s, i, found) ==
    /\ f \in [0..Len(found) -> Sending] /\ f[0] = s
    /\ \A r \in 1..Len(found) : f[r] = Offer(f[r - 1], i, found[r][1], found[r][2])
Closed(e) == [e EXCEPT !.batches = Append(@, e.unique), !.unique = <<>>]

LEMMA CollectRuns ==
  ASSUME NEW s \in Sending, NEW i \in Nat, NEW found \in Seq(Pair)
  PROVE  \E f : Offered(f, s, i, found) /\ Collect(s, i, found) = Closed(f[Len(found)])
<1> DEFINE N == Len(found)
           step(r, x) == Offer(x, i, found[r][1], found[r][2])
           G == [p \in (1..N) \X Sending |-> step(p[1], p[2])]
           up == CHOOSE u : u = [r \in 0..N |-> IF r = 0 THEN s ELSE Offer(u[r - 1], i, found[r][1], found[r][2])]
<1>1. N \in Nat /\ \A r \in 1..N : found[r] \in Pair
  BY ListTyped
<1>2. Collect(s, i, found) = Closed(up[N])
  BY Zenon DEF Collect, Closed
<1> HIDE DEF N
<1>3. \A r \in 1..N, x \in Sending : step(r, x) \in Sending
  <2>1. TAKE r \in 1..N, x \in Sending
  <2>2. found[r][1] \in Chunk /\ found[r][2] \in Int
    BY <1>1 DEF Pair
  <2>3. PICK c \in Chunk, score \in Int : c = found[r][1] /\ score = found[r][2]
    BY <2>2
  <2>4. step(r, x) = Offer(x, i, c, score)
    BY <2>3
  <2> QED
    BY <2>4, OfferTyped
<1> HIDE DEF step
<1>4. G \in [(1..N) \X Sending -> Sending] /\ \A r \in 1..N, x \in Sending : G[<<r, x>>] = step(r, x)
  BY <1>3
<1> HIDE DEF G
<1>5. PICK f : Runs(f, N, Sending, s, G)
  BY <1>1, <1>4, LoopRuns
<1>6. f \in [0..N -> Sending] /\ f[0] = s /\ \A r \in 1..N : f[r] = G[<<r, f[r - 1]>>]
  BY <1>5 DEF Runs
<1>7. \A r \in 1..N : f[r] = step(r, f[r - 1])
  <2>1. TAKE r \in 1..N
  <2>2. r - 1 \in 0..N
    BY <1>1
  <2>3. f[r - 1] \in Sending
    BY <1>6, <2>2
  <2> QED
    BY <1>4, <1>6, <2>3
<1>8. f = [r \in 0..N |-> IF r = 0 THEN s ELSE Offer(f[r - 1], i, found[r][1], found[r][2])]
  <2>1. f = [r \in 0..N |-> f[r]]
    BY <1>6
  <2>2. \A r \in 0..N : r = 0 \/ r \in 1..N
    BY <1>1
  <2>3. \A r \in 0..N : f[r] = IF r = 0 THEN s ELSE Offer(f[r - 1], i, found[r][1], found[r][2])
    BY <1>6, <1>7, <2>2, Zenon DEF step
  <2> QED
    BY <2>1, <2>3, Zenon
<1>9. up = [r \in 0..N |-> IF r = 0 THEN s ELSE Offer(up[r - 1], i, found[r][1], found[r][2])]
  BY <1>8, Zenon
<1> HIDE DEF up
<1>10. \A r \in 0..N : up[r] = IF r = 0 THEN s ELSE step(r, up[r - 1])
  BY <1>9, Zenon DEF step
<1>11. up \in [0..N -> Sending]
  <2> DEFINE P == {n \in 0..N : up[n] \in Sending}
  <2>1. 0 \in P
    BY <1>1, <1>10
  <2>2. ASSUME NEW n \in 1..N, n - 1 \in P
        PROVE  n \in P
    <3>1. n \in 0..N /\ n # 0 /\ up[n - 1] \in Sending
      BY <1>1, <2>2
    <3>2. up[n] = step(n, up[n - 1])
      BY <1>10, <3>1
    <3> QED
      BY <1>3, <3>1, <3>2
  <2> HIDE DEF P
  <2>3. \A n \in 0..N : n \in P
    BY <1>1, <2>1, <2>2, TurnInduction
  <2>4. \A n \in 0..N : up[n] \in Sending
    BY <2>3 DEF P
  <2>5. DOMAIN up = 0..N /\ up = [r \in 0..N |-> up[r]]
    BY <1>9, Zenon
  <2> QED
    BY <2>4, <2>5
<1>12. \A r \in 1..N : up[r] = Offer(up[r - 1], i, found[r][1], found[r][2])
  <2>1. TAKE r \in 1..N
  <2>2. r \in 0..N /\ r # 0
    BY <1>1
  <2> QED
    BY <1>10, <2>2 DEF step
<1>13. up[0] = s
  BY <1>1, <1>10
<1>14. Offered(up, s, i, found)
  BY <1>11, <1>12, <1>13 DEF Offered, N
<1> QED
  BY <1>2, <1>14 DEF N

LEMMA ClosedIs ==
  ASSUME NEW t \in Sending
  PROVE  /\ Closed(t) \in Sending /\ Closed(t).seen = t.seen /\ Closed(t).owner = t.owner
         /\ Closed(t).unique = <<>> /\ Len(Closed(t).batches) = Len(t.batches) + 1
         /\ Closed(t).batches[Len(t.batches) + 1] = t.unique
         /\ \A j \in 1..Len(t.batches) : Closed(t).batches[j] = t.batches[j]
<1>1. PICK bs, u, y : bs = t.batches /\ u = t.unique /\ y = Append(bs, u)
  OBVIOUS
<1>2. bs \in Seq(Seq(Pair)) /\ u \in Seq(Pair) /\ t.seen \in [Chunk -> Int] /\ t.owner \in [Chunk -> Nat]
  BY <1>1 DEF Sending
<1>3. /\ y \in Seq(Seq(Pair)) /\ Len(y) = Len(bs) + 1 /\ y[Len(bs) + 1] = u
      /\ \A j \in 1..Len(bs) : y[j] = bs[j]
  <2>1. PICK Y : Y = Seq(Pair)
    OBVIOUS
  <2>2. bs \in Seq(Y) /\ u \in Y /\ y = Append(bs, u)
    BY <1>1, <1>2, <2>1
  <2>3. y \in Seq(Y) /\ Len(y) = Len(bs) + 1 /\ y[Len(bs) + 1] = u /\ \A j \in 1..Len(bs) : y[j] = bs[j]
    BY ONLY <2>2
  <2> QED
    BY <2>1, <2>3
<1>4. Closed(t) = [seen |-> t.seen, owner |-> t.owner, batches |-> y, unique |-> <<>>]
  <2>1. PICK A, B, D, E : t \in [seen : A, owner : B, batches : D, unique : E]
    BY DEF Sending
  <2>2. Closed(t) = [t EXCEPT !.batches = y, !.unique = <<>>]
    BY <1>1 DEF Closed
  <2> QED
    BY ONLY <2>1, <2>2
<1>5. <<>> \in Seq(Pair)
  OBVIOUS
<1> QED
  BY <1>1, <1>2, <1>3, <1>4, <1>5 DEF Sending

LEMMA CollectIs ==
  ASSUME NEW results, Findings(results), NEW i \in 1..Len(results), NEW s, Between(s, i - 1, results)
  PROVE  Between(Collect(s, i, results[i]), i, results)
<1> DEFINE found == results[i]
           N == Len(found)
<1>1. results \in Seq(Seq(Pair))
  BY DEF Findings
<1>2. Len(results) \in Nat /\ i \in Nat /\ i > 0 /\ found \in Seq(Pair)
  BY <1>1, ListTyped
<1>3. N \in Nat
  BY <1>2, ListTyped
<1>4. s \in Sending /\ Stored(s, i - 1, results) /\ s.unique = <<>> /\ \A c \in Chunk : s.owner[c] <= i - 1
  BY DEF Between, Stored
<1>5. PICK f : Offered(f, s, i, found) /\ Collect(s, i, found) = Closed(f[N])
  BY <1>2, <1>4, CollectRuns
<1>6. /\ f \in [0..N -> Sending] /\ f[0] = s
      /\ \A r \in 1..N : f[r] = Offer(f[r - 1], i, found[r][1], found[r][2])
  BY <1>5 DEF Offered
<1> DEFINE P == {r \in 0..N : Amid(f[r], i, r, results)}
<1>7. 0 \in P
  <2>1. \A c \in Chunk : s.owner[c] \in Nat /\ s.owner[c] <= i /\ s.owner[c] # i
    BY <1>2, <1>4 DEF Sending
  <2>2. Has(s.unique, i, found, 0, s.seen, s.owner)
    <3>1. \A c \in Chunk : s.owner[c] # i
      BY <2>1
    <3>2. PICK b : b = s.unique
      OBVIOUS
    <3>3. b = <<>> /\ b \in Seq(Pair) /\ Len(b) = 0
      BY <1>4, <3>2
    <3>4. Apart(b)
      BY <3>3 DEF Apart
    <3>5. Has(b, i, found, 0, s.seen, s.owner)
      BY <3>1, <3>3, <3>4 DEF Has
    <3> QED
      BY <3>2, <3>5
  <2>3. Known(found, 0, s.seen, s.owner)
    BY DEF Known
  <2>4. Amid(s, i, 0, results)
    BY <1>4, <2>1, <2>2, <2>3 DEF Amid
  <2> QED
    BY <1>3, <1>6, <2>4
<1>8. ASSUME NEW r \in 1..N, r - 1 \in P
      PROVE  r \in P
  <2>1. Amid(f[r - 1], i, r - 1, results)
    BY <1>8
  <2>2. f[r] = Offer(f[r - 1], i, results[i][r][1], results[i][r][2])
    BY <1>6
  <2>3. Amid(f[r], i, r, results)
    BY <2>1, <2>2, OfferKeeps
  <2>4. r \in 0..N
    BY <1>3
  <2> QED
    BY <2>3, <2>4
<1> HIDE DEF P
<1>9. \A r \in 0..N : r \in P
  BY <1>3, <1>7, <1>8, TurnInduction
<1>10. N \in 0..N
  BY <1>3
<1>11. PICK e : e = f[N]
  OBVIOUS
<1>12. Amid(e, i, N, results)
  BY <1>9, <1>10, <1>11 DEF P
<1>13. /\ e \in Sending /\ Len(e.batches) = i - 1 /\ \A c \in Chunk : e.owner[c] <= i
       /\ \A j \in 1..(i - 1) : Has(e.batches[j], j, results[j], Len(results[j]), e.seen, e.owner)
       /\ \A j \in 1..(i - 1) : Known(results[j], Len(results[j]), e.seen, e.owner)
       /\ Has(e.unique, i, found, N, e.seen, e.owner) /\ Known(found, N, e.seen, e.owner)
  BY <1>12 DEF Amid, Stored
<1>14. PICK t : t = Closed(e)
  OBVIOUS
<1>15. /\ t \in Sending /\ t.seen = e.seen /\ t.owner = e.owner
       /\ t.unique = <<>> /\ Len(t.batches) = i
       /\ t.batches[i] = e.unique /\ \A j \in 1..(i - 1) : t.batches[j] = e.batches[j]
  <2>1. i - 1 + 1 = i
    BY <1>2
  <2> QED
    BY <1>13, <1>14, <2>1, ClosedIs
<1>16. \A j \in 1..i : j = i \/ j \in 1..(i - 1)
  BY <1>2
<1>17. \A j \in 1..i : Has(t.batches[j], j, results[j], Len(results[j]), t.seen, t.owner)
  <2>1. TAKE j \in 1..i
  <2>2. CASE j = i
    BY <1>13, <1>15, <2>2
  <2>3. CASE j \in 1..(i - 1)
    BY <1>13, <1>15, <2>3
  <2> QED
    BY <1>16, <2>2, <2>3
<1>18. \A j \in 1..i : Known(results[j], Len(results[j]), t.seen, t.owner)
  BY <1>13, <1>15, <1>16
<1>19. Between(t, i, results)
  BY <1>13, <1>15, <1>17, <1>18 DEF Between, Stored
<1> QED
  BY <1>5, <1>11, <1>14, <1>19

\* What is sent: of some bookkeeping every batch holds what it owns, and every candidate is known.
Sent(b, results, owner, seen) ==
    /\ owner \in [Chunk -> Nat] /\ seen \in [Chunk -> Int]
    /\ \A c \in Chunk : owner[c] <= Len(results)
    /\ b \in Seq(Seq(Pair)) /\ Len(b) = Len(results)
    /\ \A i \in 1..Len(results) : /\ Has(b[i], i, results[i], Len(results[i]), seen, owner)
                                  /\ Known(results[i], Len(results[i]), seen, owner)

LEMMA RerankIs ==
  ASSUME NEW results, Findings(results)
  PROVE  \E owner, seen : Sent(RerankBatches(results), results, owner, seen)
<1> DEFINE N == Len(results)
           step(i, x) == Collect(x, i, results[i])
           G == [p \in (1..N) \X Sending |-> step(p[1], p[2])]
           up == CHOOSE u : u = [i \in 0..N |-> IF i = 0 THEN NothingSent ELSE Collect(u[i - 1], i, results[i])]
<1>1. results \in Seq(Seq(Pair))
  BY DEF Findings
<1>2. N \in Nat /\ \A i \in 1..N : i \in Nat /\ results[i] \in Seq(Pair)
  BY <1>1, ListTyped
<1>3. RerankBatches(results) = up[N].batches
  BY Zenon DEF RerankBatches
<1>4. Between(NothingSent, 0, results)
  <2>1. NothingSent \in Sending
    BY DEF NothingSent, Sending
  <2>2. /\ Len(NothingSent.batches) = 0 /\ NothingSent.unique = <<>>
        /\ \A c \in Chunk : NothingSent.owner[c] = 0
    BY DEF NothingSent
  <2> QED
    BY <2>1, <2>2 DEF Between, Stored
<1>5. NothingSent \in Sending
  BY <1>4 DEF Between, Stored
<1>7. \A i \in 1..N, x \in Sending : step(i, x) \in Sending
  <2>1. TAKE i \in 1..N, x \in Sending
  <2>2. PICK found : found = results[i]
    OBVIOUS
  <2>3. found \in Seq(Pair) /\ i \in Nat
    BY <1>2, <2>2
  <2>4. PICK f : Offered(f, x, i, found) /\ Collect(x, i, found) = Closed(f[Len(found)])
    BY <2>3, CollectRuns
  <2>5. Len(found) \in 0..Len(found)
    BY <2>3, ListTyped
  <2>6. f[Len(found)] \in Sending
    BY <2>4, <2>5 DEF Offered
  <2> QED
    BY <2>2, <2>4, <2>6, ClosedIs
<1> HIDE DEF step, N
<1>8. G \in [(1..N) \X Sending -> Sending] /\ \A i \in 1..N, x \in Sending : G[<<i, x>>] = step(i, x)
  BY <1>7
<1> HIDE DEF G
<1>9. PICK f : Runs(f, N, Sending, NothingSent, G)
  BY <1>2, <1>5, <1>8, LoopRuns
<1>10. f \in [0..N -> Sending] /\ f[0] = NothingSent /\ \A i \in 1..N : f[i] = G[<<i, f[i - 1]>>]
  BY <1>9 DEF Runs
<1>11. \A i \in 1..N : f[i] = step(i, f[i - 1])
  <2>1. TAKE i \in 1..N
  <2>2. i - 1 \in 0..N
    BY <1>2
  <2>3. f[i - 1] \in Sending
    BY <1>10, <2>2
  <2> QED
    BY <1>8, <1>10, <2>3
<1>12. f = [i \in 0..N |-> IF i = 0 THEN NothingSent ELSE Collect(f[i - 1], i, results[i])]
  <2>1. f = [i \in 0..N |-> f[i]]
    BY <1>10
  <2>2. \A i \in 0..N : i = 0 \/ i \in 1..N
    BY <1>2
  <2>3. \A i \in 0..N : f[i] = IF i = 0 THEN NothingSent ELSE Collect(f[i - 1], i, results[i])
    BY <1>10, <1>11, <2>2, Zenon DEF step
  <2> QED
    BY <2>1, <2>3, Zenon
<1>13. up = [i \in 0..N |-> IF i = 0 THEN NothingSent ELSE Collect(up[i - 1], i, results[i])]
  BY <1>12, Zenon
<1> HIDE DEF up
<1>14. \A i \in 0..N : up[i] = IF i = 0 THEN NothingSent ELSE Collect(up[i - 1], i, results[i])
  BY <1>13, Zenon
<1> DEFINE P == {i \in 0..N : Between(up[i], i, results)}
<1>15. 0 \in P
  BY <1>2, <1>4, <1>14
<1>16. ASSUME NEW i \in 1..N, i - 1 \in P
       PROVE  i \in P
  <2>1. i \in 0..N /\ i # 0 /\ Between(up[i - 1], i - 1, results) /\ i \in 1..Len(results)
    BY <1>2, <1>16 DEF N
  <2>2. up[i] = Collect(up[i - 1], i, results[i])
    BY <1>14, <2>1
  <2>3. Between(up[i], i, results)
    BY <2>1, <2>2, CollectIs
  <2> QED
    BY <2>1, <2>3
<1> HIDE DEF P
<1>17. \A i \in 0..N : i \in P
  BY <1>2, <1>15, <1>16, TurnInduction
<1>18. N \in 0..N
  BY <1>2
<1>19. PICK e, b : e = up[N] /\ b = e.batches
  OBVIOUS
<1>20. Between(e, N, results)
  BY <1>17, <1>18, <1>19 DEF P
<1>21. /\ e.seen \in [Chunk -> Int] /\ e.owner \in [Chunk -> Nat] /\ b \in Seq(Seq(Pair))
       /\ \A c \in Chunk : e.owner[c] <= N
  BY <1>19, <1>20 DEF Between, Stored, Sending
<1>22. Len(b) = N /\ \A i \in 1..N : /\ Has(b[i], i, results[i], Len(results[i]), e.seen, e.owner)
                                     /\ Known(results[i], Len(results[i]), e.seen, e.owner)
  BY <1>19, <1>20 DEF Between, Stored
<1>23. Sent(b, results, e.owner, e.seen)
  BY <1>21, <1>22 DEF Sent, N
<1> QED
  BY <1>3, <1>19, <1>23

LEMMA BatchesUnmoved ==
  ASSUME sub' = sub, candidates' = candidates
  PROVE  Batches' = Batches
<1>1. Results' = Results
  BY DEF Results, Found
<1> QED
  BY <1>1, Zenon DEF Batches

LEMMA BatchesHold ==
  ASSUME Shaped, RecallSound, stage \in {"parents", "rank", "done"}
  PROVE  /\ DOMAIN sub = 1..Len(sub) /\ Len(Results) = Len(sub) /\ Len(sub) \in Nat
         /\ \A i \in DOMAIN sub : Results[i] = Found(i)
         /\ \E owner, seen : Sent(Batches, Results, owner, seen)
<1>1. DOMAIN sub = 1..Len(sub) /\ Len(sub) \in Nat
  BY ListTyped DEF Shaped
<1>2. \A i \in DOMAIN sub : candidates[i] # Unset
  BY DEF RecallSound
<1>3. \A i \in DOMAIN sub : Found(i) \in Seq(Pair) /\ Apart(Found(i))
  <2>1. TAKE i \in DOMAIN sub
  <2>2. /\ Len(Found(i)) \in Nat /\ DOMAIN Found(i) = 1..Len(Found(i))
        /\ \A r \in 1..Len(Found(i)) : Found(i)[r] \in Pair
        /\ \A q, r \in 1..Len(Found(i)) : Found(i)[q][1] = Found(i)[r][1] => q = r
    BY <1>2, FoundTyped DEF Pair
  <2>3. Found(i) \in Seq(Chunk \X Int)
    BY <1>2 DEF Shaped, Unset, Found
  <2> QED
    BY <2>2, <2>3 DEF Apart, Pair
<1>4. PICK n, Y : n = Len(sub) /\ Y = Seq(Pair)
  OBVIOUS
<1>5. Results = [i \in 1..n |-> Found(i)]
  BY <1>1, <1>4 DEF Results
<1>6. Results \in [1..n -> Y] /\ \A i \in 1..n : Results[i] = Found(i)
  BY <1>1, <1>3, <1>4, <1>5
<1>7. Results \in Seq(Y) /\ Len(Results) = n
  <2>1. n \in Nat
    BY <1>1, <1>4
  <2> QED
    BY ONLY <1>6, <2>1
<1>8. \A i \in 1..n : Apart(Results[i])
  BY <1>1, <1>3, <1>4, <1>6
<1>9. Findings(Results)
  BY <1>4, <1>7, <1>8 DEF Findings
<1>10. \E owner, seen : Sent(Batches, Results, owner, seen)
  BY <1>9, RerankIs DEF Batches
<1> QED
  BY <1>1, <1>4, <1>6, <1>7, <1>10

LEMMA SentOnce ==
  ASSUME Shaped, RecallSound, RankSound
  PROVE  CandidatesOnce
<1> SUFFICES ASSUME stage = "rank", NEW c \in AllIds
             PROVE  LET sent == {x \in (DOMAIN sub) \X (1..CandidateLimit) :
                                    x[2] \in DOMAIN batches[x[1]] /\ batches[x[1]][x[2]][1] = c}
                    IN /\ Cardinality(sent) = 1
                       /\ \A x \in sent, j \in DOMAIN sub : \A r \in DOMAIN Found(j) :
                              Found(j)[r][1] = c => Found(j)[r][2] <= batches[x[1]][x[2]][2]
  BY DEF CandidatesOnce
<1> DEFINE sent == {x \in (DOMAIN sub) \X (1..CandidateLimit) :
                       x[2] \in DOMAIN batches[x[1]] /\ batches[x[1]][x[2]][1] = c}
<1>1. batches = Batches /\ stage \in {"parents", "rank", "done"}
  BY DEF RankSound
<1>2. /\ DOMAIN sub = 1..Len(sub) /\ Len(Results) = Len(sub) /\ Len(sub) \in Nat
      /\ \A i \in DOMAIN sub : Results[i] = Found(i)
  BY <1>1, BatchesHold
<1>3. PICK owner, seen : Sent(batches, Results, owner, seen)
  BY <1>1, BatchesHold
<1>4. /\ owner \in [Chunk -> Nat] /\ seen \in [Chunk -> Int]
      /\ \A d \in Chunk : owner[d] <= Len(sub)
      /\ \A i \in DOMAIN sub : /\ Has(batches[i], i, Found(i), Len(Found(i)), seen, owner)
                               /\ Known(Found(i), Len(Found(i)), seen, owner)
  BY <1>2, <1>3 DEF Sent
<1>5. \A i \in DOMAIN sub : /\ Len(Found(i)) \in Nat /\ DOMAIN Found(i) = 1..Len(Found(i))
                            /\ Len(Found(i)) <= CandidateLimit
                            /\ \A r \in 1..Len(Found(i)) : Found(i)[r] \in Chunk \X Int
  BY <1>1, FoundTyped DEF RecallSound
<1>6. \A i \in DOMAIN sub :
         /\ Len(batches[i]) \in Nat /\ DOMAIN batches[i] = 1..Len(batches[i])
         /\ Len(batches[i]) <= Len(Found(i)) /\ Apart(batches[i])
         /\ \A m \in 1..Len(batches[i]) : /\ batches[i][m][1] \in Chunk
                                          /\ owner[batches[i][m][1]] = i
                                          /\ seen[batches[i][m][1]] = batches[i][m][2]
         /\ \A d \in Chunk : owner[d] = i => \E m \in 1..Len(batches[i]) : batches[i][m][1] = d
  <2>1. TAKE i \in DOMAIN sub
  <2>2. PICK b : b = batches[i]
    OBVIOUS
  <2>3. Has(b, i, Found(i), Len(Found(i)), seen, owner)
    BY <1>4, <2>2
  <2>4. /\ b \in Seq(Pair) /\ Len(b) <= Len(Found(i)) /\ Apart(b)
        /\ \A m \in 1..Len(b) : owner[b[m][1]] = i /\ seen[b[m][1]] = b[m][2]
        /\ \A d \in Chunk : owner[d] = i => \E m \in 1..Len(b) : b[m][1] = d
    BY <2>3 DEF Has
  <2>5. Len(b) \in Nat /\ DOMAIN b = 1..Len(b) /\ \A m \in 1..Len(b) : b[m] \in Pair
    BY <2>4, ListTyped
  <2>6. \A m \in 1..Len(b) : b[m][1] \in Chunk
    BY <2>5 DEF Pair
  <2> QED
    BY <2>2, <2>4, <2>5, <2>6
<1>7. \E i \in DOMAIN sub : \E r \in DOMAIN Found(i) : Found(i)[r][1] = c
  BY DEF AllIds, Ids
<1>8. PICK i \in DOMAIN sub : \E r \in 1..Len(Found(i)) : Found(i)[r][1] = c
  BY <1>5, <1>7
<1>9. owner[c] # 0 /\ c \in Chunk
  BY <1>4, <1>5, <1>8 DEF Known
<1>10. PICK o : o = owner[c]
  OBVIOUS
<1>11. o \in DOMAIN sub
  <2>1. owner[c] \in Nat /\ owner[c] <= Len(sub)
    BY <1>4, <1>9
  <2> QED
    BY <1>2, <1>9, <1>10, <2>1
<1>12. PICK k \in 1..Len(batches[o]) : batches[o][k][1] = c
  BY <1>6, <1>9, <1>10, <1>11
<1>13. seen[c] = batches[o][k][2]
  BY <1>6, <1>11, <1>12
<1>14. CandidateLimit \in Nat
  BY RetrievalAssumption DEF RetrievalAssumption
<1>15. k \in 1..CandidateLimit /\ k \in DOMAIN batches[o]
  BY <1>5, <1>6, <1>11, <1>14
<1>16. <<o, k>> \in sent
  BY <1>11, <1>12, <1>15
<1>17. ASSUME NEW x \in sent
       PROVE  x = <<o, k>>
  <2>1. PICK j \in DOMAIN sub, l \in 1..CandidateLimit : x = <<j, l>>
    OBVIOUS
  <2>2. l \in DOMAIN batches[j] /\ batches[j][l][1] = c
    BY <2>1
  <2>3. l \in 1..Len(batches[j])
    BY <1>6, <2>2
  <2>4. j = o
    BY <1>6, <1>10, <2>2, <2>3
  <2>5. l = k
    BY <1>6, <1>11, <1>12, <2>2, <2>3, <2>4 DEF Apart
  <2> QED
    BY <2>1, <2>4, <2>5
<1> HIDE DEF sent
<1>18. sent = {<<o, k>>}
  BY <1>16, <1>17
<1>19. Cardinality(sent) = 1
  BY <1>18, FS_Singleton
<1>20. \A j \in DOMAIN sub : \A q \in DOMAIN Found(j) : Found(j)[q][1] = c => Found(j)[q][2] <= seen[c]
  BY <1>4, <1>5 DEF Known
<1>21. \A x \in sent, j \in DOMAIN sub : \A q \in DOMAIN Found(j) :
           Found(j)[q][1] = c => Found(j)[q][2] <= batches[x[1]][x[2]][2]
  BY <1>13, <1>17, <1>20
<1> QED
  BY <1>19, <1>21 DEF sent

-----------------------------------------------------------------------------
(* The reranker.                                                            *)

LEMMA LoadedOnce ==
  ASSUME Shaped, RecallSound, RankSound, stage \in {"rank", "done"}, NEW i \in DOMAIN sub
  PROVE  /\ Loaded(i) \in Seq(rows)
         /\ \A k, l \in 1..Len(Loaded(i)) : Loaded(i)[k] = Loaded(i)[l] => k = l
<1> DEFINE b == batches[i]
           S == {r \in DOMAIN b : b[r][1] \in rows}
           found == Picked(b, S)
<1>1. b = Batches[i] /\ stage \in {"parents", "rank", "done"}
  BY DEF RankSound
<1>2. b \in Seq(Chunk \X Int) /\ \A k, l \in 1..Len(b) : b[k][1] = b[l][1] => k = l
  <2>1. PICK owner, seen : Sent(Batches, Results, owner, seen)
    BY <1>1, BatchesHold
  <2>2. i \in 1..Len(Results)
    BY <1>1, BatchesHold
  <2>3. Has(b, i, Results[i], Len(Results[i]), seen, owner)
    BY <1>1, <2>1, <2>2 DEF Sent
  <2> QED
    BY <2>3 DEF Has, Apart, Pair
<1>3. Loaded(i) = [r \in DOMAIN found |-> found[r][1]]
  BY DEF Loaded
<1> HIDE DEF b
<1>4. Len(b) \in Nat /\ DOMAIN b = 1..Len(b) /\ \A r \in 1..Len(b) : b[r] \in Chunk \X Int
  BY <1>2, ListTyped
<1>5. S \in SUBSET (1..Len(b)) /\ \A r \in S : b[r] \in Chunk \X Int
  BY <1>4
<1>6. \A r \in S : b[r][1] \in rows
  OBVIOUS
<1> HIDE DEF S
<1>7. PICK n \in 0..Len(b) : \E q \in [1..n -> S] : Ascending(q, n, S) /\ Drawn(Picked(b, S), b, q, n, Chunk \X Int)
  BY <1>4, <1>5, PickedLists
<1>8. PICK q \in [1..n -> S] : Ascending(q, n, S) /\ Drawn(Picked(b, S), b, q, n, Chunk \X Int)
  BY <1>7
<1>9. DOMAIN found = 1..n /\ \A k \in 1..n : found[k] = b[q[k]]
  BY <1>8 DEF Drawn
<1> HIDE DEF found
<1>10. n \in Nat /\ \A k \in 1..n : q[k] \in S
  BY <1>4
<1>11. Loaded(i) \in [1..n -> rows] /\ \A k \in 1..n : Loaded(i)[k] = b[q[k]][1]
  BY <1>3, <1>6, <1>9, <1>10
<1>12. Loaded(i) \in Seq(rows) /\ Len(Loaded(i)) = n
  BY <1>10, <1>11
<1>13. \A k, l \in 1..n : Loaded(i)[k] = Loaded(i)[l] => k = l
  <2>1. TAKE k, l \in 1..n
  <2>2. q[k] \in 1..Len(b) /\ q[l] \in 1..Len(b)
    BY <1>5, <1>10
  <2>3. b[q[k]][1] = b[q[l]][1] => q[k] = q[l]
    BY <1>2, <2>2
  <2>4. q[k] = q[l] => k = l
    BY <1>8 DEF Ascending
  <2> QED
    BY <1>11, <2>3, <2>4
<1> QED
  BY <1>12, <1>13

\* The distinct indices of an answer that stays below n: at most n of them.
LEMMA UniqueFits ==
  ASSUME NEW n \in Nat, NEW m \in Nat, NEW answer \in [1..m -> 0..n], Accepted(answer, n)
  PROVE  /\ Unique(answer) \in Seq(0..(n - 1)) /\ Len(Unique(answer)) <= n
         /\ \A k, l \in 1..Len(Unique(answer)) : Unique(answer)[k] = Unique(answer)[l] => k = l
<1> DEFINE Z == 0..(n - 1)
<1>1. DOMAIN answer = 1..m /\ \A r \in 1..m : answer[r] \in Z
  BY DEF Accepted
<1> HIDE DEF Z
<1>2. PICK u \in 0..m : \E q \in [1..u -> 1..m] :
         Drawn(FirstOf(answer, answer), answer, q, u, Z) /\ OncePerKey(q, u, answer)
  BY <1>1, FirstOfLists
<1>3. PICK q \in [1..u -> 1..m] : Drawn(FirstOf(answer, answer), answer, q, u, Z) /\ OncePerKey(q, u, answer)
  BY <1>2
<1> DEFINE t == Unique(answer)
<1>4. /\ t \in Seq(Z) /\ Len(t) = u /\ DOMAIN t = 1..u
      /\ \A k \in 1..u : t[k] = answer[q[k]]
  BY <1>3 DEF Unique, Drawn
<1> HIDE DEF t
<1>5. \A k, l \in 1..u : t[k] = t[l] => k = l
  BY <1>3, <1>4 DEF OncePerKey
<1>6. u <= n
  <2>1. SUFFICES ASSUME n < u PROVE FALSE
    OBVIOUS
  <2>2. IsFiniteSet(1..u) /\ Cardinality(1..u) = u
    BY IntervalSize
  <2>3. IsFiniteSet(Z) /\ Cardinality(Z) = n
    BY FS_Interval DEF Z
  <2>4. t \in [1..u -> Z]
    BY <1>4
  <2>5. Cardinality(Z) < Cardinality(1..u)
    BY <2>1, <2>2, <2>3
  <2>6. \E k, l \in 1..u : k # l /\ t[k] = t[l]
    BY <2>2, <2>3, <2>4, <2>5, FS_PigeonHole
  <2> QED
    BY <1>5, <2>6
<1> QED
  BY <1>4, <1>5, <1>6 DEF t, Z

LEMMA ToRankedTyped ==
  ASSUME Shaped, NEW c \in rows
  PROVE  ToRanked(c) \in RankedChunk /\ ToRanked(c).id = c /\ ToRanked(c).version = Row[c].version
<1>1. c \in Chunk
  BY DEF Shaped
<1>2. /\ Row[c].product \in Product /\ Row[c].version \in Version /\ Row[c].tokens \in Nat
      /\ (IF c \in parents THEN Row[c].parent ELSE 0) \in Nat
      /\ (IF c \in parents THEN Row[c].whole ELSE 0) \in Nat
  BY <1>1, RowTyped
<1> QED
  BY <1>1, <1>2 DEF ToRanked, RankedChunk

\* The first chunks of a list, as rank returns them.
Top(s) == [r \in 1..Min({TopN, Len(s)}) |-> ToRanked(s[r])]

LEMMA TopIs ==
  ASSUME Shaped, NEW s \in Seq(rows)
  PROVE  /\ Top(s) \in Seq(RankedChunk) /\ Len(Top(s)) = Min({TopN, Len(s)})
         /\ DOMAIN Top(s) = 1..Len(Top(s)) /\ Len(Top(s)) <= Len(s) /\ Len(Top(s)) \in Nat
         /\ \A r \in DOMAIN Top(s) : /\ r \in 1..Len(s) /\ s[r] \in rows /\ Top(s)[r].id = s[r]
                                  /\ Top(s)[r].version = Row[s[r]].version
<1>1. TopN \in Nat /\ Len(s) \in Nat /\ \A r \in 1..Len(s) : s[r] \in rows
  BY RetrievalAssumption, ListTyped DEF RetrievalAssumption
<1> DEFINE m == Min({TopN, Len(s)})
<1>2. m \in Nat /\ m <= Len(s)
  BY <1>1, MinOfTwo
<1>3. Top(s) = [r \in 1..m |-> ToRanked(s[r])]
  BY DEF Top
<1> HIDE DEF m
<1>4. \A r \in 1..m : /\ r \in 1..Len(s) /\ s[r] \in rows
                     /\ ToRanked(s[r]) \in RankedChunk /\ ToRanked(s[r]).id = s[r]
                     /\ ToRanked(s[r]).version = Row[s[r]].version
  BY <1>1, <1>2, ToRankedTyped
<1>5. Top(s) \in [1..m -> RankedChunk] /\ \A r \in 1..m : Top(s)[r] = ToRanked(s[r])
  BY <1>3, <1>4
<1>6. Top(s) \in Seq(RankedChunk) /\ Len(Top(s)) = m
  BY <1>2, <1>5
<1> QED
  BY <1>2, <1>4, <1>5, <1>6 DEF m

\* Whatever the reranker answers, the outcome is the beginning of a reordering of the batch.
LEMMA RankReorders ==
  ASSUME Shaped, RecallSound, RankSound, NEW i \in DOMAIN sub, RankBatch(i)
  PROVE  \E s \in Seq(rows) :
            /\ \A k, l \in 1..Len(s) : s[k] = s[l] => k = l
            /\ \A k \in 1..Len(s) : \E l \in 1..Len(Loaded(i)) : s[k] = Loaded(i)[l]
            /\ Min({TopN, Len(s)}) = Min({TopN, Len(Loaded(i))})
            /\ ranked' = [ranked EXCEPT ![i] = <<Top(s)>>]
<1> DEFINE ids == Loaded(i)
           n == Len(ids)
<1>1. stage = "rank" /\ stage \in {"rank", "done"}
  BY DEF RankBatch
<1>2. ids \in Seq(rows) /\ \A k, l \in 1..n : ids[k] = ids[l] => k = l
  BY <1>1, LoadedOnce
<1>3. \/ ranked' = [ranked EXCEPT ![i] = <<Top(ids)>>]
      \/ \E answer \in Answers(n) :
            /\ n > 0 /\ Accepted(answer, n)
            /\ ranked' = [ranked EXCEPT ![i] = <<Top([r \in DOMAIN Unique(answer) |-> ids[Unique(answer)[r] + 1]])>>]
  BY Zenon DEF RankBatch, Top
<1> HIDE DEF ids
<1>4. n \in Nat /\ DOMAIN ids = 1..n /\ \A r \in 1..n : ids[r] \in rows
  BY <1>2, ListTyped
<1>5. CASE ranked' = [ranked EXCEPT ![i] = <<Top(ids)>>]
  BY <1>2, <1>5 DEF ids
<1>6. ASSUME NEW answer \in Answers(n), n > 0, Accepted(answer, n),
             ranked' = [ranked EXCEPT ![i] = <<Top([r \in DOMAIN Unique(answer) |-> ids[Unique(answer)[r] + 1]])>>]
      PROVE  \E s \in Seq(rows) :
                /\ \A k, l \in 1..Len(s) : s[k] = s[l] => k = l
                /\ \A k \in 1..Len(s) : \E l \in 1..n : s[k] = ids[l]
                /\ Min({TopN, Len(s)}) = Min({TopN, n})
                /\ ranked' = [ranked EXCEPT ![i] = <<Top(s)>>]
  <2>1. PICK m \in 0..MaxAnswer : answer \in [1..m -> 0..n]
    BY DEF Answers
  <2>2. m \in Nat
    BY RetrievalAssumption DEF RetrievalAssumption
  <2> DEFINE u == Unique(answer)
             s == [r \in DOMAIN u |-> ids[u[r] + 1]]
  <2>3. /\ u \in Seq(0..(n - 1)) /\ Len(u) <= n
        /\ \A k, l \in 1..Len(u) : u[k] = u[l] => k = l
    BY <1>4, <1>6, <2>1, <2>2, UniqueFits
  <2>4. Len(u) >= Min({TopN, n})
    BY <1>6 DEF Accepted, OutOf
  <2>5. ranked' = [ranked EXCEPT ![i] = <<Top(s)>>]
    BY <1>6
  <2> HIDE DEF u
  <2>6. Len(u) \in Nat /\ DOMAIN u = 1..Len(u) /\ \A r \in 1..Len(u) : u[r] \in 0..(n - 1)
    BY <2>3, ListTyped
  <2>7. \A r \in 1..Len(u) : u[r] \in Nat /\ u[r] + 1 \in 1..n
    BY <1>4, <2>6
  <2>8. s \in [1..Len(u) -> rows] /\ \A r \in 1..Len(u) : s[r] = ids[u[r] + 1]
    BY <1>4, <2>6, <2>7
  <2> HIDE DEF s
  <2>9. s \in Seq(rows) /\ Len(s) = Len(u)
    BY <2>6, <2>8
  <2>10. \A k, l \in 1..Len(u) : s[k] = s[l] => k = l
    <3>1. TAKE k, l \in 1..Len(u)
    <3>2. s[k] = s[l] => u[k] + 1 = u[l] + 1
      BY <1>2, <2>7, <2>8
    <3>3. u[k] \in Nat /\ u[l] \in Nat
      BY <2>7
    <3>4. s[k] = s[l] => u[k] = u[l]
      BY <3>2, <3>3
    <3> QED
      BY <2>3, <3>4
  <2>11. \A k \in 1..Len(u) : \E l \in 1..n : s[k] = ids[l]
    BY <2>7, <2>8
  <2>12. Min({TopN, Len(u)}) = Min({TopN, n})
    <3>1. TopN \in Nat
      BY RetrievalAssumption DEF RetrievalAssumption
    <3>2. Min({TopN, n}) = IF TopN <= n THEN TopN ELSE n
      BY <1>4, <3>1, MinOfTwo
    <3>3. Min({TopN, Len(u)}) = IF TopN <= Len(u) THEN TopN ELSE Len(u)
      BY <2>6, <3>1, MinOfTwo
    <3> QED
      BY <1>4, <2>3, <2>4, <2>6, <3>1, <3>2, <3>3
  <2> QED
    BY <2>5, <2>9, <2>10, <2>11, <2>12
<1> QED
  BY <1>3, <1>5, <1>6 DEF ids

LEMMA RankBatchKeeps ==
  ASSUME Reached, NEW i \in DOMAIN sub, RankBatch(i)
  PROVE  Reached'
<1>1. stage = "rank" /\ UNCHANGED <<ready, asked, sub, stage, candidates, rows, parents, batches, expand, context>>
  BY DEF RankBatch
<1>2. PICK s \in Seq(rows) :
         /\ \A k, l \in 1..Len(s) : s[k] = s[l] => k = l
         /\ \A k \in 1..Len(s) : \E l \in 1..Len(Loaded(i)) : s[k] = Loaded(i)[l]
         /\ Min({TopN, Len(s)}) = Min({TopN, Len(Loaded(i))})
         /\ ranked' = [ranked EXCEPT ![i] = <<Top(s)>>]
  BY RankReorders DEF Reached
<1>21. /\ \A k, l \in 1..Len(s) : s[k] = s[l] => k = l
       /\ \A k \in 1..Len(s) : \E l \in 1..Len(Loaded(i)) : s[k] = Loaded(i)[l]
       /\ Min({TopN, Len(s)}) = Min({TopN, Len(Loaded(i))})
  BY <1>2
<1>3. ranked \in [DOMAIN sub -> Seq(Seq(RankedChunk))]
  BY <1>1 DEF Reached, Shaped
<1>4. Top(s) \in Seq(RankedChunk)
  BY TopIs DEF Reached
<1>5. <<Top(s)>> \in Seq(Seq(RankedChunk))
  BY <1>4
<1>6. ranked' \in [DOMAIN sub -> Seq(Seq(RankedChunk))]
  BY <1>2, <1>3, <1>5
<1>7. ranked'[i][1] = Top(s) /\ \A j \in DOMAIN sub : j # i => ranked'[j] = ranked[j]
  BY <1>2, <1>3
<1>8. Shaped'
  BY <1>1, <1>6 DEF Reached, Shaped
<1>9. RecallSound'
  <2>1. /\ sub' = sub /\ stage' = stage /\ candidates' = candidates
        /\ \A j \in DOMAIN sub : Found(j)' = Found(j) /\ Matching(j)' = Matching(j)
    BY <1>1 DEF Found, Matching, Filter
  <2> QED
    BY <2>1 DEF Reached, RecallSound
<1>10. RowsSound'
  BY <1>1 DEF Reached, RowsSound
<1>11. \A j \in DOMAIN sub : Loaded(j)' = Loaded(j)
  BY <1>1 DEF Loaded
<1>12. Outcome(i)'
  <2> DEFINE o == Top(s)
  <2>1. /\ Len(o) = Min({TopN, Len(s)}) /\ DOMAIN o = 1..Len(o) /\ Len(o) <= Len(s) /\ Len(o) \in Nat
        /\ \A r \in DOMAIN o : /\ r \in 1..Len(s) /\ s[r] \in rows /\ o[r].id = s[r]
                            /\ o[r].version = Row[s[r]].version
    BY TopIs DEF Reached
  <2> HIDE DEF o
  <2>2. o = ranked'[i][1]
    BY <1>7 DEF o
  <2>3. \A q, r \in DOMAIN o : o[q].id = o[r].id => q = r
    <3>1. TAKE q, r \in DOMAIN o
    <3>2. q \in 1..Len(s) /\ r \in 1..Len(s) /\ o[q].id = s[q] /\ o[r].id = s[r]
      BY <2>1
    <3> QED
      BY <1>21, <3>2
  <2>4. DOMAIN Loaded(i) = 1..Len(Loaded(i))
    BY <1>1, LoadedOnce, ListTyped DEF Reached
  <2>5. \A r \in DOMAIN o : \E l \in DOMAIN Loaded(i) : Loaded(i)[l] = o[r].id
    <3>1. TAKE r \in DOMAIN o
    <3>2. r \in 1..Len(s) /\ o[r].id = s[r]
      BY <2>1
    <3> QED
      BY <1>21, <2>4, <3>2
  <2>6. Len(o) = Min({TopN, Len(Loaded(i))})
    BY <1>21, <2>1
  <2>7. \A r \in DOMAIN o : o[r].id \in rows /\ o[r].version = Row[o[r].id].version
    BY <2>1
  <2>8. rows' = rows /\ Loaded(i)' = Loaded(i)
    BY <1>1, <1>11
  <2>9. Reordered(o, Loaded(i), rows)
    BY <2>3, <2>5, <2>6, <2>7 DEF Reordered
  <2> QED
    BY <2>2, <2>8, <2>9 DEF Outcome
<1>13. ASSUME NEW j \in DOMAIN sub, j # i, ranked'[j] # Unset
       PROVE  Outcome(j)'
  <2>1. ranked'[j] = ranked[j] /\ Outcome(j)
    BY <1>1, <1>7, <1>13 DEF Reached, RankSound
  <2> QED
    BY <1>1, <1>11, <2>1 DEF Outcome
<1>14. batches' = Batches'
  BY <1>1, BatchesUnmoved DEF Reached, RankSound
<1>15. RankSound'
  BY <1>1, <1>12, <1>13, <1>14 DEF RankSound, Unset
<1>16. ContextSound'
  BY <1>1 DEF ContextSound
<1> QED
  BY <1>8, <1>9, <1>10, <1>15, <1>16 DEF Reached

-----------------------------------------------------------------------------
(* The other steps.                                                         *)

LEMMA StartReached == Init => Reached
<1> SUFFICES ASSUME Init PROVE Reached
  OBVIOUS
<1>1. stage = "recall" /\ rows = {} /\ candidates = [i \in DOMAIN sub |-> Unset]
  BY DEF Init
<1>2. PICK n \in 1..MaxSub : sub \in [1..n -> Scope]
  BY DEF Init
<1>3. n \in Nat
  BY RetrievalAssumption DEF RetrievalAssumption
<1>4. sub \in Seq(Scope)
  BY <1>2, <1>3
<1>5. Unset \in Seq(Seq(Chunk \X Int))
  BY DEF Unset
<1>6. candidates \in [DOMAIN sub -> Seq(Seq(Chunk \X Int))] /\ \A i \in DOMAIN sub : candidates[i] = Unset
  BY <1>1, <1>5
<1> QED
  BY <1>1, <1>4, <1>6 DEF Reached, Shaped, RecallSound, RowsSound, RankSound, ContextSound

LEMMA ListsTyped ==
  ASSUME NEW S, NEW n \in Nat, NEW s \in Lists(S, n)
  PROVE  s \in Seq(S) /\ IsInjective(s)
<1>1. PICK m \in 0..n : s \in [1..m -> S]
  BY DEF Lists
<1>2. IsInjective(s)
  BY DEF Lists
<1> QED
  BY <1>1, <1>2

LEMMA RecallFuses ==
  ASSUME NEW i \in DOMAIN sub, NEW v \in VectorHits(i) \cup {<<>>}, NEW k \in KeywordHits(i)
  PROVE  Candidates(Fuse(v, k), Matching(i))
<1> DEFINE M == Matching(i)
<1>1. TopK \in Nat
  BY RetrievalAssumption DEF RetrievalAssumption
<1>2. v \in Seq(M) /\ IsInjective(v)
  <2>1. CASE v = <<>>
    BY <2>1 DEF IsInjective
  <2>2. CASE v \in VectorHits(i)
    <3>1. v \in Lists(M, TopK)
      BY <2>2 DEF VectorHits
    <3> HIDE DEF M
    <3> QED
      BY <1>1, <3>1, ListsTyped
  <2> QED
    BY <2>1, <2>2
<1>3. k \in Seq(M) /\ IsInjective(k)
  <2>1. k \in Lists(Served(i), TopK)
    BY DEF KeywordHits
  <2>2. k \in Seq(Served(i)) /\ IsInjective(k)
    BY <1>1, <2>1, ListsTyped
  <2>3. Served(i) \subseteq M
    BY DEF Served
  <2> HIDE DEF M
  <2> QED
    BY <2>2, <2>3
<1> HIDE DEF M
<1>4. Candidates(Fuse(v, k), M)
  BY <1>2, <1>3, FuseRanks
<1> QED
  BY <1>4 DEF M

LEMMA RecallKeeps ==
  ASSUME Reached, NEW i \in DOMAIN sub, Recall(i)
  PROVE  Reached'
<1>1. stage = "recall" /\ UNCHANGED <<ready, asked, sub, rows, parents, batches, ranked, expand, context>>
  BY DEF Recall
<1>2. candidates \in [DOMAIN sub -> Seq(Seq(Chunk \X Int))]
  BY DEF Reached, Shaped
<1>3. Matching(i)' = Matching(i) /\ \A j \in DOMAIN sub : Matching(j)' = Matching(j)
  BY <1>1 DEF Matching, Filter
<1>4. stage' \notin {"parents", "rank", "done"}
  BY <1>1 DEF Recall
<1>5. RowsSound' /\ RankSound' /\ ContextSound'
  BY <1>1, <1>4 DEF Reached, RowsSound, RankSound, ContextSound
<1>6. CASE stage' = "failed" /\ UNCHANGED candidates
  BY <1>1, <1>3, <1>5, <1>6 DEF Reached, Shaped, RecallSound, Found
<1>7. ASSUME NEW v \in VectorHits(i) \cup {<<>>}, NEW k \in KeywordHits(i),
             candidates' = [candidates EXCEPT ![i] = <<Fuse(v, k)>>], UNCHANGED stage
      PROVE  Reached'
  <2> DEFINE f == Fuse(v, k)
  <2>1. Candidates(f, Matching(i))
    BY RecallFuses
  <2> HIDE DEF f
  <2>2. f \in Seq(Chunk \X Int)
    <3>1. Matching(i) \subseteq Chunk
      BY DEF Matching
    <3>2. f \in Seq(Matching(i) \X Int)
      BY <2>1 DEF Candidates
    <3>3. Len(f) \in Nat /\ f \in [1..Len(f) -> Matching(i) \X Int]
      BY <3>2
    <3>4. f \in [1..Len(f) -> Chunk \X Int]
      BY <3>1, <3>3
    <3> QED
      BY <3>3, <3>4
  <2>3. <<f>> \in Seq(Seq(Chunk \X Int))
    BY <2>2
  <2>4. candidates' = [candidates EXCEPT ![i] = <<f>>]
    BY <1>7 DEF f
  <2>5. /\ candidates' \in [DOMAIN sub -> Seq(Seq(Chunk \X Int))]
        /\ candidates'[i] = <<f>> /\ \A j \in DOMAIN sub : j # i => candidates'[j] = candidates[j]
    BY <1>2, <2>3, <2>4
  <2>6. Candidates(candidates'[i][1], Matching(i)')
    BY <1>3, <2>1, <2>5
  <2>7. ASSUME NEW j \in DOMAIN sub, candidates'[j] # Unset
        PROVE  Candidates(candidates'[j][1], Matching(j)')
    BY <1>3, <2>5, <2>6, <2>7 DEF Reached, RecallSound, Found
  <2>8. RecallSound'
    BY <1>1, <1>4, <2>7 DEF RecallSound, Found
  <2>9. Shaped'
    BY <1>1, <1>7, <2>5 DEF Reached, Shaped
  <2> QED
    BY <1>5, <2>8, <2>9 DEF Reached
<1> QED
  BY <1>6, <1>7 DEF Recall

LEMMA LoadRowsKeeps ==
  ASSUME Reached, LoadRows
  PROVE  Reached'
<1>1. /\ stage = "recall" /\ stage' = "parents" /\ rows' = {c \in AllIds : Servable(c)}
      /\ \A i \in DOMAIN sub : candidates[i] # Unset
      /\ UNCHANGED <<ready, asked, sub, candidates, parents, batches, ranked, expand, context>>
  BY DEF LoadRows
<1>2. ASSUME NEW c \in AllIds
      PROVE  c \in Chunk /\ (asked.version # None => Row[c].version = asked.version)
  <2>1. PICK i \in DOMAIN sub : c \in Ids(Found(i))
    BY DEF AllIds
  <2>2. PICK r \in DOMAIN Found(i) : c = Found(i)[r][1]
    BY <2>1 DEF Ids
  <2>3. c \in Matching(i)
    BY <1>1, <2>2, FoundTyped DEF Reached
  <2> QED
    BY <2>3 DEF Matching, Filter
<1>3. Shaped' /\ RowsSound'
  BY <1>1, <1>2 DEF Reached, Shaped, RowsSound
<1>4. RecallSound'
  BY <1>1 DEF Reached, RecallSound, Found, Matching, Filter
<1>5. RankSound' /\ ContextSound'
  BY <1>1 DEF RankSound, ContextSound
<1> QED
  BY <1>3, <1>4, <1>5 DEF Reached

LEMMA LoadParentsKeeps ==
  ASSUME Reached, LoadParents
  PROVE  Reached'
<1>1. /\ stage = "parents" /\ stage' = "rank" /\ batches' = Batches
      /\ ranked' = [i \in DOMAIN sub |-> Unset]
      /\ UNCHANGED <<ready, asked, sub, candidates, rows, expand, context>>
  BY DEF LoadParents, Batches, Results
<1>2. Unset \in Seq(Seq(RankedChunk))
  BY DEF Unset
<1>3. Shaped' /\ RowsSound'
  BY <1>1, <1>2 DEF Reached, Shaped, RowsSound
<1>4. RecallSound'
  BY <1>1 DEF Reached, RecallSound, Found, Matching, Filter
<1>5. RankSound'
  BY <1>1, BatchesUnmoved DEF RankSound, Unset
<1>6. ContextSound'
  BY <1>1 DEF ContextSound
<1> QED
  BY <1>3, <1>4, <1>5, <1>6 DEF Reached

\* Steps that change nothing but the documents in service.
LEMMA QuietKeeps ==
  ASSUME Reached, UNCHANGED <<asked, sub, stage, candidates, rows, parents, batches, ranked, expand, context>>
  PROVE  Reached'
<1>1. Shaped' /\ RowsSound'
  BY DEF Reached, Shaped, RowsSound
<1>2. RecallSound'
  BY DEF Reached, RecallSound, Found, Matching, Filter
<1>3. \A i \in DOMAIN sub : Loaded(i)' = Loaded(i)
  BY DEF Loaded
<1>4. RankSound'
  BY <1>3, BatchesUnmoved DEF Reached, RankSound, Outcome
<1>5. ContextSound'
  BY DEF Reached, ContextSound
<1> QED
  BY <1>1, <1>2, <1>4, <1>5 DEF Reached

-----------------------------------------------------------------------------
(* The context.                                                             *)

\* A chunk the reranker may return.
Good == {x \in RankedChunk : x.id \in rows /\ x.version = Row[x.id].version}

LEMMA AllRankedGood ==
  ASSUME Reached, stage = "rank", \A i \in DOMAIN sub : ranked[i] # Unset
  PROVE  AllRanked \in Seq(Good)
<1> DEFINE N == Len(sub)
           X == Seq(Good)
           G == [p \in (1..N) \X X |-> p[2] \o ranked[p[1]][1]]
           up == CHOOSE u : u = [n \in 0..N |-> IF n = 0 THEN <<>> ELSE u[n - 1] \o ranked[n][1]]
<1>1. N \in Nat /\ DOMAIN sub = 1..N
  BY ListTyped DEF Reached, Shaped
<1>2. ASSUME NEW n \in 1..N
      PROVE  ranked[n][1] \in X
  <2>1. ranked \in [DOMAIN sub -> Seq(Seq(RankedChunk))] /\ Outcome(n) /\ ranked[n] # <<>>
    BY <1>1 DEF Reached, Shaped, RankSound, Unset
  <2>2. ranked[n] \in Seq(Seq(RankedChunk))
    BY <1>1, <2>1
  <2>3. ranked[n][1] \in Seq(RankedChunk)
    BY <2>1, <2>2
  <2> DEFINE o == ranked[n][1]
  <2>4. \A r \in DOMAIN o : o[r].id \in rows /\ o[r].version = Row[o[r].id].version
    BY <2>1 DEF Outcome, Reordered
  <2> HIDE DEF o
  <2>5. o \in Seq(RankedChunk)
    BY <2>3 DEF o
  <2>6. Len(o) \in Nat /\ DOMAIN o = 1..Len(o) /\ \A r \in 1..Len(o) : o[r] \in RankedChunk
    BY <2>5, ListTyped
  <2>7. \A r \in 1..Len(o) : o[r] \in Good
    BY <2>4, <2>6 DEF Good
  <2>8. o = [r \in 1..Len(o) |-> o[r]]
    BY <2>5
  <2>9. o \in [1..Len(o) -> Good]
    BY <2>7, <2>8
  <2> QED
    BY <2>6, <2>9 DEF o
<1> HIDE DEF N
<1>3. <<>> \in X
  OBVIOUS
<1>4. \A n \in 1..N : \A x \in X : x \o ranked[n][1] \in X
  BY <1>2
<1>5. G \in [(1..N) \X X -> X] /\ \A n \in 1..N : \A x \in X : G[<<n, x>>] = x \o ranked[n][1]
  BY <1>4
<1> HIDE DEF X, G
<1>6. PICK f : Runs(f, N, X, <<>>, G)
  BY <1>1, <1>3, <1>5, LoopRuns
<1>7. f \in [0..N -> X] /\ f[0] = <<>> /\ \A n \in 1..N : f[n] = G[<<n, f[n - 1]>>]
  BY <1>6 DEF Runs
<1>8. \A n \in 1..N : f[n] = f[n - 1] \o ranked[n][1]
  <2>1. TAKE n \in 1..N
  <2>2. n - 1 \in 0..N
    BY <1>1
  <2>3. f[n - 1] \in X
    BY <1>7, <2>2
  <2> QED
    BY <1>5, <1>7, <2>3
<1>9. f = [n \in 0..N |-> IF n = 0 THEN <<>> ELSE f[n - 1] \o ranked[n][1]]
  <2>1. f = [n \in 0..N |-> f[n]]
    BY <1>7
  <2>2. \A n \in 0..N : n = 0 \/ n \in 1..N
    BY <1>1
  <2>3. \A n \in 0..N : f[n] = IF n = 0 THEN <<>> ELSE f[n - 1] \o ranked[n][1]
    BY <1>7, <1>8, <2>2
  <2> QED
    BY <2>1, <2>3
<1>10. up = [n \in 0..N |-> IF n = 0 THEN <<>> ELSE up[n - 1] \o ranked[n][1]]
  BY <1>9
<1>11. AllRanked = up[N]
  BY DEF AllRanked, N
<1> HIDE DEF up
<1>101. \A n \in 0..N : up[n] = IF n = 0 THEN <<>> ELSE up[n - 1] \o ranked[n][1]
  BY <1>10
<1> DEFINE P == {n \in 0..N : up[n] \in X}
<1>12. 0 \in P
  BY <1>1, <1>3, <1>101
<1>13. ASSUME NEW n \in 1..N, n - 1 \in P
       PROVE  n \in P
  <2>1. up[n] = up[n - 1] \o ranked[n][1] /\ up[n - 1] \in X
    <3>1. n \in 0..N /\ n # 0
      BY <1>1
    <3>2. up[n] = up[n - 1] \o ranked[n][1]
      BY <1>101, <3>1
    <3>3. up[n - 1] \in X
      BY <1>13
    <3> QED
      BY <3>2, <3>3
  <2>2. up[n] \in X
    BY <1>4, <2>1
  <2> QED
    BY <1>1, <2>2
<1> HIDE DEF P
<1>14. N \in P
  BY <1>1, <1>12, <1>13, TurnInduction
<1> QED
  BY <1>11, <1>14 DEF P, X

\* t is drawn from s: its elements are those of s at different places.
From(t, s) ==
    \E q \in [1..Len(t) -> 1..Len(s)] :
        /\ \A i, j \in 1..Len(t) : q[i] = q[j] => i = j
        /\ \A k \in 1..Len(t) : t[k] = s[q[k]]
OnceEach(t) == \A i, j \in 1..Len(t) : t[i].id = t[j].id => i = j
Within(t) == \A v : Cardinality({k \in 1..Len(t) : Release(t[k]) = v}) <= Cap

LEMMA FromKeeps ==
  ASSUME NEW T, NEW s \in Seq(T), NEW t \in Seq(T), From(t, s)
  PROVE  /\ OnceEach(s) => OnceEach(t)
         /\ Within(s) => Within(t)
<1>1. Len(s) \in Nat /\ Len(t) \in Nat
  BY ListTyped
<1>2. PICK q \in [1..Len(t) -> 1..Len(s)] :
         /\ \A i, j \in 1..Len(t) : q[i] = q[j] => i = j
         /\ \A k \in 1..Len(t) : t[k] = s[q[k]]
  BY DEF From
<1>3. OnceEach(s) => OnceEach(t)
  BY <1>2 DEF OnceEach
<1>4. ASSUME Within(s), NEW v
      PROVE  Cardinality({k \in 1..Len(t) : Release(t[k]) = v}) <= Cap
  <2> DEFINE A == {k \in 1..Len(t) : Release(t[k]) = v}
             B == {k \in 1..Len(s) : Release(s[k]) = v}
  <2>1. A \in SUBSET (1..Len(t)) /\ B \in SUBSET (1..Len(s)) /\ \A i \in A : q[i] \in B
    BY <1>2
  <2>2. Cardinality(B) <= Cap
    BY <1>4 DEF Within
  <2>3. IsFiniteSet(B)
    BY <1>1, <2>1, IntervalSize, FS_Subset
  <2> HIDE DEF A, B
  <2>4. IsFiniteSet(A) /\ Cardinality(A) <= Cardinality(B)
    BY <1>1, <1>2, <2>1, CountDrawn
  <2>5. Cardinality(A) \in Nat /\ Cardinality(B) \in Nat /\ Cap \in Nat
    BY <2>3, <2>4, FS_CardinalityType, ContextAssumption DEF ContextAssumption
  <2>6. Cardinality(A) <= Cap
    BY <2>2, <2>4, <2>5
  <2> QED
    BY <2>6 DEF A
<1> QED
  BY <1>3, <1>4 DEF Within

\* The first chunk of every key, as _dedup and _collapse_to_parents keep it.
LEMMA FirstChunks ==
  ASSUME NEW T, NEW s \in Seq(T), NEW key
  PROVE  /\ FirstOf(s, key) \in Seq(T) /\ From(FirstOf(s, key), s)
         /\ \A i \in 1..Len(FirstOf(s, key)) : \E m \in 1..Len(s) : FirstOf(s, key)[i] = s[m]
         /\ \E q \in [1..Len(FirstOf(s, key)) -> 1..Len(s)] :
               /\ \A k \in 1..Len(FirstOf(s, key)) : FirstOf(s, key)[k] = s[q[k]]
               /\ OncePerKey(q, Len(FirstOf(s, key)), key)
<1>1. Len(s) \in Nat /\ DOMAIN s = 1..Len(s) /\ \A i \in 1..Len(s) : s[i] \in T
  BY ListTyped
<1> DEFINE t == FirstOf(s, key)
<1>2. PICK n \in 0..Len(s) : \E q \in [1..n -> 1..Len(s)] : Drawn(t, s, q, n, T) /\ OncePerKey(q, n, key)
  BY <1>1, FirstOfLists
<1>3. PICK q \in [1..n -> 1..Len(s)] : Drawn(t, s, q, n, T) /\ OncePerKey(q, n, key)
  BY <1>2
<1> HIDE DEF t
<1>4. t \in Seq(T) /\ Len(t) = n /\ \A k \in 1..n : t[k] = s[q[k]]
  BY <1>3 DEF Drawn
<1>5. \A i, j \in 1..n : q[i] = q[j] => i = j
  BY <1>3 DEF OncePerKey
<1>6. From(t, s)
  BY <1>4, <1>5 DEF From
<1>7. \A k \in 1..n : q[k] \in 1..Len(s)
  OBVIOUS
<1> QED
  BY <1>3, <1>4, <1>6, <1>7 DEF t

LEMMA DedupOnce ==
  ASSUME NEW T, NEW s \in Seq(T)
  PROVE  Dedup(s) \in Seq(T) /\ OnceEach(Dedup(s))
<1> DEFINE key == [i \in DOMAIN s |-> s[i].id]
           t == FirstOf(s, key)
<1>1. t = Dedup(s)
  BY DEF Dedup
<1>2. \A i \in 1..Len(s) : key[i] = s[i].id
  BY ListTyped
<1> HIDE DEF key
<1>3. t \in Seq(T)
  BY FirstChunks
<1>4. PICK q \in [1..Len(t) -> 1..Len(s)] : (\A k \in 1..Len(t) : t[k] = s[q[k]]) /\ OncePerKey(q, Len(t), key)
  BY FirstChunks
<1> HIDE DEF t
<1>5. \A k \in 1..Len(t) : key[q[k]] = t[k].id
  BY <1>2, <1>4
<1>6. OnceEach(t)
  BY <1>4, <1>5 DEF OnceEach, OncePerKey
<1> QED
  BY <1>1, <1>3, <1>6

LEMMA CollapseOnce ==
  ASSUME NEW T, NEW s \in Seq(T)
  PROVE  /\ CollapseToParents(s) \in Seq(T) /\ From(CollapseToParents(s), s)
         /\ \A i, j \in 1..Len(CollapseToParents(s)) :
               KeyOf(CollapseToParents(s)[i]) = KeyOf(CollapseToParents(s)[j]) => i = j
<1> DEFINE key == [i \in DOMAIN s |-> KeyOf(s[i])]
           t == FirstOf(s, key)
<1>1. t = CollapseToParents(s)
  BY DEF CollapseToParents
<1>2. \A i \in 1..Len(s) : key[i] = KeyOf(s[i])
  BY ListTyped
<1> HIDE DEF key
<1>3. t \in Seq(T) /\ From(t, s)
  BY FirstChunks
<1>4. PICK q \in [1..Len(t) -> 1..Len(s)] : (\A k \in 1..Len(t) : t[k] = s[q[k]]) /\ OncePerKey(q, Len(t), key)
  BY FirstChunks
<1> HIDE DEF t
<1>5. \A k \in 1..Len(t) : key[q[k]] = KeyOf(t[k])
  BY <1>2, <1>4
<1>6. \A i, j \in 1..Len(t) : KeyOf(t[i]) = KeyOf(t[j]) => i = j
  BY <1>4, <1>5 DEF OncePerKey
<1> QED
  BY <1>1, <1>3, <1>6

\* No version of a product has more chunks than the cap.
LEMMA CapsHold ==
  ASSUME NEW T, NEW s \in Seq(T)
  PROVE  /\ ApplyVersionCaps(s) \in Seq(T) /\ From(ApplyVersionCaps(s), s)
         /\ Within(ApplyVersionCaps(s))
<1> DEFINE K == {i \in DOMAIN s : Cardinality({j \in 1..(i - 1) : Release(s[j]) = Release(s[i])}) < Cap}
           t == Picked(s, K)
<1>1. Len(s) \in Nat /\ DOMAIN s = 1..Len(s) /\ \A i \in 1..Len(s) : s[i] \in T
  BY ListTyped
<1>2. t = ApplyVersionCaps(s)
  BY DEF ApplyVersionCaps
<1>3. K \in SUBSET (1..Len(s)) /\ \A i \in K : s[i] \in T
  BY <1>1
<1>4. \A i \in K : Cardinality({j \in 1..(i - 1) : Release(s[j]) = Release(s[i])}) < Cap
  OBVIOUS
<1> HIDE DEF K
<1>5. PICK n \in 0..Len(s) : \E q \in [1..n -> K] : Ascending(q, n, K) /\ Drawn(Picked(s, K), s, q, n, T)
  BY <1>1, <1>3, PickedLists
<1>6. PICK q \in [1..n -> K] : Ascending(q, n, K) /\ Drawn(Picked(s, K), s, q, n, T)
  BY <1>5
<1>7. t \in Seq(T) /\ Len(t) = n /\ \A k \in 1..n : t[k] = s[q[k]]
  BY <1>6 DEF Drawn
<1> HIDE DEF t
<1>8. n \in Nat /\ q \in [1..n -> 1..Len(s)] /\ \A k \in 1..n : q[k] \in K /\ q[k] \in 1..Len(s)
  <2>1. n \in Nat
    BY <1>1
  <2>2. \A k \in 1..n : q[k] \in K
    OBVIOUS
  <2>3. \A k \in 1..n : q[k] \in 1..Len(s)
    BY <1>3, <2>2
  <2>4. q \in [1..n -> 1..Len(s)]
    BY <2>3
  <2> QED
    BY <2>1, <2>2, <2>3, <2>4
<1>9. /\ \A i, j \in 1..n : i < j => q[i] < q[j]
      /\ \A i, j \in 1..n : q[i] = q[j] => i = j
  BY <1>6 DEF Ascending
<1>10. From(t, s)
  BY <1>7, <1>8, <1>9 DEF From
<1>11. Cap \in Nat
  BY ContextAssumption DEF ContextAssumption
<1>12. ASSUME NEW v
       PROVE  Cardinality({k \in 1..n : Release(t[k]) = v}) <= Cap
  <2> DEFINE A == {k \in 1..n : Release(t[k]) = v}
  <2>1. CASE A = {}
    <3>1. Cardinality(A) = 0
      BY <2>1, FS_EmptySet
    <3> HIDE DEF A
    <3>2. Cardinality(A) <= Cap
      BY <1>11, <3>1
    <3> QED
      BY <3>2 DEF A
  <2>2. CASE A # {}
    <3>1. A \in SUBSET (0..n) /\ A \in SUBSET (1..n)
      OBVIOUS
    <3>2. PICK m \in A : \A k \in A : k <= m
      BY <1>8, <2>2, <3>1, MaxOf
    <3> DEFINE B == {j \in 1..(q[m] - 1) : Release(s[j]) = Release(s[q[m]])}
    <3>3. m \in 1..n /\ Release(t[m]) = v /\ q[m] \in 1..Len(s) /\ q[m] \in K
      BY <1>8
    <3>4. Cardinality(B) < Cap
      BY <1>4, <3>3
    <3>5. \A k \in A \ {m} : q[k] \in B
      <4>1. TAKE k \in A \ {m}
      <4>2. k \in 1..n /\ Release(t[k]) = v /\ k < m
        BY <1>8, <3>1, <3>2
      <4>3. q[k] < q[m] /\ q[k] \in 1..Len(s)
        BY <1>8, <1>9, <3>3, <4>2
      <4>4. Release(s[q[k]]) = Release(s[q[m]])
        BY <1>7, <3>3, <4>2
      <4> QED
        BY <1>1, <3>3, <4>3, <4>4
    <3>6. B \in SUBSET (1..Len(s)) /\ A \ {m} \in SUBSET (1..n)
      BY <1>1, <3>3
    <3> HIDE DEF A, B
    <3>7. IsFiniteSet(A) /\ IsFiniteSet(B)
      BY <1>1, <1>8, <3>1, <3>6, IntervalSize, FS_Subset
    <3>8. Cardinality(A \ {m}) <= Cardinality(B)
      BY <1>1, <1>8, <1>9, <3>5, <3>6, CountDrawn
    <3>9. Cardinality(A \ {m}) = Cardinality(A) - 1
      BY <3>7, FS_RemoveElement
    <3>10. Cardinality(A) \in Nat /\ Cardinality(B) \in Nat
      BY <3>7, FS_CardinalityType
    <3>11. Cardinality(A) <= Cap
      BY <1>11, <3>4, <3>8, <3>9, <3>10
    <3> QED
      BY <3>11 DEF A
  <2> QED
    BY <2>1, <2>2
<1>13. Within(t)
  BY <1>7, <1>12 DEF Within
<1> QED
  BY <1>2, <1>7, <1>10, <1>13

-----------------------------------------------------------------------------
(* The budget.                                                              *)

LEMMA OwnTextTyped ==
  ASSUME NEW c \in RankedChunk, NEW e \in BOOLEAN
  PROVE  /\ OwnText(c) \in RankedChunk /\ BodyTokens(c, e) \in Nat /\ c.tokens \in Nat
         /\ OwnText(c).id = c.id /\ OwnText(c).version = c.version /\ OwnText(c).product = c.product
         /\ OwnText(c).parent = 0
         /\ BodyTokens(OwnText(c), e) = c.tokens
BY DEF RankedChunk, OwnText, BodyTokens

\* The sum of a list, and what one more chunk adds to it.
LEMMA SpentIs ==
  ASSUME NEW s \in Seq(RankedChunk), NEW e \in BOOLEAN
  PROVE  \E f \in [0..Len(s) -> Nat] :
            /\ f[0] = 0 /\ \A n \in 1..Len(s) : f[n] = f[n - 1] + BodyTokens(s[n], e)
            /\ Spent(s, e) = f[Len(s)]
<1> DEFINE N == Len(s)
           G == [p \in (1..N) \X Nat |-> p[2] + BodyTokens(s[p[1]], e)]
           up == CHOOSE u : u = [n \in 0..N |-> IF n = 0 THEN 0 ELSE u[n - 1] + BodyTokens(s[n], e)]
<1>1. N \in Nat /\ DOMAIN s = 1..N /\ \A n \in 1..N : s[n] \in RankedChunk
  BY ListTyped
<1>2. Spent(s, e) = up[N]
  BY DEF Spent
<1> HIDE DEF N
<1>3. \A n \in 1..N : BodyTokens(s[n], e) \in Nat
  BY <1>1, OwnTextTyped
<1>4. G \in [(1..N) \X Nat -> Nat] /\ \A n \in 1..N : \A x \in Nat : G[<<n, x>>] = x + BodyTokens(s[n], e)
  BY <1>3
<1> HIDE DEF G
<1>5. PICK f : Runs(f, N, Nat, 0, G)
  BY <1>1, <1>4, LoopRuns
<1>6. f \in [0..N -> Nat] /\ f[0] = 0 /\ \A n \in 1..N : f[n] = G[<<n, f[n - 1]>>]
  BY <1>5 DEF Runs
<1>7. \A n \in 1..N : f[n] = f[n - 1] + BodyTokens(s[n], e)
  <2>1. TAKE n \in 1..N
  <2>2. n - 1 \in 0..N
    BY <1>1
  <2>3. f[n - 1] \in Nat
    BY <1>6, <2>2
  <2> QED
    BY <1>4, <1>6, <2>3
<1>8. f = [n \in 0..N |-> IF n = 0 THEN 0 ELSE f[n - 1] + BodyTokens(s[n], e)]
  <2>1. f = [n \in 0..N |-> f[n]]
    BY <1>6
  <2>2. \A n \in 0..N : n = 0 \/ n \in 1..N
    BY <1>1
  <2>3. \A n \in 0..N : f[n] = IF n = 0 THEN 0 ELSE f[n - 1] + BodyTokens(s[n], e)
    BY <1>6, <1>7, <2>2
  <2> QED
    BY <2>1, <2>3
<1>9. up = [n \in 0..N |-> IF n = 0 THEN 0 ELSE up[n - 1] + BodyTokens(s[n], e)]
  BY <1>8
<1> HIDE DEF up
<1>10. \A n \in 0..N : up[n] = IF n = 0 THEN 0 ELSE up[n - 1] + BodyTokens(s[n], e)
  BY <1>9
<1> DEFINE P == {n \in 0..N : up[n] \in Nat}
<1>11. 0 \in P
  BY <1>1, <1>10
<1>12. \A n \in 1..N : up[n] = up[n - 1] + BodyTokens(s[n], e)
  <2>1. TAKE n \in 1..N
  <2>2. n \in 0..N /\ n # 0
    BY <1>1
  <2> QED
    BY <1>10, <2>2
<1>13. ASSUME NEW n \in 1..N, n - 1 \in P
       PROVE  n \in P
  <2>1. up[n] \in Nat
    BY <1>3, <1>12, <1>13
  <2> QED
    BY <1>1, <2>1
<1> HIDE DEF P
<1>14. \A n \in 0..N : n \in P
  BY <1>1, <1>11, <1>13, TurnInduction
<1>15. up \in [0..N -> Nat]
  <2>1. \A n \in 0..N : up[n] \in Nat
    BY <1>14 DEF P
  <2>2. DOMAIN up = 0..N /\ up = [n \in 0..N |-> up[n]]
    BY <1>9
  <2> QED
    BY <2>1, <2>2
<1>16. up[0] = 0
  BY <1>1, <1>10
<1> QED
  BY <1>2, <1>12, <1>15, <1>16 DEF N

LEMMA SpentGrows ==
  ASSUME NEW s \in Seq(RankedChunk), NEW c \in RankedChunk, NEW e \in BOOLEAN
  PROVE  Spent(s, e) \in Nat /\ Spent(Append(s, c), e) = Spent(s, e) + BodyTokens(c, e)
<1> DEFINE t == Append(s, c)
           N == Len(s)
<1>1. /\ N \in Nat /\ t \in Seq(RankedChunk) /\ Len(t) = N + 1 /\ t[N + 1] = c
      /\ \A n \in 1..N : t[n] = s[n]
  OBVIOUS
<1>2. PICK f \in [0..Len(s) -> Nat] :
         /\ f[0] = 0 /\ \A n \in 1..Len(s) : f[n] = f[n - 1] + BodyTokens(s[n], e)
         /\ Spent(s, e) = f[Len(s)]
  BY SpentIs
<1> HIDE DEF t
<1>3. PICK g \in [0..Len(t) -> Nat] :
         /\ g[0] = 0 /\ \A n \in 1..Len(t) : g[n] = g[n - 1] + BodyTokens(t[n], e)
         /\ Spent(t, e) = g[Len(t)]
  BY <1>1, SpentIs
<1> HIDE DEF N
<1>4. /\ f \in [0..N -> Nat] /\ \A n \in 1..N : f[n] = f[n - 1] + BodyTokens(s[n], e)
      /\ Spent(s, e) = f[N]
  BY <1>2 DEF N
<1>5. /\ \A n \in 1..(N + 1) : g[n] = g[n - 1] + BodyTokens(t[n], e)
      /\ Spent(t, e) = g[N + 1]
  BY <1>1, <1>3
<1> DEFINE P == {n \in 0..N : g[n] = f[n]}
<1>6. 0 \in P
  BY <1>1, <1>2, <1>3
<1>7. ASSUME NEW n \in 1..N, n - 1 \in P
      PROVE  n \in P
  <2>1. g[n - 1] = f[n - 1] /\ n \in 1..(N + 1) /\ t[n] = s[n] /\ n \in 0..N
    BY <1>1, <1>7
  <2>2. g[n] = f[n]
    BY <1>4, <1>5, <2>1
  <2> QED
    BY <2>1, <2>2
<1> HIDE DEF P
<1>8. N \in P
  <2>1. N \in Nat /\ N \in 0..N
    BY <1>1
  <2>2. \A n \in 0..N : n \in P
    BY <1>6, <1>7, <2>1, TurnInduction
  <2> QED
    BY <2>1, <2>2
<1>9. g[N] = f[N] /\ f[N] \in Nat
  BY <1>1, <1>4, <1>8 DEF P
<1>10. N + 1 \in 1..(N + 1) /\ (N + 1) - 1 = N
  BY <1>1
<1>11. g[N + 1] = g[N] + BodyTokens(c, e)
  BY <1>1, <1>5, <1>10
<1> QED
  BY <1>4, <1>5, <1>9, <1>11 DEF t

LEMMA SpentNothing ==
  ASSUME NEW e \in BOOLEAN
  PROVE  Spent(<<>>, e) = 0
<1>1. <<>> \in Seq(RankedChunk) /\ Len(<<>>) = 0
  OBVIOUS
<1>2. PICK s : s = <<>> /\ s \in Seq(RankedChunk) /\ Len(s) = 0
  BY <1>1
<1>3. PICK f \in [0..Len(s) -> Nat] :
         /\ f[0] = 0 /\ \A n \in 1..Len(s) : f[n] = f[n - 1] + BodyTokens(s[n], e)
         /\ Spent(s, e) = f[Len(s)]
  BY <1>2, SpentIs, Zenon
<1> QED
  BY <1>2, <1>3

\* Where the selection stands after n turns: each chunk as it is or with its own text, in order.
Taking == [full : BOOLEAN, used : Nat, chunks : Seq(RankedChunk)]
Shown(x, c) == x = c \/ x = OwnText(c)
Selected(e, s, list, n) ==
    /\ s \in Taking /\ Len(s.chunks) <= n /\ (~s.full => Len(s.chunks) = n)
    /\ \A k \in 1..Len(s.chunks) : Shown(s.chunks[k], list[k])
    /\ Spent(s.chunks, e) = s.used /\ s.used <= Budget

LEMMA TakenTyped ==
  ASSUME NEW s \in Taking, NEW x \in RankedChunk, NEW cost \in Nat
  PROVE  /\ Taken(s, x, cost) \in Taking /\ Taken(s, x, cost).chunks = Append(s.chunks, x)
         /\ Taken(s, x, cost).used = s.used + cost /\ Taken(s, x, cost).full = FALSE
<1>1. s.used \in Nat /\ s.chunks \in Seq(RankedChunk)
  BY DEF Taking
<1>2. Append(s.chunks, x) \in Seq(RankedChunk) /\ s.used + cost \in Nat
  BY <1>1
<1> QED
  BY <1>2 DEF Taken, Taking

LEMMA AddTyped ==
  ASSUME NEW s \in Taking, NEW c \in RankedChunk, NEW e \in BOOLEAN
  PROVE  /\ Add(s, c, e) \in Taking
         /\ \/ Add(s, c, e).full /\ Add(s, c, e).chunks = s.chunks /\ Add(s, c, e).used = s.used
            \/ \E x \in RankedChunk :
                  /\ ~s.full /\ Shown(x, c) /\ s.used + BodyTokens(x, e) <= Budget
                  /\ Add(s, c, e) = Taken(s, x, BodyTokens(x, e))
<1>1. /\ OwnText(c) \in RankedChunk /\ BodyTokens(c, e) \in Nat /\ c.tokens \in Nat
      /\ BodyTokens(OwnText(c), e) = c.tokens
  BY OwnTextTyped
<1>2. s.full \in BOOLEAN /\ s.used \in Nat /\ s.chunks \in Seq(RankedChunk)
  BY DEF Taking
<1>3. CASE s.full
  <2>1. Add(s, c, e) = s
    BY <1>3, Zenon DEF Add
  <2> QED
    BY <1>3, <2>1
<1>4. CASE ~s.full /\ s.used + BodyTokens(c, e) <= Budget
  <2>1. Add(s, c, e) = Taken(s, c, BodyTokens(c, e))
    BY <1>4, Zenon DEF Add
  <2>2. Taken(s, c, BodyTokens(c, e)) \in Taking
    BY <1>1, TakenTyped
  <2> QED
    BY <1>4, <2>1, <2>2 DEF Shown
<1>5. CASE /\ ~s.full /\ ~(s.used + BodyTokens(c, e) <= Budget)
           /\ e /\ c.parent # 0 /\ s.used + c.tokens <= Budget
  <2>1. Add(s, c, e) = Taken(s, OwnText(c), c.tokens)
    BY <1>5, Zenon DEF Add
  <2>2. Taken(s, OwnText(c), c.tokens) \in Taking
    BY <1>1, TakenTyped
  <2> QED
    BY <1>1, <1>5, <2>1, <2>2 DEF Shown
<1>6. CASE /\ ~s.full /\ ~(s.used + BodyTokens(c, e) <= Budget)
           /\ ~(e /\ c.parent # 0 /\ s.used + c.tokens <= Budget)
  <2>1. Add(s, c, e) = [full |-> TRUE, used |-> s.used, chunks |-> s.chunks]
    BY <1>6, Zenon DEF Add
  <2>2. Add(s, c, e) \in Taking
    BY <1>2, <2>1 DEF Taking
  <2> QED
    BY <2>1, <2>2
<1> QED
  BY <1>3, <1>4, <1>5, <1>6

LEMMA AddSelects ==
  ASSUME NEW list \in Seq(RankedChunk), NEW n \in 1..Len(list), NEW e \in BOOLEAN, NEW s, Selected(e, s, list, n - 1)
  PROVE  Selected(e, Add(s, list[n], e), list, n)
<1> DEFINE c == list[n]
           a == Add(s, c, e)
           m == Len(s.chunks)
<1>1. Len(list) \in Nat /\ c \in RankedChunk /\ n \in Nat
  BY ListTyped
<1> HIDE DEF c
<1>2. /\ s \in Taking /\ m <= n - 1 /\ (~s.full => m = n - 1)
      /\ \A k \in 1..m : Shown(s.chunks[k], list[k])
      /\ Spent(s.chunks, e) = s.used /\ s.used <= Budget
  BY DEF Selected
<1>3. s.used \in Nat /\ s.chunks \in Seq(RankedChunk) /\ m \in Nat
  BY <1>2 DEF Taking
<1>4. a \in Taking
  BY <1>1, <1>2, AddTyped
<1>5. CASE a.full /\ a.chunks = s.chunks /\ a.used = s.used
  <2>1. m <= n
    BY <1>1, <1>2, <1>3
  <2> HIDE DEF a
  <2>2. Selected(e, a, list, n)
    BY <1>2, <1>4, <1>5, <2>1 DEF Selected
  <2> QED
    BY <2>2 DEF a, c
<1>6. CASE ~(a.full /\ a.chunks = s.chunks /\ a.used = s.used)
  <2>1. PICK x \in RankedChunk :
           ~s.full /\ Shown(x, c) /\ s.used + BodyTokens(x, e) <= Budget /\ a = Taken(s, x, BodyTokens(x, e))
    BY <1>1, <1>2, <1>6, AddTyped
  <2>2. BodyTokens(x, e) \in Nat
    BY OwnTextTyped
  <2> HIDE DEF a
  <2>3. a.chunks = Append(s.chunks, x) /\ a.used = s.used + BodyTokens(x, e)
    BY <1>2, <2>1, <2>2, TakenTyped
  <2>4. Spent(a.chunks, e) = a.used
    BY <1>2, <1>3, <2>3, SpentGrows
  <2>5. m + 1 = n
    BY <1>1, <1>2, <1>3, <2>1
  <2>6. Len(a.chunks) = n /\ a.chunks[n] = x /\ \A k \in 1..m : a.chunks[k] = s.chunks[k]
    BY <1>3, <2>3, <2>5
  <2>7. \A k \in 1..n : Shown(a.chunks[k], list[k])
    <3>1. TAKE k \in 1..n
    <3>2. CASE k = n
      BY <2>1, <2>6, <3>2 DEF c
    <3>3. CASE k # n
      <4>1. k \in 1..m
        BY <1>3, <2>5, <3>3
      <4> QED
        BY <1>2, <2>6, <4>1
    <3> QED
      BY <3>2, <3>3
  <2>8. a.used <= Budget
    BY <2>1, <2>3
  <2>9. n <= n
    BY <1>1
  <2>10. Selected(e, a, list, n)
    BY <1>4, <2>4, <2>6, <2>7, <2>8, <2>9 DEF Selected
  <2> QED
    BY <2>10 DEF a, c
<1> QED
  BY <1>5, <1>6

LEMMA SelectIs ==
  ASSUME NEW list \in Seq(RankedChunk), NEW e \in BOOLEAN
  PROVE  \E s : Select(list, e) = s.chunks /\ Selected(e, s, list, Len(list))
<1> DEFINE N == Len(list)
           s0 == [full |-> FALSE, used |-> 0, chunks |-> <<>>]
           G == [p \in (1..N) \X Taking |-> Add(p[2], list[p[1]], e)]
           up == CHOOSE u : u = [n \in 0..N |-> IF n = 0 THEN s0 ELSE Add(u[n - 1], list[n], e)]
<1>1. N \in Nat /\ DOMAIN list = 1..N /\ \A n \in 1..N : list[n] \in RankedChunk
  BY ListTyped
<1>2. Select(list, e) = up[N].chunks
  BY Zenon DEF Select
<1>3. s0 \in Taking /\ Selected(e, s0, list, 0)
  <2>1. s0 \in Taking
    BY DEF Taking
  <2>2. Len(s0.chunks) = 0 /\ s0.chunks = <<>> /\ s0.used = 0
    OBVIOUS
  <2>3. Spent(s0.chunks, e) = 0 /\ 0 <= Budget
    BY <2>2, SpentNothing, ContextAssumption DEF ContextAssumption
  <2> HIDE DEF s0
  <2> QED
    BY <2>1, <2>2, <2>3 DEF Selected
<1> HIDE DEF s0
<1>4. G \in [(1..N) \X Taking -> Taking] /\ \A n \in 1..N : \A x \in Taking : G[<<n, x>>] = Add(x, list[n], e)
  <2>1. \A n \in 1..N : \A x \in Taking : Add(x, list[n], e) \in Taking
    BY <1>1, AddTyped
  <2> HIDE DEF N
  <2> QED
    BY <2>1
<1> HIDE DEF G
<1>5. PICK f : Runs(f, N, Taking, s0, G)
  <2> HIDE DEF N
  <2> QED
    BY <1>1, <1>3, <1>4, LoopRuns
<1> HIDE DEF N
<1>6. f \in [0..N -> Taking] /\ f[0] = s0 /\ \A n \in 1..N : f[n] = G[<<n, f[n - 1]>>]
  BY <1>5 DEF Runs
<1>7. \A n \in 1..N : f[n] = Add(f[n - 1], list[n], e)
  <2>1. TAKE n \in 1..N
  <2>2. n - 1 \in 0..N
    BY <1>1
  <2>3. f[n - 1] \in Taking
    BY <1>6, <2>2
  <2> QED
    BY <1>4, <1>6, <2>3
<1>8. f = [n \in 0..N |-> IF n = 0 THEN s0 ELSE Add(f[n - 1], list[n], e)]
  <2>1. f = [n \in 0..N |-> f[n]]
    BY <1>6
  <2>2. \A n \in 0..N : n = 0 \/ n \in 1..N
    BY <1>1
  <2>3. \A n \in 0..N : f[n] = IF n = 0 THEN s0 ELSE Add(f[n - 1], list[n], e)
    BY <1>6, <1>7, <2>2
  <2> QED
    BY <2>1, <2>3
<1>9. up = [n \in 0..N |-> IF n = 0 THEN s0 ELSE Add(up[n - 1], list[n], e)]
  BY <1>8
<1> HIDE DEF up
<1>10. \A n \in 0..N : up[n] = IF n = 0 THEN s0 ELSE Add(up[n - 1], list[n], e)
  BY <1>9
<1> DEFINE P == {n \in 0..N : Selected(e, up[n], list, n)}
<1>11. 0 \in P
  BY <1>1, <1>3, <1>10
<1>12. ASSUME NEW n \in 1..N, n - 1 \in P
       PROVE  n \in P
  <2>1. n \in 0..N /\ n # 0
    BY <1>1
  <2>2. up[n] = Add(up[n - 1], list[n], e)
    BY <1>10, <2>1
  <2>3. Selected(e, up[n - 1], list, n - 1)
    BY <1>12
  <2>4. Selected(e, Add(up[n - 1], list[n], e), list, n)
    BY <2>3, AddSelects DEF N
  <2> QED
    BY <2>1, <2>2, <2>4
<1> HIDE DEF P
<1>13. N \in P
  BY <1>1, <1>11, <1>12, TurnInduction
<1>14. Selected(e, up[N], list, N)
  BY <1>13 DEF P
<1> QED
  BY <1>2, <1>14 DEF N

\* What two chunks are shown as differs if neither their ids nor their keys agree.
LEMMA ShownApart ==
  ASSUME NEW c \in RankedChunk, NEW d \in RankedChunk, NEW x, NEW y, Shown(x, c), Shown(y, d)
  PROVE  /\ x.id = c.id /\ x.version = c.version /\ Release(x) = Release(c)
         /\ KeyOf(x) = KeyOf(y) => c.id = d.id \/ KeyOf(c) = KeyOf(d)
<1>1. /\ OwnText(c).id = c.id /\ OwnText(c).version = c.version /\ OwnText(c).product = c.product
      /\ OwnText(c).parent = 0
      /\ OwnText(d).id = d.id /\ OwnText(d).parent = 0
  BY OwnTextTyped
<1>2. KeyOf(OwnText(c)) = <<"chunk", c.id>> /\ KeyOf(OwnText(d)) = <<"chunk", d.id>>
  BY <1>1 DEF KeyOf
<1>3. /\ KeyOf(c) = <<"chunk", c.id>> \/ KeyOf(c) = <<"parent", c.parent>>
      /\ KeyOf(d) = <<"chunk", d.id>> \/ KeyOf(d) = <<"parent", d.parent>>
  BY DEF KeyOf
<1>4. (x = c \/ x = OwnText(c)) /\ (y = d \/ y = OwnText(d))
  BY DEF Shown
<1>5. x.id = c.id /\ x.version = c.version /\ Release(x) = Release(c)
  BY <1>1, <1>4 DEF Release
<1>6. ASSUME KeyOf(x) = KeyOf(y)
      PROVE  c.id = d.id \/ KeyOf(c) = KeyOf(d)
  <2>1. CASE x = c /\ y = d
    BY <1>6, <2>1
  <2>2. CASE x = OwnText(c)
    BY <1>2, <1>3, <1>4, <1>6, <2>2
  <2>3. CASE y = OwnText(d)
    BY <1>2, <1>3, <1>4, <1>6, <2>3
  <2> QED
    BY <1>4, <2>1, <2>2, <2>3
<1> QED
  BY <1>5, <1>6

\* The chunks the budget chooses from, and what build makes of them.
Chosen(out, w, named, e) ==
    /\ out \in Seq(RankedChunk) /\ Len(out) <= Len(w)
    /\ \A k \in 1..Len(out) : Shown(out[k], w[k])
    /\ OnceEach(w) /\ (e => \A i, j \in 1..Len(w) : KeyOf(w[i]) = KeyOf(w[j]) => i = j)
    /\ ~named => Within(w)
    /\ Spent(out, e) <= Budget

LEMMA BuildChooses ==
  ASSUME NEW list \in Seq(Good), NEW named \in BOOLEAN, NEW e \in BOOLEAN
  PROVE  \E w \in Seq(Good) : Chosen(Build(list, named, e), w, named, e)
<1> DEFINE chunks == Dedup(list)
           capped == IF named THEN chunks ELSE ApplyVersionCaps(chunks)
           w == IF e THEN CollapseToParents(capped) ELSE capped
<1>1. Build(list, named, e) = Select(w, e)
  BY Zenon DEF Build
<1>2. chunks \in Seq(Good) /\ OnceEach(chunks)
  BY DedupOnce
<1> HIDE DEF chunks
<1>3. capped \in Seq(Good) /\ OnceEach(capped) /\ (~named => Within(capped))
  <2>1. CASE named
    BY <1>2, <2>1
  <2>2. CASE ~named
    <3>1. capped = ApplyVersionCaps(chunks)
      BY <2>2
    <3>2. ApplyVersionCaps(chunks) \in Seq(Good) /\ From(ApplyVersionCaps(chunks), chunks) /\ Within(ApplyVersionCaps(chunks))
      BY <1>2, CapsHold
    <3>3. OnceEach(ApplyVersionCaps(chunks))
      BY <1>2, <3>2, FromKeeps
    <3> QED
      BY <3>1, <3>2, <3>3
  <2> QED
    BY <2>1, <2>2
<1> HIDE DEF capped
<1>4. /\ w \in Seq(Good) /\ OnceEach(w) /\ (~named => Within(w))
      /\ e => \A i, j \in 1..Len(w) : KeyOf(w[i]) = KeyOf(w[j]) => i = j
  <2>1. CASE e
    <3> DEFINE u == CollapseToParents(capped)
    <3>1. /\ u \in Seq(Good) /\ From(u, capped)
          /\ \A i, j \in 1..Len(u) : KeyOf(u[i]) = KeyOf(u[j]) => i = j
      BY <1>3, CollapseOnce
    <3>2. w = u
      BY <2>1
    <3> HIDE DEF u, w
    <3>3. OnceEach(u) /\ (~named => Within(u))
      BY <1>3, <3>1, FromKeeps
    <3> QED
      BY <3>1, <3>2, <3>3
  <2>2. CASE ~e
    <3>1. w = capped
      BY <2>2
    <3> HIDE DEF w
    <3> QED
      BY <1>3, <2>2, <3>1
  <2> QED
    BY <2>1, <2>2
<1> HIDE DEF w
<1>6. w \in Seq(RankedChunk)
  <2>1. Len(w) \in Nat /\ w \in [1..Len(w) -> Good]
    BY <1>4
  <2>2. w \in [1..Len(w) -> RankedChunk]
    BY <2>1 DEF Good
  <2> QED
    BY <2>1, <2>2
<1>7. PICK s : Select(w, e) = s.chunks /\ Selected(e, s, w, Len(w))
  BY <1>6, SelectIs
<1>8. Select(w, e) \in Seq(RankedChunk) /\ Len(Select(w, e)) <= Len(w) /\ Spent(Select(w, e), e) <= Budget
  BY <1>7 DEF Selected, Taking
<1>9. \A k \in 1..Len(Select(w, e)) : Shown(Select(w, e)[k], w[k])
  BY <1>7 DEF Selected
<1>10. Chosen(Select(w, e), w, named, e)
  BY <1>4, <1>8, <1>9 DEF Chosen
<1> QED
  BY <1>1, <1>4, <1>10

LEMMA BuildContextKeeps ==
  ASSUME Reached, BuildContext
  PROVE  Reached'
<1>1. /\ stage = "rank" /\ stage' = "done" /\ expand' \in BOOLEAN
      /\ context' = Build(AllRanked, asked.version # None, expand')
      /\ \A i \in DOMAIN sub : ranked[i] # Unset
      /\ UNCHANGED <<asked, sub, candidates, rows, parents, batches, ranked>>
  BY DEF BuildContext
<1> DEFINE named == asked.version # None
           e == expand'
           out == Build(AllRanked, named, e)
<1>2. AllRanked \in Seq(Good) /\ named \in BOOLEAN /\ e \in BOOLEAN
  BY <1>1, AllRankedGood
<1>3. PICK w \in Seq(Good) : Chosen(out, w, named, e)
  BY <1>2, BuildChooses
<1>4. context' = out
  BY <1>1
<1> HIDE DEF named, e
<1> HIDE DEF out
<1>5. /\ out \in Seq(RankedChunk) /\ Len(out) <= Len(w)
      /\ \A k \in 1..Len(out) : Shown(out[k], w[k])
      /\ OnceEach(w) /\ (e => \A i, j \in 1..Len(w) : KeyOf(w[i]) = KeyOf(w[j]) => i = j)
      /\ ~named => Within(w)
      /\ Spent(out, e) <= Budget
  BY <1>3 DEF Chosen
<1>6. /\ Len(w) \in Nat /\ \A k \in 1..Len(w) : w[k] \in Good
      /\ Len(out) \in Nat /\ DOMAIN out = 1..Len(out)
  BY <1>5, ListTyped
<1>7. \A k \in 1..Len(out) : k \in 1..Len(w) /\ w[k] \in RankedChunk
                             /\ w[k].id \in rows /\ w[k].version = Row[w[k].id].version
  BY <1>5, <1>6 DEF Good
<1>8. \A k \in 1..Len(out) : /\ out[k].id = w[k].id /\ out[k].version = w[k].version
                             /\ Release(out[k]) = Release(w[k])
  <2>1. TAKE k \in 1..Len(out)
  <2>2. PICK c, x : c = w[k] /\ x = out[k]
    OBVIOUS
  <2>3. c \in RankedChunk /\ Shown(x, c)
    BY <1>5, <1>7, <2>2
  <2>4. x.id = c.id /\ x.version = c.version /\ Release(x) = Release(c)
    BY ONLY <2>3, ShownApart
  <2> QED
    BY <2>2, <2>4
<1>9. \A q, r \in 1..Len(out) : out[q].id = out[r].id => q = r
  BY <1>5, <1>7, <1>8 DEF OnceEach
<1>10. e => \A q, r \in 1..Len(out) : KeyOf(out[q]) = KeyOf(out[r]) => q = r
  <2>0. HAVE e
  <2>1. TAKE q, r \in 1..Len(out)
  <2>2. Shown(out[q], w[q]) /\ Shown(out[r], w[r]) /\ w[q] \in RankedChunk /\ w[r] \in RankedChunk
    BY <1>5, <1>7
  <2>3. KeyOf(out[q]) = KeyOf(out[r]) => w[q].id = w[r].id \/ KeyOf(w[q]) = KeyOf(w[r])
    <3>1. PICK c, d, x, y : c = w[q] /\ d = w[r] /\ x = out[q] /\ y = out[r]
      OBVIOUS
    <3>2. c \in RankedChunk /\ d \in RankedChunk /\ Shown(x, c) /\ Shown(y, d)
      BY <2>2, <3>1
    <3>3. KeyOf(x) = KeyOf(y) => c.id = d.id \/ KeyOf(c) = KeyOf(d)
      BY ONLY <3>2, ShownApart
    <3> QED
      BY <3>1, <3>3
  <2> QED
    BY <1>5, <1>7, <2>0, <2>3 DEF OnceEach
<1>11. \A r \in 1..Len(out) : out[r].id \in rows /\ (named => out[r].version = asked.version)
  BY <1>7, <1>8 DEF Reached, RowsSound, named
<1>12. ASSUME ~named, NEW r \in 1..Len(out)
       PROVE  Cardinality({q \in 1..Len(out) : Release(out[q]) = Release(out[r])}) <= Cap
  <2> DEFINE v == Release(out[r])
             A == {q \in 1..Len(out) : Release(out[q]) = v}
             B == {q \in 1..Len(w) : Release(w[q]) = v}
  <2> HIDE DEF v
  <2>1. A \subseteq B /\ B \subseteq 1..Len(w)
    BY <1>7, <1>8
  <2>2. Cardinality(B) <= Cap
    BY <1>5, <1>12 DEF Within
  <2> HIDE DEF A, B
  <2>3. IsFiniteSet(B)
    BY <1>6, <2>1, IntervalSize, FS_Subset
  <2>4. IsFiniteSet(A) /\ Cardinality(A) <= Cardinality(B)
    BY <2>1, <2>3, FS_Subset
  <2>5. Cardinality(A) \in Nat /\ Cardinality(B) \in Nat /\ Cap \in Nat
    BY <2>3, <2>4, FS_CardinalityType, ContextAssumption DEF ContextAssumption
  <2>6. Cardinality(A) <= Cap
    BY <2>2, <2>4, <2>5
  <2> QED
    BY <2>6 DEF A, v
<1>13. /\ IsInjective([r \in DOMAIN out |-> out[r].id])
       /\ e => IsInjective([r \in DOMAIN out |-> KeyOf(out[r])])
  BY <1>6, <1>9, <1>10 DEF IsInjective
<1>14. \A r \in DOMAIN out :
          /\ out[r].id \in rows
          /\ asked.version # None => out[r].version = asked.version
          /\ asked.version = None => Cardinality({q \in DOMAIN out : Release(out[q]) = Release(out[r])}) <= Cap
  BY <1>6, <1>11, <1>12 DEF named
<1>15. ContextSound'
  <2>1. asked' = asked /\ rows' = rows /\ context' = out /\ expand' = e
    BY <1>1, <1>4 DEF e
  <2> QED
    BY <1>5, <1>13, <1>14, <2>1 DEF ContextSound
<1>16. Shaped' /\ RowsSound'
  BY <1>1 DEF Reached, Shaped, RowsSound
<1>17. RecallSound'
  BY <1>1 DEF Reached, RecallSound, Found, Matching, Filter
<1>18. \A i \in DOMAIN sub : Loaded(i)' = Loaded(i)
  BY <1>1 DEF Loaded
<1>19. RankSound'
  BY <1>1, <1>18, BatchesUnmoved DEF Reached, RankSound, Outcome
<1> QED
  BY <1>15, <1>16, <1>17, <1>19 DEF Reached

-----------------------------------------------------------------------------
(* The theorems.                                                            *)

LEMMA StepKeeps == Reached /\ [Next]_vars => Reached'
<1> SUFFICES ASSUME Reached, [Next]_vars PROVE Reached'
  OBVIOUS
<1>1. CASE \E i \in DOMAIN sub : Recall(i)
  BY <1>1, RecallKeeps
<1>2. CASE \E i \in DOMAIN sub : RankBatch(i)
  BY <1>2, RankBatchKeeps
<1>3. CASE LoadRows
  BY <1>3, LoadRowsKeeps
<1>4. CASE LoadParents
  BY <1>4, LoadParentsKeeps
<1>5. CASE BuildContext
  BY <1>5, BuildContextKeeps
<1>6. CASE \E d \in Document : Withdraw(d) \/ Publish(d)
  BY <1>6, QuietKeeps DEF Withdraw, Publish
<1>7. CASE UNCHANGED vars
  BY <1>7, QuietKeeps DEF vars
<1> QED
  BY <1>1, <1>2, <1>3, <1>4, <1>5, <1>6, <1>7 DEF Next

(* From the recall to the context: candidates are within the limit, of the *)
(* filter and each once, the batches are those of _rerank_batches, every   *)
(* outcome is a reordering of its servable candidates, and the context is  *)
(* sound.                                                                  *)
THEOREM RetrievalInvariant == Spec => []Reached
<1>1. Init => Reached
  BY StartReached
<1>2. Reached /\ [Next]_vars => Reached'
  BY StepKeeps
<1> QED
  BY <1>1, <1>2, PTL DEF Spec

(* Of the sub-queries that recalled a chunk one sends it to the reranker,  *)
(* the one that scored it best, and every candidate is sent                *)
(* (_rerank_batches).                                                      *)
THEOREM CandidatesSentOnce == Spec => []CandidatesOnce
<1>1. Reached => CandidatesOnce
  BY SentOnce DEF Reached
<1> QED
  BY <1>1, RetrievalInvariant, PTL

LEMMA ReachedConserves == Reached => RerankConserves
<1> SUFFICES ASSUME Reached, stage = "rank", NEW i \in DOMAIN sub, ranked[i] # Unset
             PROVE  LET out == [r \in DOMAIN ranked[i][1] |-> ranked[i][1][r].id]
                    IN /\ IsInjective(out) /\ ToSet(out) \subseteq ToSet(Loaded(i))
                       /\ Len(out) = Min({TopN, Len(Loaded(i))})
  BY DEF RerankConserves
<1> DEFINE o == ranked[i][1]
           out == [r \in DOMAIN o |-> o[r].id]
<1>1. Reordered(o, Loaded(i), rows)
  BY DEF Reached, RankSound, Outcome
<1>2. o \in Seq(RankedChunk)
  <2>1. ranked[i] \in Seq(Seq(RankedChunk)) /\ ranked[i] # <<>>
    BY DEF Reached, Shaped, Unset
  <2> QED
    BY <2>1
<1> HIDE DEF o
<1>3. Len(o) \in Nat /\ DOMAIN o = 1..Len(o)
  BY <1>2, ListTyped
<1>4. /\ \A q, r \in DOMAIN o : o[q].id = o[r].id => q = r
      /\ \A r \in DOMAIN o : \E l \in DOMAIN Loaded(i) : Loaded(i)[l] = o[r].id
      /\ Len(o) = Min({TopN, Len(Loaded(i))})
  BY <1>1 DEF Reordered
<1>5. IsInjective(out)
  BY <1>4 DEF IsInjective
<1>6. ToSet(out) \subseteq ToSet(Loaded(i))
  <2>1. SUFFICES ASSUME NEW c \in ToSet(out) PROVE c \in ToSet(Loaded(i))
    OBVIOUS
  <2>2. PICK r \in DOMAIN o : c = o[r].id
    BY <2>1 DEF ToSet
  <2>3. PICK l \in DOMAIN Loaded(i) : Loaded(i)[l] = o[r].id
    BY <1>4
  <2> QED
    BY <2>2, <2>3 DEF ToSet
<1>7. Len(out) = Len(o)
  BY <1>3
<1> QED
  BY <1>4, <1>5, <1>6, <1>7 DEF o

(* Whatever the reranker answers, a batch yields its servable chunks, each *)
(* at most once and as many as there are up to top_n: an answer that       *)
(* repeats, invents or drops results falls back to the fused order.        *)
THEOREM RerankingConserves == Spec => []RerankConserves
BY RetrievalInvariant, ReachedConserves, PTL

(* The context that reaches the prompt has only servable chunks of the     *)
(* version the user named, shows no chunk and no parent twice, keeps the   *)
(* cap of every version and stays within the budget, for any chunks and    *)
(* any cap and budget (ContextBuilder.build).                              *)
THEOREM ContextIsSound == Spec => []ContextSound
<1>1. Reached => ContextSound
  BY DEF Reached
<1> QED
  BY <1>1, RetrievalInvariant, PTL
=============================================================================
