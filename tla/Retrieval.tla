------------------------------ MODULE Retrieval ------------------------------
(***************************************************************************)
(* _rag_pipeline from the sub-queries to the context: recall on both       *)
(* stores, fusion, the batches of the reranker, its answers and the        *)
(* context.  Documents leave and return to service between the steps.      *)
(***************************************************************************)
EXTENDS ContextBuilder, SequencesExt

CONSTANTS Chunk, Document, Product, Version,
          Row,            \* of each chunk: [doc, product, version, parent, tokens, whole]
          None,           \* no product, no version
          Scope,          \* bound: the products and versions that are asked for, [product, version]
          TopK,           \* bound: top_k_vector and top_k_keyword
          CandidateLimit, TopN, RrfK,
          MaxSub,         \* bound: sub-queries
          MaxAnswer,      \* bound: results of one answer of the reranker
          Scale           \* reciprocal ranks are counted in units of 1 / Scale
ASSUME RetrievalAssumption ==
    /\ {TopK, CandidateLimit, TopN, RrfK, MaxSub, MaxAnswer, Scale} \subseteq Nat
    /\ \A k \in (RrfK + 1)..(RrfK + TopK) : Scale % k = 0
    /\ Row \in [Chunk -> [doc : Document, product : Product, version : Version,
                          parent : Nat, tokens : Nat, whole : Nat]]
    /\ Scope \subseteq [product : Product \cup {None}, version : Version \cup {None}]

VARIABLES ready,       \* documents in READY, not deleted
          asked,       \* the product and the version the user named
          sub,         \* of each sub-query, in the order of their ids: the product and the version it names
          stage,
          candidates,  \* of each sub-query: (chunk, score), best first
          rows,        \* chunks load_rows found
          parents,     \* chunks whose parent load_rows found
          batches,     \* of each sub-query: what is sent to the reranker
          ranked,      \* of each sub-query: the outcome, or <<>>
          expand,      \* context_expand_to_parent, which only the builder reads: settled when it does
          context      \* what was selected
vars == <<ready, asked, sub, stage, candidates, rows, parents, batches, ranked, expand, context>>

Unset == <<>>
Init ==
    /\ ready \in SUBSET Document
    /\ asked \in Scope
    /\ sub \in UNION {[1..n -> Scope] : n \in 1..MaxSub}
    /\ stage = "recall"
    /\ candidates = [i \in DOMAIN sub |-> Unset]
    /\ rows = {} /\ parents = {} /\ batches = Unset /\ ranked = Unset
    /\ expand = TRUE /\ context = Unset

\* build_metadata_filter: a sub-query may name another product; the user's version is a hard bound.
Filter(i) ==
    [product |-> IF sub[i].product # None THEN sub[i].product ELSE asked.product,
     version |-> IF asked.version # None THEN asked.version ELSE sub[i].version]
Matching(i) ==
    {c \in Chunk : /\ Filter(i).product \in {None, Row[c].product}
                   /\ Filter(i).version \in {None, Row[c].version}}
Servable(c) == Row[c].doc \in ready

Lists(S, n) == {s \in UNION {[1..m -> S] : m \in 0..n} : IsInjective(s)}
\* Qdrant fills top_k from the points that match, of any document; the keyword store knows READY.
Served(i) == {c \in Matching(i) : Servable(c)}
VectorHits(i) == {s \in Lists(Matching(i), TopK) : Len(s) >= Min({TopK, Cardinality(Served(i))})}
KeywordHits(i) == Lists(Served(i), TopK)

Rank(s, c) == CHOOSE r \in DOMAIN s : s[r] = c
Weight(s, c) == IF c \in ToSet(s) THEN Scale \div (RrfK + Rank(s, c)) ELSE 0
\* rrf_fuse: the best sum of reciprocal ranks first, and as first seen where they tie.
Fuse(vector, keyword) ==
    LET seen == vector \o Picked(keyword, {r \in DOMAIN keyword : keyword[r] \notin ToSet(vector)})
        score == [r \in DOMAIN seen |-> Weight(vector, seen[r]) + Weight(keyword, seen[r])]
        ahead == {p \in (DOMAIN seen) \X (DOMAIN seen) :
                      \/ score[p[1]] > score[p[2]]
                      \/ score[p[1]] = score[p[2]] /\ p[1] < p[2]}
        order == InOrder(DOMAIN seen, ahead)
    IN [n \in 1..Min({CandidateLimit, Len(seen)}) |-> <<seen[order[n]], score[order[n]]>>]

\* The sub-queries recall together; a store that fails degrades, both fail the ask.
Recall(i) ==
    /\ stage = "recall" /\ candidates[i] = Unset
    /\ \/ \E v \in VectorHits(i) \cup {<<>>}, k \in KeywordHits(i) :
              candidates' = [candidates EXCEPT ![i] = <<Fuse(v, k)>>] /\ UNCHANGED stage
       \/ stage' = "failed" /\ UNCHANGED candidates
    /\ UNCHANGED <<ready, asked, sub, rows, parents, batches, ranked, expand, context>>

Found(i) == candidates[i][1]
Ids(s) == {s[r][1] : r \in DOMAIN s}
AllIds == UNION {Ids(Found(i)) : i \in DOMAIN sub}

\* load_rows: first the chunks of READY documents, then their parents, two statements that may see
\* different states of the database.
LoadRows ==
    /\ stage = "recall" /\ \A i \in DOMAIN sub : candidates[i] # Unset
    /\ rows' = {c \in AllIds : Servable(c)}
    /\ stage' = "parents"
    /\ UNCHANGED <<ready, asked, sub, candidates, parents, batches, ranked, expand, context>>

\* _rerank_batches: s.owner is the batch that has a chunk, 0 for none, and s.seen its score there;
\* s.unique is the batch under way.
NothingSent == [seen |-> [c \in Chunk |-> 0], owner |-> [c \in Chunk |-> 0], batches |-> <<>>, unique |-> <<>>]
Without(batch, c) == Picked(batch, {r \in DOMAIN batch : batch[r][1] # c})
\* A candidate of batch i: an earlier batch that has the chunk with a lower score gives it up.
\* Mutant: the earlier batch keeps it.
OfferKeeping(s, i, c, score) ==
    IF s.owner[c] # 0 /\ s.seen[c] >= score THEN s
    ELSE [seen |-> [s.seen EXCEPT ![c] = score], owner |-> [s.owner EXCEPT ![c] = i],
          batches |-> s.batches, unique |-> Append(s.unique, <<c, score>>)]
Offer(s, i, c, score) ==
    IF s.owner[c] # 0 /\ s.seen[c] >= score THEN s
    ELSE [seen |-> [s.seen EXCEPT ![c] = score], owner |-> [s.owner EXCEPT ![c] = i],
          batches |-> [b \in DOMAIN s.batches |->
                           IF b = s.owner[c] THEN Without(s.batches[b], c) ELSE s.batches[b]],
          unique |-> Append(s.unique, <<c, score>>)]
Collect(s, i, found) ==
    LET after[r \in 0..Len(found)] ==
            IF r = 0 THEN s ELSE Offer(after[r - 1], i, found[r][1], found[r][2])
        end == after[Len(found)]
    IN [end EXCEPT !.batches = Append(@, end.unique), !.unique = <<>>]
RerankBatches(results) ==
    LET after[i \in 0..Len(results)] ==
            IF i = 0 THEN NothingSent ELSE Collect(after[i - 1], i, results[i])
    IN after[Len(results)].batches

LoadParents ==
    /\ stage = "parents"
    /\ \E deleted \in SUBSET (Document \ ready) :
           parents' = {c \in rows : Row[c].parent # 0 /\ Row[c].doc \notin deleted}
    /\ batches' = RerankBatches([i \in DOMAIN sub |-> Found(i)])
    /\ ranked' = [i \in DOMAIN sub |-> Unset]
    /\ stage' = "rank"
    /\ UNCHANGED <<ready, asked, sub, candidates, rows, expand, context>>

\* The answers of a reranker: an index per result, 0..n, n one too many; it may repeat, drop or add.
Answers(n) == UNION {[1..m -> 0..n] : m \in 0..MaxAnswer}
OutOf(n) == Min({TopN, n})
\* Mutant: repeated results are not looked for.
UniqueRepeating(answer) == answer
Unique(answer) == FirstOf(answer, answer)
Accepted(answer, n) ==
    /\ \A r \in DOMAIN answer : answer[r] < n
    /\ Len(Unique(answer)) >= OutOf(n)

ToRanked(c) ==
    LET whole == c \in parents
    IN [id |-> c, product |-> Row[c].product, version |-> Row[c].version, tokens |-> Row[c].tokens,
        parent |-> IF whole THEN Row[c].parent ELSE 0, whole |-> IF whole THEN Row[c].whole ELSE 0]
Loaded(i) ==
    LET found == Picked(batches[i], {r \in DOMAIN batches[i] : batches[i][r][1] \in rows})
    IN [r \in DOMAIN found |-> found[r][1]]

\* rank: the reranker's order if its answer keeps the contract, the fused order otherwise, top_n of it.
RankBatch(i) ==
    /\ stage = "rank" /\ ranked[i] = Unset
    /\ LET ids == Loaded(i)
           n == Len(ids)
           top(s) == [r \in 1..Min({TopN, Len(s)}) |-> ToRanked(s[r])]
       IN \/ ranked' = [ranked EXCEPT ![i] = <<top(ids)>>]
          \/ \E answer \in Answers(n) :
                 /\ n > 0 /\ Accepted(answer, n)
                 /\ ranked' = [ranked EXCEPT ![i] =
                                  <<top([r \in DOMAIN Unique(answer) |-> ids[Unique(answer)[r] + 1]])>>]
    /\ UNCHANGED <<ready, asked, sub, stage, candidates, rows, parents, batches, expand, context>>

\* The outcomes of the sub-queries, one after another.
AllRanked ==
    LET upTo[n \in 0..Len(sub)] == IF n = 0 THEN <<>> ELSE upTo[n - 1] \o ranked[n][1]
    IN upTo[Len(sub)]

BuildContext ==
    /\ stage = "rank" /\ \A i \in DOMAIN sub : ranked[i] # Unset
    /\ expand' \in BOOLEAN
    /\ context' = Build(AllRanked, asked.version # None, expand')
    /\ stage' = "done"
    /\ UNCHANGED <<ready, asked, sub, candidates, rows, parents, batches, ranked>>

\* Another request deletes, reprocesses or completes a document.
Withdraw(d) ==
    /\ stage \in {"recall", "parents"}
    /\ d \in ready /\ ready' = ready \ {d}
    /\ UNCHANGED <<asked, sub, stage, candidates, rows, parents, batches, ranked, expand, context>>
Publish(d) ==
    /\ stage = "recall"
    /\ d \in Document \ ready /\ ready' = ready \cup {d}
    /\ UNCHANGED <<asked, sub, stage, candidates, rows, parents, batches, ranked, expand, context>>

\* Nothing reads the documents once the parents are loaded.
Next ==
    \/ \E i \in DOMAIN sub : Recall(i) \/ RankBatch(i)
    \/ LoadRows \/ LoadParents \/ BuildContext
    \/ \E d \in Document : Withdraw(d) \/ Publish(d)
Spec == Init /\ [][Next]_vars

-----------------------------------------------------------------------------
(* A chunk that several sub-queries recalled is sent to the reranker once, *)
(* with its best score, and none is lost (query_service.py:314).           *)
CandidatesOnce ==
    stage = "rank" =>
        \A c \in AllIds :
            LET sent == {x \in (DOMAIN sub) \X (1..CandidateLimit) :
                             x[2] \in DOMAIN batches[x[1]] /\ batches[x[1]][x[2]][1] = c}
            IN /\ Cardinality(sent) = 1
               /\ \A x \in sent, j \in DOMAIN sub : \A r \in DOMAIN Found(j) :
                      Found(j)[r][1] = c => Found(j)[r][2] <= batches[x[1]][x[2]][2]

(* The reranker may only reorder: whatever it answers, a batch yields as   *)
(* many chunks as it has servable ones, up to top_n, each of them once     *)
(* (rerank.py:3, 113).                                                     *)
RerankConserves ==
    stage = "rank" =>
        \A i \in DOMAIN sub :
            ranked[i] # Unset =>
                LET out == [r \in DOMAIN ranked[i][1] |-> ranked[i][1][r].id] IN
                /\ IsInjective(out) /\ ToSet(out) \subseteq ToSet(Loaded(i))
                /\ Len(out) = Min({TopN, Len(Loaded(i))})

(* The context holds only chunks that were servable when they were loaded, *)
(* of the version the user named; no chunk twice, and no parent that stands*)
(* for its children twice; where no version was named, no more of a        *)
(* product's version than the cap; and its texts, without the headings and *)
(* labels between them, fit the budget (builder.py:3).                     *)
ContextSound ==
    stage = "done" =>
        LET picked == DOMAIN context
            of(release) == {r \in picked : Release(context[r]) = release}
        IN /\ IsInjective([r \in picked |-> context[r].id])
           /\ expand => IsInjective([r \in picked |-> KeyOf(context[r])])
           /\ \A r \in picked :
                  /\ context[r].id \in rows
                  /\ asked.version # None => context[r].version = asked.version
                  /\ asked.version = None => Cardinality(of(Release(context[r]))) <= Cap
           /\ Spent(context, expand) <= Budget

(* The text of a context is within its budget, as builder.py:11 and the    *)
(* specification of the query have it: "all content is under the quota".   *)
ContextWithinBudget ==
    stage = "done" => FormatTokens(context, asked.version # None, expand) <= Budget
=============================================================================
