--------------------------- MODULE ContextBuilder ---------------------------
(***************************************************************************)
(* ContextBuilder.build: the ranked chunks that go into the prompt.  A     *)
(* ranked chunk is [id, parent, product, tokens, version, whole]: parent   *)
(* is the id of the parent whose text was loaded and whole what that text  *)
(* costs, or both are 0.  expand is the setting context_expand_to_parent.  *)
(***************************************************************************)
EXTENDS Ordering

CONSTANTS Cap,            \* per_version_cap
          Budget,         \* context_token_budget
          HeadingTokens,  \* what the heading path over a text costs
          LabelTokens     \* what the label over the texts of a version costs
ASSUME ContextAssumption ==
    Cap \in Nat \ {0} /\ Budget \in Nat \ {0} /\ HeadingTokens \in Nat /\ LabelTokens \in Nat

Dedup(ranked) == FirstOf(ranked, [i \in DOMAIN ranked |-> ranked[i].id])

\* Two products may have versions of the same name.
Release(c) == <<c.product, c.version>>
ApplyVersionCaps(chunks) ==
    Picked(chunks, {i \in DOMAIN chunks :
                        Cardinality({j \in 1..(i - 1) : Release(chunks[j]) = Release(chunks[i])}) < Cap})

\* The best child stands for its parent; a chunk without one stands for itself.
KeyOf(c) == IF c.parent # 0 THEN <<"parent", c.parent>> ELSE <<"chunk", c.id>>
CollapseToParents(chunks) == FirstOf(chunks, [i \in DOMAIN chunks |-> KeyOf(chunks[i])])

BodyTokens(c, expand) == IF expand /\ c.parent # 0 THEN c.whole ELSE c.tokens
OwnText(c) == [c EXCEPT !.parent = 0, !.whole = 0]

\* One turn of the loop over the chunks; s.full is its break: quality goes before quantity.
Taken(s, c, cost) == [full |-> FALSE, used |-> s.used + cost, chunks |-> Append(s.chunks, c)]
\* Mutant: the chunk that falls back to its own text is still shown as its parent.
AddShowingParent(s, c, expand) ==
    IF s.full THEN s
    ELSE IF s.used + BodyTokens(c, expand) <= Budget THEN Taken(s, c, BodyTokens(c, expand))
    ELSE IF expand /\ c.parent # 0 /\ s.used + c.tokens <= Budget THEN Taken(s, c, c.tokens)
    ELSE [full |-> TRUE, used |-> s.used, chunks |-> s.chunks]
Add(s, c, expand) ==
    IF s.full THEN s
    ELSE IF s.used + BodyTokens(c, expand) <= Budget THEN Taken(s, c, BodyTokens(c, expand))
    ELSE IF expand /\ c.parent # 0 /\ s.used + c.tokens <= Budget THEN Taken(s, OwnText(c), c.tokens)
    ELSE [full |-> TRUE, used |-> s.used, chunks |-> s.chunks]

\* In order, until one fits neither as its parent nor as itself.
Select(chunks, expand) ==
    LET after[n \in 0..Len(chunks)] ==
            IF n = 0 THEN [full |-> FALSE, used |-> 0, chunks |-> <<>>]
            ELSE Add(after[n - 1], chunks[n], expand)
    IN after[Len(chunks)].chunks

Build(ranked, versionSpecified, expand) ==
    LET chunks == Dedup(ranked)
        capped == IF versionSpecified THEN chunks ELSE ApplyVersionCaps(chunks)
    IN Select(IF expand THEN CollapseToParents(capped) ELSE capped, expand)

\* What the texts of a context cost.
Spent(chunks, expand) ==
    LET sum[n \in 0..Len(chunks)] == IF n = 0 THEN 0 ELSE sum[n - 1] + BodyTokens(chunks[n], expand)
    IN sum[Len(chunks)]

\* _format: each text under its heading path, and the texts of each version under its label where
\* there are several and none was named.
FormatTokens(chunks, versionSpecified, expand) ==
    LET releases == Cardinality({Release(chunks[i]) : i \in DOMAIN chunks})
        labels == IF versionSpecified \/ releases < 2 THEN 0 ELSE releases
    IN Spent(chunks, expand) + Len(chunks) * HeadingTokens + labels * LabelTokens
=============================================================================
