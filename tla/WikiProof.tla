------------------------------ MODULE WikiProof ------------------------------
(***************************************************************************)
(* Proofs about Wiki for any number of distillations, page deletes and     *)
(* knowledge-base deletes, any pages, faults and crashes.                  *)
(***************************************************************************)
EXTENDS Wiki, FiniteSetTheorems, TLAPS

-----------------------------------------------------------------------------
(* The inductive invariant.                                                *)

\* Positions of an append: its page was published when it was looked up.
Appending == {"check", "number", "insert", "touch", "retire"}

KeptShadows == {s \in Shadow : shadow[s].doc # "absent"}
DeadShadows == {s \in KeptShadows : shadow[s].chunk # "live"}
RecordedIn(r, p) == \E v \in revision[p] : r \in v.content
Existing(p) == p \in Page /\ page[p].row # "absent"

\* What request r, with state x, relies on.
AppendFits(x) ==
    /\ x.pc \in Appending => Existing(x.page)
    /\ x.pc = "insert" => x.version # 0 /\ (PageStored(x.page) => x.version <= page[x.page].count + 1)
    /\ x.pc \in {"touch", "retire"} => PageStored(x.page) /\ x.version = page[x.page].count + 1
AnswerFits(r, x) ==
    /\ x.pc \in {"create", "number", "insert", "touch", "retire"} => r \in x.content
    /\ x.pc \in {"drop", "upsert"} \/ x.result = "ok" =>
           Existing(x.page) /\ (PageStored(x.page) => RecordedIn(r, x.page))
VectorsFit(x) ==
    /\ x.pc \in {"retire", "pageRetire"} => x.seen \subseteq KeptShadows
    /\ x.pc = "pageRow" => x.page \in Page /\ x.chunks \subseteq KeptShadows
    /\ x.pc = "pageRetire" => x.page \in Page
    /\ x.pc \in {"drop", "dropPage"} => x.old \subseteq DeadShadows
    /\ x.pc = "dropKb" => kb = "deleted"
    /\ x.result = "ok" => x.pc = "done"
Fits(r, x) == AppendFits(x) /\ (r \in Distiller => AnswerFits(r, x)) /\ VectorsFit(x)

RequestsFit == \A r \in Request : Fits(r, req[r])
\* At most one uncommitted revision of a page.
OneInserting == \A p \in Page, q, r \in Request : Inserting(q, p) /\ Inserting(r, p) => q = r
FiniteHistory == \A p \in Page : IsFiniteSet(revision[p]) /\ (~PageStored(p) => revision[p] = {})

Inductive ==
    /\ WikiTypeOK /\ FiniteHistory /\ HistoryDense
    /\ RequestsFit /\ OneInserting

-----------------------------------------------------------------------------
LEMMA NoRequestTyped == NoRequest \in RequestState
BY DEF NoRequest, RequestState, Position

LEMMA WikiInit ==
  ASSUME Init
  PROVE  Inductive
<1>1. /\ kb = "live" /\ req = [r \in Request |-> NoRequest] /\ crashes = 0
      /\ Empty \/ OnePage
  BY DEF Init
<1>2. RequestsFit /\ OneInserting
  <2>1. \A r \in Request : req[r] = NoRequest
    BY <1>1
  <2>2. NoRequest.pc = "start" /\ NoRequest.result = "none"
    BY DEF NoRequest
  <2> QED
    BY <2>1, <2>2 DEF RequestsFit, Fits, AppendFits, AnswerFits, VectorsFit, Appending, OneInserting, Inserting
<1>3. req \in [Request -> RequestState] /\ crashes \in 0..MaxCrashes
  BY <1>1, NoRequestTyped, WikiAssumption DEF WikiAssumption
<1>4. CASE Empty
  <2>1. WikiTypeOK
    BY <1>1, <1>3, <1>4 DEF WikiTypeOK, Empty, PageRow, ShadowRow, Row
  <2>2. FiniteHistory
    BY <1>4, FS_EmptySet DEF Empty, FiniteHistory
  <2>3. HistoryDense
    BY <1>4 DEF Empty, HistoryDense, PageStored
  <2> QED
    BY <1>2, <2>1, <2>2, <2>3 DEF Inductive
<1>5. CASE OnePage
  <2> DEFINE p == CHOOSE x \in Page : TRUE
             s == CHOOSE x \in Shadow : TRUE
             v == [version |-> 1, content |-> {}]
  <2>1. PICK g \in Slug :
        /\ page = [x \in Page |-> IF x = p THEN [row |-> "live", slug |-> g, count |-> 1]
                                  ELSE [row |-> "absent", slug |-> NoSlug, count |-> 0]]
        /\ revision = [x \in Page |-> IF x = p THEN {v} ELSE {}]
        /\ shadow = [x \in Shadow |->
                        IF x = s THEN [page |-> p, content |-> {}, doc |-> "live", chunk |-> "live"]
                        ELSE [page |-> NoPage, content |-> {}, doc |-> "absent", chunk |-> "absent"]]
        /\ points = {s}
    BY <1>5 DEF OnePage
  <2>2. p \in Page /\ s \in Shadow
    BY WikiAssumption DEF WikiAssumption
  <2>3. v \in RevisionRow /\ v.version = 1
    BY DEF RevisionRow
  <2> HIDE DEF p, s, v
  <2>4. WikiTypeOK
    <3>1. page \in [Page -> PageRow]
      BY <2>1 DEF PageRow, Row
    <3>2. revision \in [Page -> SUBSET RevisionRow]
      BY <2>1, <2>3
    <3>3. shadow \in [Shadow -> ShadowRow] /\ points \in SUBSET Shadow
      BY <2>1, <2>2 DEF ShadowRow, Row
    <3> QED
      BY <1>1, <1>3, <3>1, <3>2, <3>3 DEF WikiTypeOK
  <2>5. IsFiniteSet({v}) /\ Cardinality({v}) = 1 /\ IsFiniteSet({})
    BY FS_Singleton, FS_EmptySet
  <2>6. FiniteHistory
    BY <2>1, <2>5 DEF FiniteHistory, PageStored
  <2>7. HistoryDense
    <3>1. ASSUME NEW x \in Page, PageStored(x)
          PROVE  Versions(x) = 1..page[x].count /\ Cardinality(revision[x]) = page[x].count
      <4>1. x = p /\ page[x].count = 1 /\ revision[x] = {v}
        BY <2>1, <3>1 DEF PageStored
      <4>2. Versions(x) = {1}
        BY <2>3, <4>1 DEF Versions
      <4> QED
        BY <2>5, <4>1, <4>2
    <3> QED
      BY <3>1 DEF HistoryDense
  <2> QED
    BY <1>2, <2>4, <2>6, <2>7 DEF Inductive
<1> QED
  BY <1>1, <1>4, <1>5
-----------------------------------------------------------------------------
(* What a step may do to the rows without disturbing a request that does   *)
(* not insert a revision of the page concerned.                            *)
RowsGrow ==
    /\ kb = "deleted" => kb' = "deleted"
    /\ \A p \in Page : page[p].row # "absent" =>
          /\ page'[p].row # "absent"
          /\ PageStored(p)' => /\ PageStored(p) /\ page[p].count <= page'[p].count
                               /\ revision[p] \subseteq revision'[p]
    /\ KeptShadows \subseteq KeptShadows'
    /\ DeadShadows \subseteq DeadShadows'

\* The history of page p is left alone.
HistoryKept(p) == page'[p].row \in {"live", "deleted"} /\ page'[p].count = page[p].count

LEMMA FitsKept ==
  ASSUME WikiTypeOK, WikiTypeOK', RowsGrow, NEW r \in Request, Fits(r, req[r]), req'[r] = req[r],
         req[r].pc \in {"touch", "retire"} => HistoryKept(req[r].page)
  PROVE  Fits(r, req[r])'
<1> DEFINE x == req[r]
<1>1. /\ x \in RequestState /\ x.version \in Nat
      /\ \A p \in Page : page[p].count \in Nat /\ page'[p].count \in Nat
  BY DEF WikiTypeOK, RequestState, PageRow
<1> USE DEF Fits
<1>2. AppendFits(req[r])'
  <2>1. x.pc \in Appending => Existing(x.page)'
    BY DEF AppendFits, Existing, RowsGrow
  <2>2. x.pc = "insert" => x.version # 0 /\ (PageStored(x.page)' => x.version <= page'[x.page].count + 1)
    <3>1. CASE x.pc = "insert" /\ PageStored(x.page)'
      <4>1. x.page \in Page /\ PageStored(x.page) /\ page[x.page].count <= page'[x.page].count
        BY <3>1 DEF AppendFits, Existing, Appending, RowsGrow
      <4>2. x.version # 0 /\ x.version <= page[x.page].count + 1
        BY <3>1, <4>1 DEF AppendFits
      <4> QED
        BY <1>1, <4>1, <4>2
    <3> QED
      BY <3>1 DEF AppendFits
  <2>3. x.pc \in {"touch", "retire"} => PageStored(x.page)' /\ x.version = page'[x.page].count + 1
    BY DEF AppendFits, HistoryKept, PageStored
  <2> QED
    BY <2>1, <2>2, <2>3 DEF AppendFits, Existing, PageStored
<1>3. r \in Distiller => AnswerFits(r, req[r])'
  <2>1. ASSUME r \in Distiller, x.pc \in {"drop", "upsert"} \/ x.result = "ok"
        PROVE  Existing(x.page)' /\ (PageStored(x.page)' => RecordedIn(r, x.page)')
    BY <2>1 DEF AnswerFits, Existing, RowsGrow, RecordedIn
  <2> QED
    BY <2>1 DEF AnswerFits, Existing, PageStored, RecordedIn
<1>4. VectorsFit(req[r])'
  BY DEF VectorsFit, RowsGrow
<1> QED
  BY <1>2, <1>3, <1>4

(* A step of request r that leaves the tables alone.                       *)
LEMMA RequestMoves ==
  ASSUME Inductive, NEW r \in Request, NEW x \in RequestState, req' = [req EXCEPT ![r] = x],
         UNCHANGED <<kb, page, revision, shadow>>,
         points' \in SUBSET Shadow, crashes' \in 0..MaxCrashes,
         Fits(r, x),
         x.pc \in {"touch", "retire"} => \A q \in Others(r) : ~Inserting(q, x.page)
  PROVE  Inductive'
<1> USE DEF Inductive
<1>1. /\ req \in [Request -> RequestState] /\ req'[r] = x
      /\ \A q \in Others(r) : req'[q] = req[q]
  BY DEF WikiTypeOK, Others
<1>2. WikiTypeOK'
  BY <1>1 DEF WikiTypeOK
<1>3. FiniteHistory' /\ HistoryDense'
  BY DEF FiniteHistory, HistoryDense, PageStored, Versions
<1>4. RequestsFit'
  <2>1. RowsGrow /\ \A p \in Page : PageStored(p) => HistoryKept(p)
    BY DEF RowsGrow, KeptShadows, DeadShadows, PageStored, WikiTypeOK, PageRow, HistoryKept
  <2>2. ASSUME NEW q \in Request
        PROVE  Fits(q, req[q])'
    <3>1. CASE q = r
      BY <1>1, <3>1 DEF Fits, AppendFits, AnswerFits, VectorsFit, Existing, PageStored, RecordedIn,
                        KeptShadows, DeadShadows
    <3>2. CASE q # r
      <4>1. Fits(q, req[q]) /\ req'[q] = req[q]
        BY <1>1, <3>2 DEF RequestsFit, Others
      <4>2. req[q].pc \in {"touch", "retire"} => HistoryKept(req[q].page)
        BY <2>1, <4>1 DEF Fits, AppendFits, Existing, Appending
      <4> QED
        BY <1>2, <2>1, <4>1, <4>2, FitsKept
    <3> QED
      BY <3>1, <3>2
  <2> QED
    BY <2>2 DEF RequestsFit
<1>5. OneInserting'
  <2>1. \A q \in Others(r), p \in Page : Inserting(q, p)' <=> Inserting(q, p)
    BY <1>1 DEF Inserting
  <2>2. \A p \in Page : Inserting(r, p)' => \A q \in Others(r) : ~Inserting(q, p)
    BY <1>1 DEF Inserting
  <2> QED
    BY <2>1, <2>2 DEF OneInserting, Others
<1> QED
  BY <1>2, <1>3, <1>4, <1>5
Untouched == UNCHANGED <<kb, page, revision, shadow>> /\ points' \in SUBSET Shadow /\ crashes' \in 0..MaxCrashes

LEMMA ReadOnlyUntouched ==
  ASSUME Inductive, ReadOnly
  PROVE  Untouched
BY DEF ReadOnly, Untouched, Inductive, WikiTypeOK

\* The request is answered.
LEMMA FinishMoves ==
  ASSUME Inductive, NEW r \in Request, NEW result \in {"ok", "error"}, Finish(r, result), Untouched,
         result = "ok" /\ r \in Distiller => req[r].pc \in {"drop", "upsert"}
  PROVE  Inductive'
<1> DEFINE m == IF result = "ok" THEN req[r].page ELSE NoPage
           x == [NoRequest EXCEPT !.pc = "done", !.result = result, !.page = m]
<1>1. req' = [req EXCEPT ![r] = x]
  BY DEF Finish
<1>2. req[r].page \in Page \cup {NoPage} /\ Fits(r, req[r])
  BY DEF Inductive, WikiTypeOK, RequestState, RequestsFit
<1>3. m \in Page \cup {NoPage}
  BY <1>2
<1>4. x \in RequestState /\ x.pc = "done" /\ x.result = result /\ x.page = m
  BY <1>3 DEF NoRequest, RequestState, Position
<1>5. result = "ok" => m = req[r].page
  OBVIOUS
<1> HIDE DEF x, m
<1>6. Fits(r, x)
  <2>1. AppendFits(x) /\ VectorsFit(x)
    BY <1>4 DEF AppendFits, VectorsFit, Appending
  <2>2. r \in Distiller => AnswerFits(r, x)
    BY <1>2, <1>4, <1>5 DEF Fits, AnswerFits
  <2> QED
    BY <2>1, <2>2 DEF Fits
<1> QED
  BY <1>1, <1>4, <1>6, RequestMoves DEF Untouched

-----------------------------------------------------------------------------
(* distill: its reading steps.                                             *)

LEMMA ExtractKeeps ==
  ASSUME Inductive, NEW r \in Request, Extract(r)
  PROVE  Inductive'
<1>1. req[r] \in RequestState /\ req[r].pc = "start" /\ Fits(r, req[r]) /\ Untouched
  BY ReadOnlyUntouched DEF Extract, At, Inductive, WikiTypeOK, RequestsFit
<1>2. CASE Finish(r, "error")
  BY <1>1, <1>2, FinishMoves
<1>3. ASSUME NEW g \in Slug, req' = [req EXCEPT ![r].pc = "lookup", ![r].slug = g]
      PROVE  Inductive'
  <2> DEFINE x == [req[r] EXCEPT !.pc = "lookup", !.slug = g]
  <2>1. x \in RequestState /\ x.pc = "lookup" /\ x.result = req[r].result
    BY <1>1 DEF RequestState, Position
  <2>2. req' = [req EXCEPT ![r] = x]
    BY <1>3
  <2> HIDE DEF x
  <2>3. Fits(r, x)
    BY <1>1, <2>1 DEF Fits, AppendFits, AnswerFits, VectorsFit, Appending
  <2> QED
    BY <1>1, <2>1, <2>2, <2>3, RequestMoves DEF Untouched
<1> QED
  BY <1>2, <1>3 DEF Extract

LEMMA HistoryFacts ==
  ASSUME Inductive, NEW p \in Page
  PROVE  /\ LatestContent(p) \in SUBSET Distiller
         /\ LatestVersion(p) \in Nat
         /\ PageStored(p) => LatestVersion(p) = page[p].count
<1>1. /\ revision[p] \in SUBSET RevisionRow /\ page[p].count \in Nat
      /\ PageStored(p) => Versions(p) = 1..page[p].count
      /\ ~PageStored(p) => revision[p] = {}
  BY DEF Inductive, WikiTypeOK, PageRow, HistoryDense, FiniteHistory
<1>2. CASE revision[p] = {}
  <2>1. LatestVersion(p) = 0 /\ LatestContent(p) = {} /\ Versions(p) = {}
    BY <1>2 DEF LatestVersion, LatestContent, Versions
  <2>2. PageStored(p) => page[p].count = 0
    BY <1>1, <2>1
  <2> QED
    BY <2>1, <2>2
<1>3. CASE revision[p] # {}
  <2>1. PageStored(p) /\ Versions(p) = 1..page[p].count /\ Versions(p) # {}
    BY <1>1, <1>3 DEF Versions
  <2>2. page[p].count \in Versions(p) /\ \A m \in Versions(p) : m <= page[p].count
    BY <1>1, <2>1
  <2>3. \A n \in Versions(p) : (\A m \in Versions(p) : m <= n) => n = page[p].count
    BY <1>1, <2>1, <2>2
  <2>4. LatestVersion(p) = page[p].count
    BY <1>3, <2>2, <2>3 DEF LatestVersion
  <2>5. \E v \in revision[p] : v.version = LatestVersion(p)
    BY <2>2, <2>4 DEF Versions
  <2>6. LatestContent(p) \in SUBSET Distiller
    BY <1>1, <1>3, <2>5 DEF LatestContent, RevisionRow
  <2> QED
    BY <1>1, <2>4, <2>6
<1> QED
  BY <1>2, <1>3

\* What is known of a request about to step.
LEMMA ReqFacts ==
  ASSUME Inductive, NEW r \in Request
  PROVE  /\ req[r] \in RequestState /\ Fits(r, req[r]) /\ (req[r].result = "ok" => req[r].pc = "done")
         /\ \A p \in Page : PageStored(p) => Existing(p)
BY DEF Inductive, WikiTypeOK, RequestsFit, Fits, VectorsFit, PageStored, Existing

LEMMA LookupKeeps ==
  ASSUME Inductive, NEW r \in Distiller, Lookup(r)
  PROVE  Inductive'
<1>0. r \in Request
  BY DEF Request
<1>1. /\ req[r] \in RequestState /\ req[r].pc = "lookup" /\ req[r].result # "ok" /\ Untouched
  BY <1>0, ReqFacts, ReadOnlyUntouched DEF Lookup, At
<1>2. CASE req' = [req EXCEPT ![r].pc = "create", ![r].content = {r}]
  <2> DEFINE x == [req[r] EXCEPT !.pc = "create", !.content = {r}]
  <2>1. /\ x \in RequestState /\ x.pc = "create" /\ x.result = req[r].result
        /\ x.content = {r}
    BY <1>1 DEF RequestState, Position
  <2>2. req' = [req EXCEPT ![r] = x]
    BY <1>2
  <2> HIDE DEF x
  <2>3. Fits(r, x)
    BY <1>1, <2>1 DEF Fits, AppendFits, AnswerFits, VectorsFit, Appending
  <2> QED
    BY <1>0, <1>1, <2>1, <2>2, <2>3, RequestMoves DEF Untouched
<1>3. ASSUME NEW p \in PublishedBy(req[r].slug),
             req' = [req EXCEPT ![r].pc = "check", ![r].page = p, ![r].base = LatestVersion(p),
                                ![r].content = LatestContent(p)]
      PROVE  Inductive'
  <2> DEFINE x == [req[r] EXCEPT !.pc = "check", !.page = p, !.base = LatestVersion(p),
                                 !.content = LatestContent(p)]
  <2>1. p \in Page /\ Existing(p)
    BY DEF PublishedBy, PageLive, Existing
  <2>2. LatestVersion(p) \in Nat /\ LatestContent(p) \in SUBSET Distiller
    BY <2>1, HistoryFacts
  <2>3. x \in RequestState /\ x.pc = "check" /\ x.result = req[r].result /\ x.page = p
    BY <1>1, <2>1, <2>2 DEF RequestState, Position
  <2>4. req' = [req EXCEPT ![r] = x]
    BY <1>3
  <2> HIDE DEF x
  <2>5. Fits(r, x)
    BY <1>1, <2>1, <2>3 DEF Fits, AppendFits, AnswerFits, VectorsFit, Appending
  <2> QED
    BY <1>0, <1>1, <2>3, <2>4, <2>5, RequestMoves DEF Untouched
<1> QED
  BY <1>2, <1>3 DEF Lookup

LEMMA MergeKeeps ==
  ASSUME Inductive, NEW r \in Distiller, MergeAndCheck(r)
  PROVE  Inductive'
<1>0. r \in Request
  BY DEF Request
<1>1. /\ req[r] \in RequestState /\ req[r].pc = "check" /\ req[r].result # "ok" /\ Untouched
      /\ Existing(req[r].page)
  BY <1>0, ReqFacts, ReadOnlyUntouched DEF MergeAndCheck, At, Fits, AppendFits, Appending
<1>2. CASE Finish(r, "error")
  BY <1>0, <1>1, <1>2, FinishMoves
<1>3. CASE req' = [req EXCEPT ![r].pc = "number", ![r].content = @ \cup {r}]
  <2> DEFINE x == [req[r] EXCEPT !.pc = "number", !.content = @ \cup {r}]
  <2>1. /\ x \in RequestState /\ x.pc = "number" /\ x.result = req[r].result
        /\ x.page = req[r].page /\ r \in x.content
    BY <1>1 DEF RequestState, Position
  <2>2. req' = [req EXCEPT ![r] = x]
    BY <1>3
  <2> HIDE DEF x
  <2>3. Fits(r, x)
    BY <1>1, <2>1 DEF Fits, AppendFits, AnswerFits, VectorsFit, Appending
  <2> QED
    BY <1>0, <1>1, <2>1, <2>2, <2>3, RequestMoves DEF Untouched
<1> QED
  BY <1>2, <1>3 DEF MergeAndCheck

\* The next number is one past the count of a stored page.
LEMMA NumberKeeps ==
  ASSUME Inductive, NEW r \in Distiller, NextVersion(r)
  PROVE  Inductive'
<1> DEFINE p == req[r].page
           n == LatestVersion(p) + 1
           x == [req[r] EXCEPT !.pc = "insert", !.version = n]
<1>0. r \in Request
  BY DEF Request
<1>1. /\ req[r] \in RequestState /\ req[r].pc = "number" /\ req[r].result # "ok" /\ Untouched
      /\ Existing(p) /\ p \in Page /\ r \in req[r].content
  BY <1>0, ReqFacts, ReadOnlyUntouched DEF NextVersion, At, Fits, AppendFits, AnswerFits, Appending, Existing
<1>2. n \in Nat /\ n # 0 /\ (PageStored(p) => n = page[p].count + 1)
  BY <1>1, HistoryFacts
<1>3. req' = [req EXCEPT ![r] = x]
  BY DEF NextVersion
<1> HIDE DEF n
<1>4. /\ x \in RequestState /\ x.pc = "insert" /\ x.result = req[r].result /\ x.page = p
      /\ x.version = n /\ x.content = req[r].content
  BY <1>1, <1>2 DEF RequestState, Position
<1> HIDE DEF x
<1>5. PageStored(p) => n <= page[p].count + 1
  BY <1>1, <1>2 DEF Inductive, WikiTypeOK, PageRow
<1>6. Fits(r, x)
  BY <1>1, <1>2, <1>4, <1>5 DEF Fits, AppendFits, AnswerFits, VectorsFit, Appending
<1> QED
  BY <1>0, <1>1, <1>3, <1>4, <1>6, RequestMoves DEF Untouched

\* The revision that goes in has the next number, and no other transaction holds that number.
LEMMA InsertKeeps ==
  ASSUME Inductive, NEW r \in Distiller, InsertRevision(r)
  PROVE  Inductive'
<1> DEFINE p == req[r].page
           x == [req[r] EXCEPT !.pc = "touch"]
<1>0. r \in Request
  BY DEF Request
<1>1. /\ req[r] \in RequestState /\ req[r].pc = "insert" /\ req[r].result # "ok" /\ Untouched
      /\ Existing(p) /\ p \in Page /\ r \in req[r].content
      /\ req[r].version \in Nat /\ req[r].version # 0
      /\ PageStored(p) => req[r].version <= page[p].count + 1
  BY <1>0, ReqFacts, ReadOnlyUntouched
  DEF InsertRevision, At, Fits, AppendFits, AnswerFits, Appending, Existing, RequestState
<1>2. CASE Refused(p, req[r].version)
  BY <1>0, <1>1, <1>2, FinishMoves DEF InsertRevision
<1>3. CASE ~Refused(p, req[r].version)
  <2>1. PageStored(p) /\ page[p].count \in Nat /\ req[r].version \notin 1..page[p].count
    BY <1>1, <1>3 DEF Refused, Inductive, HistoryDense, WikiTypeOK, PageRow
  <2>2. req[r].version = page[p].count + 1
    BY <1>1, <2>1
  <2>3. \A q \in Others(r) : ~Inserting(q, p)
    <3>1. Blockers(r) = {q \in Others(r) : Inserting(q, p) /\ req[q].version = req[r].version}
      BY <1>1 DEF Blockers
    <3>2. ASSUME NEW q \in Others(r), Inserting(q, p)
          PROVE  req[q].version = req[r].version
      <4>1. q \in Request /\ req[q].pc \in {"touch", "retire"} /\ req[q].page = p
        BY <3>2 DEF Others, Inserting
      <4> QED
        BY <2>2, <4>1, ReqFacts DEF Fits, AppendFits
    <3> QED
      BY <3>1, <3>2 DEF InsertRevision
  <2>4. req' = [req EXCEPT ![r] = x]
    BY <1>3 DEF InsertRevision
  <2>5. /\ x \in RequestState /\ x.pc = "touch" /\ x.result = req[r].result /\ x.page = p
        /\ x.version = req[r].version /\ x.content = req[r].content
    BY <1>1 DEF RequestState, Position
  <2> HIDE DEF x
  <2>6. Fits(r, x)
    BY <1>1, <2>1, <2>2, <2>5 DEF Fits, AppendFits, AnswerFits, VectorsFit, Appending
  <2> QED
    BY <1>0, <1>1, <2>3, <2>4, <2>5, <2>6, RequestMoves DEF Untouched
<1> QED
  BY <1>2, <1>3

LEMMA TouchKeeps ==
  ASSUME Inductive, NEW r \in Distiller, Touch(r)
  PROVE  Inductive'
<1> DEFINE p == req[r].page
           x == [req[r] EXCEPT !.pc = "retire", !.pages = {p}, !.seen = LiveShadows(p)]
<1>0. r \in Request
  BY DEF Request
<1>1. /\ req[r] \in RequestState /\ req[r].pc = "touch" /\ req[r].result # "ok" /\ Untouched
      /\ Existing(p) /\ p \in Page /\ r \in req[r].content
      /\ PageStored(p) /\ req[r].version = page[p].count + 1
  BY <1>0, ReqFacts, ReadOnlyUntouched
  DEF Touch, At, Fits, AppendFits, AnswerFits, Appending, Existing
<1>2. LiveShadows(p) \subseteq Shadow /\ LiveShadows(p) \subseteq KeptShadows
  BY DEF LiveShadows, KeptShadows
<1>3. \A q \in Others(r) : ~Inserting(q, p)
  BY <1>0, <1>1 DEF Inductive, OneInserting, Others, Inserting
<1>4. req' = [req EXCEPT ![r] = x]
  BY DEF Touch
<1>5. /\ x \in RequestState /\ x.pc = "retire" /\ x.result = req[r].result /\ x.page = p
      /\ x.version = req[r].version /\ x.content = req[r].content /\ x.seen = LiveShadows(p)
  BY <1>1, <1>2 DEF RequestState, Position
<1> HIDE DEF x
<1>6. Fits(r, x)
  BY <1>1, <1>2, <1>5 DEF Fits, AppendFits, AnswerFits, VectorsFit, Appending
<1> QED
  BY <1>0, <1>1, <1>3, <1>4, <1>5, <1>6, RequestMoves DEF Untouched

LEMMA VectorsKeep ==
  ASSUME Inductive, NEW r \in Distiller, DropVectors(r) \/ UpsertVector(r)
  PROVE  Inductive'
<1>0. r \in Request
  BY DEF Request
<1>1. /\ req[r] \in RequestState /\ req[r].pc \in {"drop", "upsert"} /\ req[r].result # "ok"
      /\ Untouched /\ Fits(r, req[r])
  <2>1. /\ req[r] \in RequestState /\ req[r].pc \in {"drop", "upsert"} /\ req[r].result # "ok" /\ Fits(r, req[r])
    BY <1>0, ReqFacts DEF DropVectors, UpsertVector, At
  <2>2. points \in SUBSET Shadow /\ req[r].new \subseteq Shadow /\ crashes \in 0..MaxCrashes
    BY <2>1 DEF Inductive, WikiTypeOK, RequestState
  <2>3. Untouched
    BY <2>2 DEF DropVectors, UpsertVector, Untouched
  <2> QED
    BY <2>1, <2>3
<1>2. CASE Finish(r, "ok")
  BY <1>0, <1>1, <1>2, FinishMoves
<1>3. CASE req' = [req EXCEPT ![r].pc = "upsert"]
  <2> DEFINE x == [req[r] EXCEPT !.pc = "upsert"]
  <2>1. x \in RequestState /\ x.pc = "upsert" /\ x.result = req[r].result /\ x.page = req[r].page
    BY <1>1 DEF RequestState, Position
  <2>2. req' = [req EXCEPT ![r] = x]
    BY <1>3
  <2> HIDE DEF x
  <2>3. Fits(r, x)
    BY <1>1, <2>1 DEF Fits, AppendFits, AnswerFits, VectorsFit, Appending
  <2> QED
    BY <1>0, <1>1, <2>1, <2>2, <2>3, RequestMoves DEF Untouched
<1> QED
  BY <1>2, <1>3 DEF DropVectors, UpsertVector
-----------------------------------------------------------------------------
(* The deletes, up to their commits, and the ends of requests.             *)
Deleter == PageDelete \cup KbDelete

\* A position at which a delete relies on nothing, or on the shadows it has found.
LEMMA DeleterMoves ==
  ASSUME Inductive, NEW r \in Deleter, NEW x \in RequestState, req' = [req EXCEPT ![r] = x], Untouched,
         x.result # "ok",
         \/ x.pc \in {"docs", "pages", "chunks"}
         \/ x.pc = "pageRetire" /\ x.page \in Page /\ x.seen \subseteq KeptShadows
         \/ x.pc = "pageRow" /\ x.page \in Page /\ x.chunks \subseteq KeptShadows
  PROVE  Inductive'
<1>1. r \in Request /\ r \notin Distiller
  BY WikiAssumption DEF WikiAssumption, Deleter, Request
<1>2. Fits(r, x)
  BY <1>1 DEF Fits, AppendFits, VectorsFit, Appending
<1> QED
  BY <1>1, <1>2, RequestMoves DEF Untouched

LEMMA PageDeleteKeeps ==
  ASSUME Inductive, NEW r \in PageDelete, LoadPage(r) \/ RetirePageShadow(r) \/ DropPageVectors(r)
  PROVE  Inductive'
<1>0. r \in Request /\ r \in Deleter /\ r \notin Distiller
  BY WikiAssumption DEF WikiAssumption, Request, Deleter
<1>1. req[r] \in RequestState /\ Fits(r, req[r]) /\ (req[r].result = "ok" => req[r].pc = "done")
  BY <1>0, ReqFacts
<1>2. CASE LoadPage(r)
  <2>1. req[r].pc = "start" /\ Untouched
    BY <1>2, ReadOnlyUntouched DEF LoadPage, At
  <2>2. CASE Finish(r, "error")
    BY <1>0, <2>1, <2>2, FinishMoves
  <2>3. ASSUME NEW p \in Page,
               req' = [req EXCEPT ![r].pc = "pageRetire", ![r].page = p, ![r].seen = LiveShadows(p)]
        PROVE  Inductive'
    <3> DEFINE x == [req[r] EXCEPT !.pc = "pageRetire", !.page = p, !.seen = LiveShadows(p)]
    <3>1. LiveShadows(p) \subseteq Shadow /\ LiveShadows(p) \subseteq KeptShadows
      BY DEF LiveShadows, KeptShadows
    <3>2. /\ x \in RequestState /\ x.pc = "pageRetire" /\ x.result = req[r].result /\ x.page = p
          /\ x.seen = LiveShadows(p)
      BY <1>1, <3>1 DEF RequestState, Position
    <3>3. req' = [req EXCEPT ![r] = x]
      BY <2>3
    <3> HIDE DEF x
    <3> QED
      BY <1>0, <1>1, <2>1, <3>1, <3>2, <3>3, DeleterMoves
  <2> QED
    BY <1>2, <2>2, <2>3 DEF LoadPage
<1>3. CASE RetirePageShadow(r)
  <2> DEFINE x == [req[r] EXCEPT !.pc = "pageRow", !.chunks = req[r].seen, !.docs = req[r].seen]
  <2>1. /\ req[r].pc = "pageRetire" /\ Untouched
        /\ req[r].seen \subseteq KeptShadows /\ req[r].page \in Page
    BY <1>1, <1>3, ReadOnlyUntouched DEF RetirePageShadow, At, Fits, VectorsFit
  <2>2. req[r].seen \subseteq Shadow
    BY <2>1 DEF KeptShadows
  <2>3. /\ x \in RequestState /\ x.pc = "pageRow" /\ x.result = req[r].result
        /\ x.page = req[r].page /\ x.chunks = req[r].seen
    BY <1>1, <2>2 DEF RequestState, Position
  <2>4. req' = [req EXCEPT ![r] = x]
    BY <1>3 DEF RetirePageShadow
  <2> HIDE DEF x
  <2> QED
    BY <1>0, <1>1, <2>1, <2>3, <2>4, DeleterMoves
<1>4. CASE DropPageVectors(r)
  <2>1. Untouched
    BY <1>4 DEF DropPageVectors, Untouched, Inductive, WikiTypeOK
  <2> QED
    BY <1>0, <1>4, <2>1, FinishMoves DEF DropPageVectors
<1> QED
  BY <1>2, <1>3, <1>4

LEMMA KbDeleteKeeps ==
  ASSUME Inductive, NEW r \in KbDelete, GetKb(r) \/ DeleteChunks(r) \/ DeleteDocs(r) \/ DropKbVectors(r)
  PROVE  Inductive'
<1>0. r \in Request /\ r \in Deleter /\ r \notin Distiller
  BY WikiAssumption DEF WikiAssumption, Request, Deleter
<1>1. req[r] \in RequestState /\ (req[r].result = "ok" => req[r].pc = "done")
  BY <1>0, ReqFacts
<1>2. LiveChunks \subseteq Shadow /\ LiveDocs \subseteq Shadow
  BY DEF LiveChunks, LiveDocs
<1>3. CASE GetKb(r)
  <2> DEFINE x == [req[r] EXCEPT !.pc = "chunks", !.seen = LiveChunks]
  <2>1. req[r].pc = "start" /\ Untouched
    BY <1>3, ReadOnlyUntouched DEF GetKb, At
  <2>2. CASE Finish(r, "error")
    BY <1>0, <2>1, <2>2, FinishMoves
  <2>3. CASE req' = [req EXCEPT ![r].pc = "chunks", ![r].seen = LiveChunks]
    <3>1. x \in RequestState /\ x.pc = "chunks" /\ x.result = req[r].result
      BY <1>1, <1>2 DEF RequestState, Position
    <3>2. req' = [req EXCEPT ![r] = x]
      BY <2>3
    <3> HIDE DEF x
    <3> QED
      BY <1>0, <1>1, <2>1, <3>1, <3>2, DeleterMoves
  <2> QED
    BY <1>3, <2>2, <2>3 DEF GetKb
<1>4. CASE DeleteChunks(r)
  <2> DEFINE x == [req[r] EXCEPT !.pc = "docs", !.chunks = req[r].seen \cap LiveChunks, !.seen = LiveDocs]
  <2>1. req[r].pc = "chunks" /\ Untouched
    BY <1>4, ReadOnlyUntouched DEF DeleteChunks, At
  <2>2. x \in RequestState /\ x.pc = "docs" /\ x.result = req[r].result
    BY <1>1, <1>2 DEF RequestState, Position
  <2>3. req' = [req EXCEPT ![r] = x]
    BY <1>4 DEF DeleteChunks
  <2> HIDE DEF x
  <2> QED
    BY <1>0, <1>1, <2>1, <2>2, <2>3, DeleterMoves
<1>5. CASE DeleteDocs(r)
  <2> DEFINE live == {p \in Page : PageLive(p)}
             x == [req[r] EXCEPT !.pc = "pages", !.docs = req[r].seen \cap LiveDocs, !.seen = live]
  <2>1. req[r].pc = "docs" /\ Untouched
    BY <1>5, ReadOnlyUntouched DEF DeleteDocs, At
  <2>2. live \subseteq Page
    OBVIOUS
  <2>3. req' = [req EXCEPT ![r] = x]
    BY <1>5 DEF DeleteDocs
  <2> HIDE DEF live
  <2>4. x \in RequestState /\ x.pc = "pages" /\ x.result = req[r].result
    BY <1>1, <1>2, <2>2 DEF RequestState, Position
  <2> HIDE DEF x
  <2> QED
    BY <1>0, <1>1, <2>1, <2>3, <2>4, DeleterMoves
<1>6. CASE DropKbVectors(r)
  <2>1. Untouched
    BY <1>6 DEF DropKbVectors, Untouched, Inductive, WikiTypeOK
  <2> QED
    BY <1>0, <1>6, <2>1, FinishMoves DEF DropKbVectors
<1> QED
  BY <1>3, <1>4, <1>5, <1>6

LEMMA AbortKeeps ==
  ASSUME Inductive, NEW r \in Request, DeadlockAbort(r) \/ Crash(r)
  PROVE  Inductive'
<1>1. Finish(r, "error") /\ Untouched
  <2>1. CASE DeadlockAbort(r)
    BY <2>1, ReadOnlyUntouched DEF DeadlockAbort
  <2>2. CASE Crash(r)
    BY <2>2, WikiAssumption DEF WikiAssumption, Crash, storeVars, Untouched, Inductive, WikiTypeOK
  <2> QED
    BY <2>1, <2>2
<1> QED
  BY <1>1, FinishMoves
-----------------------------------------------------------------------------
(* The commits.                                                            *)

\* A commit of request r that keeps what the other requests rely on.
LEMMA RequestCommits ==
  ASSUME Inductive, NEW r \in Request, NEW x \in RequestState, req' = [req EXCEPT ![r] = x],
         WikiTypeOK', FiniteHistory', HistoryDense', RowsGrow,
         Fits(r, x)', x.pc \notin {"touch", "retire"},
         \A q \in Others(r) : req[q].pc \in {"touch", "retire"} => HistoryKept(req[q].page)
  PROVE  Inductive'
<1> USE DEF Inductive
<1>1. /\ req'[r] = x /\ \A q \in Others(r) : req'[q] = req[q]
  BY DEF WikiTypeOK, Others
<1>2. RequestsFit'
  <2>1. ASSUME NEW q \in Request
        PROVE  Fits(q, req[q])'
    <3>1. CASE q = r
      BY <1>1, <3>1 DEF Fits, AppendFits, AnswerFits, VectorsFit, Existing, PageStored, RecordedIn,
                        KeptShadows, DeadShadows
    <3>2. CASE q # r
      <4>1. Fits(q, req[q]) /\ req'[q] = req[q] /\ q \in Others(r)
        BY <1>1, <3>2 DEF RequestsFit, Others
      <4> QED
        BY <4>1, FitsKept
    <3> QED
      BY <3>1, <3>2
  <2> QED
    BY <2>1 DEF RequestsFit
<1>3. OneInserting'
  <2>1. \A q \in Others(r), p \in Page : Inserting(q, p)' <=> Inserting(q, p)
    BY <1>1 DEF Inserting
  <2>2. \A p \in Page : ~Inserting(r, p)'
    BY <1>1 DEF Inserting
  <2> QED
    BY <2>1, <2>2 DEF OneInserting, Others
<1> QED
  BY <1>2, <1>3

LEMMA CommittedState ==
  ASSUME NEW r \in Request, NEW pc \in {"drop", "dropPage", "dropKb"}, NEW p \in Page \cup {NoPage},
         NEW old \in SUBSET Shadow, NEW new \in SUBSET Shadow, AfterCommit(r, pc, p, old, new)
  PROVE  \E x \in RequestState :
             /\ req' = [req EXCEPT ![r] = x]
             /\ x.pc = pc /\ x.page = p /\ x.old = old /\ x.result = "none"
<1> DEFINE x == [NoRequest EXCEPT !.pc = pc, !.page = p, !.old = old, !.new = new]
<1>1. x \in RequestState /\ x.pc = pc /\ x.page = p /\ x.old = old /\ x.result = "none"
  BY DEF NoRequest, RequestState, Position
<1>2. req' = [req EXCEPT ![r] = x]
  BY DEF AfterCommit
<1> HIDE DEF x
<1> QED
  BY <1>1, <1>2

\* Soft-deleting rows takes none away and revives none.
LEMMA SoftDeletedFacts ==
  ASSUME WikiTypeOK, NEW chunks \in SUBSET Shadow, NEW docs \in SUBSET Shadow
  PROVE  /\ SoftDeleted(chunks, docs) \in [Shadow -> ShadowRow]
         /\ \A s \in Shadow : /\ shadow[s].doc # "absent" => SoftDeleted(chunks, docs)[s].doc # "absent"
                              /\ shadow[s].chunk # "live" => SoftDeleted(chunks, docs)[s].chunk # "live"
         /\ \A s \in chunks : SoftDeleted(chunks, docs)[s].chunk # "live"
<1>1. \A s \in Shadow : shadow[s] \in ShadowRow
  BY DEF WikiTypeOK
<1>2. ASSUME NEW s \in Shadow
      PROVE  /\ SoftDeleted(chunks, docs)[s] \in ShadowRow
             /\ shadow[s].doc # "absent" => SoftDeleted(chunks, docs)[s].doc # "absent"
             /\ shadow[s].chunk # "live" => SoftDeleted(chunks, docs)[s].chunk # "live"
             /\ s \in chunks => SoftDeleted(chunks, docs)[s].chunk # "live"
  <2> DEFINE c == IF s \in chunks /\ shadow[s].chunk = "live" THEN "deleted" ELSE shadow[s].chunk
             d == IF s \in docs /\ shadow[s].doc = "live" THEN "deleted" ELSE shadow[s].doc
  <2>1. SoftDeleted(chunks, docs)[s] = [shadow[s] EXCEPT !.chunk = c, !.doc = d]
    BY DEF SoftDeleted
  <2>2. shadow[s].chunk \in Row /\ shadow[s].doc \in Row
    BY <1>1 DEF ShadowRow
  <2>3. /\ c \in Row /\ d \in Row /\ (shadow[s].doc # "absent" => d # "absent")
        /\ (shadow[s].chunk # "live" => c # "live") /\ (s \in chunks => c # "live")
    BY <2>2 DEF Row
  <2> HIDE DEF c, d
  <2>4. /\ SoftDeleted(chunks, docs)[s] \in ShadowRow
        /\ SoftDeleted(chunks, docs)[s].chunk = c /\ SoftDeleted(chunks, docs)[s].doc = d
    BY <1>1, <2>1, <2>3 DEF ShadowRow
  <2> QED
    BY <2>3, <2>4
<1>3. DOMAIN SoftDeleted(chunks, docs) = Shadow
  BY DEF SoftDeleted
<1>4. SoftDeleted(chunks, docs) = [s \in Shadow |-> SoftDeleted(chunks, docs)[s]]
  BY <1>3 DEF SoftDeleted
<1> QED
  BY <1>2, <1>4

LEMMA PagesDeletedFacts ==
  ASSUME WikiTypeOK, NEW P
  PROVE  /\ PagesDeleted(P) \in [Page -> PageRow]
         /\ \A p \in Page : /\ PagesDeleted(P)[p].count = page[p].count
                            /\ PagesDeleted(P)[p].row = "absent" <=> page[p].row = "absent"
                            /\ PagesDeleted(P)[p].row \in {"live", "deleted"} <=> PageStored(p)
<1>1. \A p \in Page : page[p] \in PageRow
  BY DEF WikiTypeOK
<1>2. ASSUME NEW p \in Page
      PROVE  /\ PagesDeleted(P)[p] \in PageRow /\ PagesDeleted(P)[p].count = page[p].count
             /\ PagesDeleted(P)[p].row = "absent" <=> page[p].row = "absent"
             /\ PagesDeleted(P)[p].row \in {"live", "deleted"} <=> PageStored(p)
  <2> DEFINE w == IF p \in P /\ page[p].row = "live" THEN "deleted" ELSE page[p].row
  <2>1. PagesDeleted(P)[p] = [page[p] EXCEPT !.row = w]
    BY DEF PagesDeleted
  <2>2. /\ w \in Row /\ (w = "absent" <=> page[p].row = "absent")
        /\ (w \in {"live", "deleted"} <=> PageStored(p))
    BY <1>1 DEF PageRow, Row, PageStored
  <2> HIDE DEF w
  <2>3. PagesDeleted(P)[p] \in PageRow /\ PagesDeleted(P)[p].row = w /\ PagesDeleted(P)[p].count = page[p].count
    BY <1>1, <2>1, <2>2 DEF PageRow
  <2> QED
    BY <2>2, <2>3
<1>3. PagesDeleted(P) = [p \in Page |-> PagesDeleted(P)[p]]
  BY DEF PagesDeleted
<1> QED
  BY <1>2, <1>3

\* The commit of a delete: histories stay, rows only change from live to deleted.
LEMMA SoftDeleteGrows ==
  ASSUME Inductive, NEW chunks \in SUBSET Shadow, NEW docs \in SUBSET Shadow, NEW P,
         shadow' = SoftDeleted(chunks, docs), page' = PagesDeleted(P), UNCHANGED revision,
         kb = "deleted" => kb' = "deleted"
  PROVE  /\ page' \in [Page -> PageRow] /\ shadow' \in [Shadow -> ShadowRow]
         /\ RowsGrow /\ FiniteHistory' /\ HistoryDense'
         /\ \A p \in Page : PageStored(p) => HistoryKept(p)
         /\ \A s \in chunks : shadow'[s].chunk # "live"
<1>1. WikiTypeOK
  BY DEF Inductive
<1>2. /\ shadow' \in [Shadow -> ShadowRow]
      /\ \A s \in Shadow : /\ shadow[s].doc # "absent" => shadow'[s].doc # "absent"
                           /\ shadow[s].chunk # "live" => shadow'[s].chunk # "live"
      /\ \A s \in chunks : shadow'[s].chunk # "live"
  BY <1>1, SoftDeletedFacts
<1>3. /\ page' \in [Page -> PageRow]
      /\ \A p \in Page : /\ page'[p].count = page[p].count
                         /\ page'[p].row = "absent" <=> page[p].row = "absent"
                         /\ PageStored(p)' <=> PageStored(p)
  BY <1>1, PagesDeletedFacts DEF PageStored
<1>4. \A p \in Page : PageStored(p) => HistoryKept(p)
  BY <1>3 DEF HistoryKept, PageStored
<1>5. RowsGrow
  <2>1. KeptShadows \subseteq KeptShadows' /\ DeadShadows \subseteq DeadShadows'
    BY <1>2 DEF KeptShadows, DeadShadows
  <2>2. \A p \in Page : page[p].count \in Nat
    BY <1>1 DEF WikiTypeOK, PageRow
  <2> QED
    BY <1>3, <2>1, <2>2 DEF RowsGrow
<1>6. FiniteHistory' /\ HistoryDense'
  BY <1>3 DEF Inductive, FiniteHistory, HistoryDense, Versions
<1> QED
  BY <1>2, <1>3, <1>4, <1>5, <1>6

LEMMA DeleteCommitKeeps ==
  ASSUME Inductive, NEW r \in Deleter, CommitPageDelete(r) \/ CommitKbDelete(r)
  PROVE  Inductive'
<1>1. /\ r \in Request /\ r \notin Distiller /\ WikiTypeOK
      /\ req[r] \in RequestState /\ Fits(r, req[r])
  BY ReqFacts, WikiAssumption DEF WikiAssumption, Deleter, Request, Inductive
<1>2. req[r].chunks \in SUBSET Shadow /\ req[r].docs \in SUBSET Shadow /\ req[r].page \in Page \cup {NoPage}
  BY <1>1 DEF RequestState
<1>3. \E P : /\ shadow' = SoftDeleted(req[r].chunks, req[r].docs) /\ page' = PagesDeleted(P)
             /\ UNCHANGED revision /\ (kb = "deleted" => kb' = "deleted")
             /\ kb' \in {"live", "deleted"} /\ UNCHANGED <<points, crashes>>
  BY <1>1 DEF CommitPageDelete, CommitKbDelete, WikiTypeOK
<1>4. /\ page' \in [Page -> PageRow] /\ shadow' \in [Shadow -> ShadowRow]
      /\ RowsGrow /\ FiniteHistory' /\ HistoryDense'
      /\ \A p \in Page : PageStored(p) => HistoryKept(p)
      /\ \A s \in req[r].chunks : shadow'[s].chunk # "live"
  BY <1>2, <1>3, SoftDeleteGrows
<1>5. \A q \in Others(r) : req[q].pc \in {"touch", "retire"} => HistoryKept(req[q].page)
  BY <1>4, ReqFacts DEF Others, Fits, AppendFits, Appending, Existing
<1>6. CASE CommitPageDelete(r)
  <2>1. PICK x \in RequestState : /\ req' = [req EXCEPT ![r] = x] /\ x.pc = "dropPage"
                                  /\ x.old = req[r].chunks /\ x.result = "none"
    <3>1. PICK p \in Page \cup {NoPage}, old \in SUBSET Shadow : p = req[r].page /\ old = req[r].chunks
      BY <1>2
    <3>2. AfterCommit(r, "dropPage", p, old, {})
      BY <1>6, <3>1 DEF CommitPageDelete, AfterCommit
    <3>3. {} \in SUBSET Shadow
      OBVIOUS
    <3> QED
      BY <1>1, <3>1, <3>2, <3>3, CommittedState
  <2>2. req[r].chunks \subseteq KeptShadows
    BY <1>1, <1>6 DEF CommitPageDelete, At, Fits, VectorsFit
  <2>3. req[r].chunks \subseteq DeadShadows'
    BY <1>4, <2>2 DEF RowsGrow, DeadShadows
  <2>4. Fits(r, x)'
    BY <1>1, <2>1, <2>3 DEF Fits, AppendFits, VectorsFit, Appending
  <2>5. WikiTypeOK'
    BY <1>1, <1>3, <1>4, <1>6, <2>1 DEF WikiTypeOK, CommitPageDelete
  <2> QED
    BY <1>1, <1>4, <1>5, <2>1, <2>4, <2>5, RequestCommits
<1>7. CASE CommitKbDelete(r)
  <2>1. PICK x \in RequestState : /\ req' = [req EXCEPT ![r] = x] /\ x.pc = "dropKb"
                                  /\ x.result = "none"
    <3>1. AfterCommit(r, "dropKb", NoPage, {}, {})
      BY <1>7 DEF CommitKbDelete
    <3>2. {} \in SUBSET Shadow
      OBVIOUS
    <3> QED
      BY <1>1, <3>1, <3>2, CommittedState
  <2>2. Fits(r, x)'
    BY <1>1, <1>7, <2>1 DEF Fits, AppendFits, VectorsFit, Appending, CommitKbDelete
  <2>3. WikiTypeOK'
    BY <1>1, <1>3, <1>4, <1>7, <2>1 DEF WikiTypeOK, CommitKbDelete
  <2> QED
    BY <1>1, <1>4, <1>5, <2>1, <2>2, <2>3, RequestCommits
<1> QED
  BY <1>6, <1>7
\* A revision with the next number joins the history of page p.
LEMMA HistoryExtended ==
  ASSUME NEW p \in Page, NEW n \in Nat, NEW v \in RevisionRow, v.version = n + 1,
         IsFiniteSet(revision[p]), Versions(p) = 1..n, Cardinality(revision[p]) = n,
         revision'[p] = revision[p] \cup {v}
  PROVE  /\ IsFiniteSet(revision'[p]) /\ Cardinality(revision'[p]) = n + 1
         /\ Versions(p)' = 1..(n + 1)
<1>1. v \notin revision[p]
  <2>1. SUFFICES ASSUME v \in revision[p] PROVE FALSE
    OBVIOUS
  <2>2. n + 1 \in Versions(p)
    BY <2>1 DEF Versions
  <2> QED
    BY <2>2
<1>2. IsFiniteSet(revision'[p]) /\ Cardinality(revision'[p]) = n + 1
  <2>1. /\ IsFiniteSet(revision[p] \cup {v})
        /\ Cardinality(revision[p] \cup {v}) = Cardinality(revision[p]) + 1
    BY <1>1, FS_AddElement
  <2> QED
    BY <2>1
<1>3. Versions(p)' = Versions(p) \cup {n + 1}
  BY DEF Versions
<1>4. 1..(n + 1) = (1..n) \cup {n + 1}
  OBVIOUS
<1> QED
  BY <1>2, <1>3, <1>4

LEMMA CommitAppendKeeps ==
  ASSUME Inductive, NEW r \in Distiller, CommitAppend(r)
  PROVE  Inductive'
<1>1. /\ r \in Request /\ WikiTypeOK /\ req[r] \in RequestState /\ Fits(r, req[r])
      /\ req[r].pc = "retire"
  BY ReqFacts DEF Request, Inductive, CommitAppend, At
<1>2. PICK p \in Page, old \in SUBSET Shadow, n \in Nat, c \in SUBSET Distiller :
        /\ p = req[r].page /\ old = req[r].seen /\ req[r].version = n + 1 /\ c = req[r].content
        /\ n = page[p].count /\ PageStored(p) /\ page[p].row # "absent" /\ r \in c /\ old \subseteq KeptShadows
  <2>1. /\ Existing(req[r].page) /\ PageStored(req[r].page) /\ req[r].version = page[req[r].page].count + 1
        /\ r \in req[r].content /\ req[r].seen \subseteq KeptShadows
    BY <1>1 DEF Fits, AppendFits, AnswerFits, VectorsFit, Appending
  <2>2. /\ page[req[r].page].count \in Nat /\ req[r].page \in Page /\ req[r].content \in SUBSET Distiller
        /\ req[r].seen \in SUBSET Shadow
    BY <1>1, <2>1 DEF Existing, WikiTypeOK, PageRow, RequestState, KeptShadows
  <2> QED
    BY <2>1, <2>2 DEF Existing
<1>3. PICK s \in Shadow :
        /\ shadow[s].doc = "absent"
        /\ shadow' = [SoftDeleted(old, old) EXCEPT ![s] = [page |-> p, content |-> c, doc |-> "live", chunk |-> "live"]]
        /\ AfterCommit(r, "drop", req[r].page, req[r].seen, {s})
  BY <1>2 DEF CommitAppend, FreshShadows, NewShadow
<1>4. PICK v \in RevisionRow : v = [version |-> n + 1, content |-> c]
  <2>1. n + 1 \in Nat \ {0}
    OBVIOUS
  <2> QED
    BY <2>1 DEF RevisionRow
<1>5. /\ v.version = n + 1 /\ v.content = c
      /\ revision' = [revision EXCEPT ![p] = @ \cup {v}]
      /\ page' = [page EXCEPT ![p].count = n + 1]
      /\ UNCHANGED <<kb, points, crashes>>
  BY <1>2, <1>4 DEF CommitAppend
<1>6. PICK x \in RequestState :
        /\ req' = [req EXCEPT ![r] = x]
        /\ x.pc = "drop" /\ x.page = p /\ x.old = old /\ x.result = "none"
  <2>1. AfterCommit(r, "drop", p, old, {s})
    BY <1>2, <1>3 DEF AfterCommit
  <2>2. {s} \in SUBSET Shadow
    OBVIOUS
  <2> QED
    BY <1>1, <2>1, <2>2, CommittedState
<1>7. /\ revision' \in [Page -> SUBSET RevisionRow]
      /\ revision'[p] = revision[p] \cup {v} /\ \A q \in Page \ {p} : revision'[q] = revision[q]
  BY <1>1, <1>5 DEF WikiTypeOK
<1>8. /\ page' \in [Page -> PageRow] /\ page'[p].count = n + 1
      /\ \A q \in Page : page'[q].row = page[q].row
      /\ \A q \in Page \ {p} : page'[q] = page[q]
  <2>1. page[p] \in PageRow /\ page \in [Page -> PageRow]
    BY <1>1 DEF WikiTypeOK
  <2>2. page' = [page EXCEPT ![p] = [page[p] EXCEPT !.count = n + 1]]
    BY <1>5
  <2>3. /\ [page[p] EXCEPT !.count = n + 1] \in PageRow
        /\ [page[p] EXCEPT !.count = n + 1].count = n + 1
        /\ [page[p] EXCEPT !.count = n + 1].row = page[p].row
    BY <2>1 DEF PageRow
  <2> QED
    BY <2>1, <2>2, <2>3
<1>9. /\ shadow' \in [Shadow -> ShadowRow]
      /\ \A t \in Shadow \ {s} : /\ shadow[t].doc # "absent" => shadow'[t].doc # "absent"
                                 /\ shadow[t].chunk # "live" => shadow'[t].chunk # "live"
                                 /\ t \in old => shadow'[t].chunk # "live"
  <2>1. [page |-> p, content |-> c, doc |-> "live", chunk |-> "live"] \in ShadowRow
    BY DEF ShadowRow, Row
  <2> QED
    BY <1>1, <1>3, <2>1, SoftDeletedFacts
<1>10. WikiTypeOK'
  BY <1>1, <1>5, <1>6, <1>7, <1>8, <1>9 DEF WikiTypeOK
<1>11. /\ IsFiniteSet(revision'[p]) /\ Cardinality(revision'[p]) = n + 1 /\ Versions(p)' = 1..(n + 1)
  <2>1. IsFiniteSet(revision[p]) /\ Versions(p) = 1..n /\ Cardinality(revision[p]) = n
    BY <1>2 DEF Inductive, FiniteHistory, HistoryDense
  <2> QED
    BY <1>5, <1>7, <2>1, HistoryExtended
<1>12. FiniteHistory' /\ HistoryDense'
  <2>1. ASSUME NEW q \in Page
        PROVE  /\ IsFiniteSet(revision'[q]) /\ (~PageStored(q)' => revision'[q] = {})
               /\ PageStored(q)' => Versions(q)' = 1..page'[q].count /\ Cardinality(revision'[q]) = page'[q].count
    <3>1. CASE q = p
      BY <1>2, <1>8, <1>11, <3>1 DEF PageStored
    <3>2. CASE q # p
      BY <1>7, <1>8, <3>2 DEF Inductive, FiniteHistory, HistoryDense, PageStored, Versions
    <3> QED
      BY <3>1, <3>2
  <2> QED
    BY <2>1 DEF FiniteHistory, HistoryDense
<1>13. RowsGrow
  <2>1. KeptShadows \subseteq KeptShadows' /\ DeadShadows \subseteq DeadShadows'
    <3>1. \A t \in KeptShadows : t \in Shadow \ {s} /\ shadow[t].doc # "absent"
      BY <1>3 DEF KeptShadows
    <3>2. \A t \in KeptShadows : /\ t \in Shadow /\ shadow'[t].doc # "absent"
                                 /\ shadow[t].chunk # "live" => shadow'[t].chunk # "live"
      BY <1>9, <3>1
    <3> QED
      BY <3>2 DEF KeptShadows, DeadShadows
  <2>2. \A q \in Page : page[q].count \in Nat /\ page[q].count <= page'[q].count
    BY <1>1, <1>2, <1>8 DEF WikiTypeOK, PageRow
  <2> QED
    BY <1>5, <1>7, <1>8, <2>1, <2>2 DEF RowsGrow, PageStored
<1>14. Fits(r, x)'
  <2>1. old \subseteq DeadShadows'
    <3>1. \A t \in old : t \in Shadow \ {s} /\ shadow[t].doc # "absent"
      BY <1>2, <1>3 DEF KeptShadows
    <3>2. \A t \in old : /\ t \in Shadow /\ shadow'[t].doc # "absent" /\ shadow'[t].chunk # "live"
      BY <1>9, <3>1
    <3> QED
      BY <3>2 DEF KeptShadows, DeadShadows
  <2>2. RecordedIn(r, p)'
    BY <1>2, <1>5, <1>7 DEF RecordedIn
  <2>3. Existing(p)'
    BY <1>2, <1>8 DEF Existing
  <2> QED
    BY <1>6, <2>1, <2>2, <2>3 DEF Fits, AppendFits, AnswerFits, VectorsFit, Appending
<1>15. \A q \in Others(r) : req[q].pc \in {"touch", "retire"} => HistoryKept(req[q].page)
  <2>1. ASSUME NEW q \in Others(r), req[q].pc \in {"touch", "retire"}
        PROVE  HistoryKept(req[q].page)
    <3>1. q \in Request /\ q # r /\ req[q].page \in Page /\ PageStored(req[q].page)
      BY <2>1, ReqFacts DEF Others, Fits, AppendFits, Appending, Existing
    <3>2. req[q].page # p
      BY <1>1, <1>2, <2>1, <3>1 DEF Inductive, OneInserting, Inserting
    <3> QED
      BY <1>8, <3>1, <3>2 DEF HistoryKept, PageStored
  <2> QED
    BY <2>1
<1> QED
  BY <1>1, <1>6, <1>10, <1>12, <1>13, <1>14, <1>15, RequestCommits
LEMMA CreatePageKeeps ==
  ASSUME Inductive, NEW r \in Distiller, CreatePage(r)
  PROVE  Inductive'
<1>1. /\ r \in Request /\ WikiTypeOK /\ req[r] \in RequestState /\ Fits(r, req[r])
      /\ req[r].pc = "create" /\ UNCHANGED <<kb, points, crashes>>
  BY ReqFacts DEF Request, Inductive, CreatePage, At
<1>2. CASE Finish(r, "error") /\ UNCHANGED <<page, revision, shadow>>
  <2>1. Untouched
    BY <1>1, <1>2 DEF Untouched, WikiTypeOK
  <2> QED
    BY <1>1, <1>2, <2>1, FinishMoves
<1>3. CASE ~(Finish(r, "error") /\ UNCHANGED <<page, revision, shadow>>)
  <2>1. PICK c \in SUBSET Distiller, g \in Slug \cup {NoSlug} :
          c = req[r].content /\ g = req[r].slug /\ r \in c
    BY <1>1 DEF RequestState, Fits, AnswerFits
  <2>2. PICK p \in Page, s \in Shadow :
          /\ page[p].row = "absent" /\ shadow[s].doc = "absent"
          /\ page' = [page EXCEPT ![p] = [row |-> "live", slug |-> g, count |-> 1]]
          /\ revision' = [revision EXCEPT ![p] = {[version |-> 1, content |-> c]}]
          /\ shadow' = [shadow EXCEPT ![s] = [page |-> p, content |-> c, doc |-> "live", chunk |-> "live"]]
          /\ AfterCommit(r, "drop", p, {}, {s})
    BY <1>3, <2>1 DEF CreatePage, FreshPages, FreshShadows, NewShadow
  <2>3. PICK v \in RevisionRow : v = [version |-> 1, content |-> c] /\ v.version = 1 /\ v.content = c
    <3> DEFINE v == [version |-> 1, content |-> c]
    <3>1. 1 \in Nat \ {0}
      OBVIOUS
    <3>2. v \in RevisionRow
      BY <3>1 DEF RevisionRow
    <3>3. v.version = 1 /\ v.content = c
      OBVIOUS
    <3> HIDE DEF v
    <3>4. \E w \in RevisionRow : w = v /\ w.version = 1 /\ w.content = c
      BY <3>2, <3>3
    <3> QED
      BY <3>4 DEF v
  <2>4. PICK x \in RequestState :
          /\ req' = [req EXCEPT ![r] = x]
          /\ x.pc = "drop" /\ x.page = p /\ x.old = {} /\ x.result = "none"
    <3>1. {s} \in SUBSET Shadow /\ {} \in SUBSET Shadow
      OBVIOUS
    <3> QED
      BY <1>1, <2>2, <3>1, CommittedState
  <2>5. /\ revision' \in [Page -> SUBSET RevisionRow] /\ revision'[p] = {v}
        /\ \A q \in Page \ {p} : revision'[q] = revision[q]
    <3>1. revision' = [revision EXCEPT ![p] = {v}] /\ revision \in [Page -> SUBSET RevisionRow]
      BY <1>1, <2>2, <2>3 DEF WikiTypeOK
    <3> QED
      BY <3>1
  <2>6. /\ page' \in [Page -> PageRow] /\ page'[p].row = "live" /\ page'[p].count = 1
        /\ \A q \in Page \ {p} : page'[q] = page[q]
    <3>1. PICK w \in PageRow : w = [row |-> "live", slug |-> g, count |-> 1] /\ w.row = "live" /\ w.count = 1
      <4> DEFINE w == [row |-> "live", slug |-> g, count |-> 1]
      <4>1. "live" \in Row /\ 1 \in Nat
        BY DEF Row
      <4>2. w \in PageRow
        BY <4>1 DEF PageRow
      <4>3. w.row = "live" /\ w.count = 1
        OBVIOUS
      <4> HIDE DEF w
      <4>4. \E u \in PageRow : u = w /\ u.row = "live" /\ u.count = 1
        BY <4>2, <4>3
      <4> QED
        BY <4>4 DEF w
    <3>2. page' = [page EXCEPT ![p] = w] /\ page \in [Page -> PageRow]
      BY <1>1, <2>2, <3>1 DEF WikiTypeOK
    <3> QED
      BY <3>1, <3>2
  <2>7. shadow' \in [Shadow -> ShadowRow] /\ \A t \in Shadow \ {s} : shadow'[t] = shadow[t]
    <3>1. [page |-> p, content |-> c, doc |-> "live", chunk |-> "live"] \in ShadowRow
      BY DEF ShadowRow, Row
    <3> QED
      BY <1>1, <2>2, <3>1 DEF WikiTypeOK
  <2>8. WikiTypeOK'
    BY <1>1, <2>4, <2>5, <2>6, <2>7 DEF WikiTypeOK
  <2>9. /\ IsFiniteSet({v}) /\ Cardinality({v}) = 1 /\ Versions(p)' = 1..1
    <3>1. IsFiniteSet({v}) /\ Cardinality({v}) = 1
      BY FS_Singleton
    <3>2. Versions(p)' = {1}
      BY <2>3, <2>5 DEF Versions
    <3> QED
      BY <3>1, <3>2
  <2>10. FiniteHistory' /\ HistoryDense'
    <3>1. ASSUME NEW q \in Page
          PROVE  /\ IsFiniteSet(revision'[q]) /\ (~PageStored(q)' => revision'[q] = {})
                 /\ PageStored(q)' => Versions(q)' = 1..page'[q].count /\ Cardinality(revision'[q]) = page'[q].count
      <4>1. CASE q = p
        BY <2>5, <2>6, <2>9, <4>1 DEF PageStored
      <4>2. CASE q # p
        BY <2>5, <2>6, <4>2 DEF Inductive, FiniteHistory, HistoryDense, PageStored, Versions
      <4> QED
        BY <4>1, <4>2
    <3> QED
      BY <3>1 DEF FiniteHistory, HistoryDense
  <2>11. RowsGrow
    <3>1. \A t \in KeptShadows : t \in Shadow \ {s}
      BY <2>2 DEF KeptShadows
    <3>2. KeptShadows \subseteq KeptShadows' /\ DeadShadows \subseteq DeadShadows'
      BY <2>7, <3>1 DEF KeptShadows, DeadShadows
    <3>3. \A q \in Page : page[q].row # "absent" => q # p /\ page[q].count \in Nat
      BY <1>1, <2>2 DEF WikiTypeOK, PageRow
    <3> QED
      BY <1>1, <2>5, <2>6, <3>2, <3>3 DEF RowsGrow, PageStored
  <2>12. Fits(r, x)'
    <3>1. RecordedIn(r, p)' /\ Existing(p)'
      BY <2>1, <2>3, <2>5, <2>6 DEF RecordedIn, Existing
    <3> QED
      BY <2>4, <3>1 DEF Fits, AppendFits, AnswerFits, VectorsFit, Appending
  <2>13. ASSUME NEW q \in Others(r), req[q].pc \in {"touch", "retire"}
         PROVE  HistoryKept(req[q].page)
    <3>1. q \in Request /\ req[q].page \in Page /\ PageStored(req[q].page)
      BY <2>13, ReqFacts DEF Others, Fits, AppendFits, Appending, Existing
    <3>2. req[q].page # p
      BY <2>2, <3>1 DEF PageStored
    <3> QED
      BY <2>6, <3>1, <3>2 DEF HistoryKept, PageStored
  <2> QED
    BY <1>1, <2>4, <2>8, <2>10, <2>11, <2>12, <2>13, RequestCommits
<1> QED
  BY <1>2, <1>3

-----------------------------------------------------------------------------
(* The clean-up: no request steps, and what each relies on stays.          *)
LEMMA CleanUpFrame ==
  ASSUME Inductive, WikiTypeOK', FiniteHistory', HistoryDense', RowsGrow, UNCHANGED req,
         \A q \in Request : req[q].pc \in {"touch", "retire"} => HistoryKept(req[q].page)
  PROVE  Inductive'
<1>1. ASSUME NEW q \in Request PROVE Fits(q, req[q])'
  BY FitsKept DEF Inductive, RequestsFit
<1>2. RequestsFit' /\ OneInserting'
  BY <1>1 DEF RequestsFit, Inductive, OneInserting, Inserting
<1> QED
  BY <1>2 DEF Inductive

LEMMA PurgeShadowKeeps ==
  ASSUME Inductive, NEW s \in Shadow, PurgeShadow(s)
  PROVE  Inductive'
<1>1. /\ WikiTypeOK /\ shadow[s] \in ShadowRow /\ shadow[s].chunk = "deleted"
      /\ UNCHANGED <<kb, page, revision, req, crashes>> /\ points' \in SUBSET Shadow
  BY DEF Inductive, PurgeShadow, WikiTypeOK
<1>2. PICK w \in ShadowRow :
        /\ w.chunk = "purged" /\ (shadow[s].doc # "absent" => w.doc # "absent")
        /\ shadow' = [shadow EXCEPT ![s] = w]
  <2> DEFINE d == IF shadow[s].doc = "deleted" THEN "purged" ELSE shadow[s].doc
             w == [shadow[s] EXCEPT !.chunk = "purged", !.doc = d]
  <2>1. d \in Row /\ (shadow[s].doc # "absent" => d # "absent")
    BY <1>1 DEF ShadowRow, Row
  <2>2. shadow' = [shadow EXCEPT ![s] = w]
    BY DEF PurgeShadow
  <2> HIDE DEF d
  <2>3. w \in ShadowRow /\ w.chunk = "purged" /\ w.doc = d
    BY <1>1, <2>1 DEF ShadowRow, Row
  <2> HIDE DEF w
  <2> QED
    BY <2>1, <2>2, <2>3
<1>3. WikiTypeOK'
  BY <1>1, <1>2 DEF WikiTypeOK
<1>4. KeptShadows \subseteq KeptShadows' /\ DeadShadows \subseteq DeadShadows'
  BY <1>1, <1>2 DEF KeptShadows, DeadShadows, WikiTypeOK
<1>5. RowsGrow
  BY <1>1, <1>4 DEF RowsGrow, PageStored, WikiTypeOK, PageRow
<1>6. FiniteHistory' /\ HistoryDense'
  BY <1>1 DEF Inductive, FiniteHistory, HistoryDense, PageStored, Versions
<1>7. \A q \in Request : req[q].pc \in {"touch", "retire"} => HistoryKept(req[q].page)
  BY <1>1, ReqFacts DEF Fits, AppendFits, HistoryKept, PageStored
<1> QED
  BY <1>1, <1>3, <1>5, <1>6, <1>7, CleanUpFrame

LEMMA PurgePageKeeps ==
  ASSUME Inductive, NEW p \in Page, PurgePage(p)
  PROVE  Inductive'
<1>1. /\ WikiTypeOK /\ page[p] \in PageRow /\ page[p].row = "deleted"
      /\ UNCHANGED <<kb, shadow, points, req, crashes>>
      /\ revision' = [revision EXCEPT ![p] = {}]
  BY DEF Inductive, PurgePage, WikiTypeOK
<1>2. PICK w \in PageRow : w.row = "purged" /\ page' = [page EXCEPT ![p] = w]
  <2> DEFINE w == [page[p] EXCEPT !.row = "purged", !.count = 0]
  <2>1. w \in PageRow /\ w.row = "purged"
    BY <1>1 DEF PageRow, Row
  <2>2. page' = [page EXCEPT ![p] = w]
    BY DEF PurgePage
  <2> HIDE DEF w
  <2> QED
    BY <2>1, <2>2
<1>3. /\ page \in [Page -> PageRow] /\ revision \in [Page -> SUBSET RevisionRow]
      /\ page'[p] = w /\ revision'[p] = {}
      /\ \A q \in Page \ {p} : page'[q] = page[q] /\ revision'[q] = revision[q]
  BY <1>1, <1>2 DEF WikiTypeOK
<1>4. WikiTypeOK'
  BY <1>1, <1>2, <1>3 DEF WikiTypeOK
<1>5. ~PageStored(p)' /\ \A q \in Page \ {p} : PageStored(q)' <=> PageStored(q)
  BY <1>2, <1>3 DEF PageStored
<1>6. RowsGrow
  <2>1. \A q \in Page : page[q].count \in Nat
    BY <1>3 DEF PageRow
  <2>2. ASSUME NEW q \in Page, page[q].row # "absent"
        PROVE  /\ page'[q].row # "absent"
               /\ PageStored(q)' => /\ PageStored(q) /\ page[q].count <= page'[q].count
                                    /\ revision[q] \subseteq revision'[q]
    <3>1. CASE q = p
      BY <1>2, <1>3, <1>5, <3>1
    <3>2. CASE q # p
      BY <1>3, <1>5, <2>1, <2>2, <3>2
    <3> QED
      BY <3>1, <3>2
  <2> QED
    BY <1>1, <2>2 DEF RowsGrow, KeptShadows, DeadShadows
<1>7. FiniteHistory' /\ HistoryDense'
  <2>1. ASSUME NEW q \in Page
        PROVE  /\ IsFiniteSet(revision'[q]) /\ (~PageStored(q)' => revision'[q] = {})
               /\ PageStored(q)' => Versions(q)' = 1..page'[q].count /\ Cardinality(revision'[q]) = page'[q].count
    <3>1. CASE q = p
      BY <1>3, <1>5, <3>1, FS_EmptySet
    <3>2. CASE q # p
      BY <1>3, <1>5, <3>2 DEF Inductive, FiniteHistory, HistoryDense, Versions
    <3> QED
      BY <3>1, <3>2
  <2> QED
    BY <2>1 DEF FiniteHistory, HistoryDense
<1>8. ASSUME NEW q \in Request, req[q].pc \in {"touch", "retire"}
      PROVE  HistoryKept(req[q].page)
  <2>1. req[q].page \in Page /\ PageStored(req[q].page)
    BY <1>8, ReqFacts DEF Fits, AppendFits, Appending, Existing
  <2>2. req[q].page # p
    BY <1>8 DEF PurgePage, Inserting
  <2> QED
    BY <1>3, <2>1, <2>2 DEF HistoryKept, PageStored
<1> QED
  BY <1>1, <1>4, <1>6, <1>7, <1>8, CleanUpFrame

LEMMA ReconcileKeeps ==
  ASSUME Inductive, ReconcileShadows
  PROVE  Inductive'
<1>1. /\ WikiTypeOK /\ UNCHANGED <<kb, page, revision, shadow, req, crashes>> /\ points' \in SUBSET Shadow
  BY DEF Inductive, ReconcileShadows, WikiTypeOK
<1>2. WikiTypeOK' /\ FiniteHistory' /\ HistoryDense'
  BY <1>1 DEF WikiTypeOK, Inductive, FiniteHistory, HistoryDense, PageStored, Versions
<1>3. RowsGrow
  BY <1>1 DEF RowsGrow, PageStored, WikiTypeOK, PageRow, KeptShadows, DeadShadows
<1>4. \A q \in Request : req[q].pc \in {"touch", "retire"} => HistoryKept(req[q].page)
  BY <1>1, ReqFacts DEF Fits, AppendFits, HistoryKept, PageStored
<1> QED
  BY <1>1, <1>2, <1>3, <1>4, CleanUpFrame

-----------------------------------------------------------------------------
(* Every step.                                                             *)
LEMMA RequestStepKeeps ==
  ASSUME Inductive, NEW r \in Request, RequestStep(r)
  PROVE  Inductive'
<1>1. CASE r \in Distiller /\ DistillStep(r)
  BY <1>1, ExtractKeeps, LookupKeeps, MergeKeeps, NumberKeeps, InsertKeeps, TouchKeeps,
     CommitAppendKeeps, CreatePageKeeps, VectorsKeep DEF DistillStep
<1>2. CASE r \in PageDelete /\ PageDeleteStep(r)
  BY <1>2, PageDeleteKeeps, DeleteCommitKeeps DEF PageDeleteStep, Deleter
<1>3. CASE r \in KbDelete /\ KbDeleteStep(r)
  BY <1>3, KbDeleteKeeps, DeleteCommitKeeps DEF KbDeleteStep, Deleter
<1>4. CASE DeadlockAbort(r)
  BY <1>4, AbortKeeps
<1> QED
  BY <1>1, <1>2, <1>3, <1>4 DEF RequestStep

LEMMA WikiStep ==
  ASSUME Inductive, [Next]_vars
  PROVE  Inductive'
<1>1. ASSUME NEW r \in Request, RequestStep(r) \/ Crash(r)
      PROVE  Inductive'
  BY <1>1, RequestStepKeeps, AbortKeeps
<1>2. CASE CleanUp
  BY <1>2, PurgeShadowKeeps, PurgePageKeeps, ReconcileKeeps DEF CleanUp
<1>3. CASE UNCHANGED vars
  BY <1>3 DEF vars, Inductive, WikiTypeOK, FiniteHistory, HistoryDense, RequestsFit, OneInserting,
              Inserting, PageStored, Versions, Fits, AppendFits, AnswerFits, VectorsFit, Existing,
              RecordedIn, KeptShadows, DeadShadows
<1> QED
  BY <1>1, <1>2, <1>3 DEF Next

LEMMA WikiInvariant == Spec => []Inductive
<1>1. Init => Inductive
  BY WikiInit
<1>2. Inductive /\ [Next]_vars => Inductive'
  BY WikiStep
<1> QED
  BY <1>1, <1>2, PTL DEF Spec

(* Rows, revisions, vectors and requests keep their types, whatever the    *)
(* transactions of wiki_service.py and knowledge_base_service.py commit.   *)
THEOREM TypeCorrect == Spec => []WikiTypeOK
<1>1. Inductive => WikiTypeOK
  BY DEF Inductive
<1> QED
  BY <1>1, WikiInvariant, PTL

(* The versions of a stored page are 1..revision_count: of the appends     *)
(* that computed one number only the first to insert it commits, and the   *)
(* count it writes is that number.                                         *)
THEOREM HistoryAlwaysDense == Spec => []HistoryDense
<1>1. Inductive => HistoryDense
  BY DEF Inductive
<1> QED
  BY <1>1, WikiInvariant, PTL

(* A distillation that was acknowledged is in a revision of its page for   *)
(* as long as the page is stored: later appends only add revisions.        *)
THEOREM AckedAlwaysRecorded == Spec => []AckedIsRecorded
<1>1. ASSUME Inductive
      PROVE  AckedIsRecorded
  <2>1. ASSUME NEW r \in Distiller, req[r].result = "ok", PageStored(req[r].page)
        PROVE  \E v \in revision[req[r].page] : r \in v.content
    <3>1. r \in Request
      BY DEF Request
    <3>2. AnswerFits(r, req[r])
      BY <1>1, <3>1, ReqFacts DEF Fits
    <3> QED
      BY <2>1, <3>2 DEF AnswerFits, RecordedIn
  <2> QED
    BY <2>1 DEF AckedIsRecorded
<1> QED
  BY <1>1, WikiInvariant, PTL

-----------------------------------------------------------------------------
\* Vectors a step takes away belong to chunks that no query is served from.
VectorsSafe == \A s \in points \ points' : kb = "live" => ~Served(s)

LEMMA DropsAreSafe ==
  ASSUME Inductive, NEW r \in Request,
         DropVectors(r) \/ UpsertVector(r) \/ DropPageVectors(r) \/ DropKbVectors(r)
  PROVE  VectorsSafe
<1>1. /\ VectorsFit(req[r])
      /\ points \in SUBSET Shadow
  BY ReqFacts DEF Fits, Inductive, WikiTypeOK
<1>2. CASE DropVectors(r) \/ UpsertVector(r) \/ DropPageVectors(r)
  <2>1. \A s \in points \ points' : s \in DeadShadows
    BY <1>1, <1>2 DEF DropVectors, UpsertVector, DropPageVectors, At, VectorsFit
  <2> QED
    BY <2>1 DEF VectorsSafe, DeadShadows, Served
<1>3. CASE DropKbVectors(r)
  BY <1>1, <1>3 DEF DropKbVectors, At, VectorsFit, VectorsSafe
<1> QED
  BY <1>2, <1>3

LEMMA PointsKept ==
  ASSUME points' = points
  PROVE  VectorsSafe
BY DEF VectorsSafe

LEMMA RequestStepSafe ==
  ASSUME Inductive, NEW r \in Request, RequestStep(r)
  PROVE  VectorsSafe
<1>1. CASE r \in Distiller /\ DistillStep(r)
  <2>1. CASE DropVectors(r) \/ UpsertVector(r)
    BY <2>1, DropsAreSafe
  <2>2. CASE ~(DropVectors(r) \/ UpsertVector(r))
    <3>1. points' = points
      BY <1>1, <2>2 DEF DistillStep, Extract, Lookup, MergeAndCheck, NextVersion, InsertRevision, Touch,
                        CommitAppend, CreatePage, ReadOnly
    <3> QED
      BY <3>1, PointsKept
  <2> QED
    BY <2>1, <2>2
<1>2. CASE r \in PageDelete /\ PageDeleteStep(r)
  <2>1. CASE DropPageVectors(r)
    BY <2>1, DropsAreSafe
  <2>2. CASE ~DropPageVectors(r)
    <3>1. points' = points
      BY <1>2, <2>2 DEF PageDeleteStep, LoadPage, RetirePageShadow, CommitPageDelete, ReadOnly
    <3> QED
      BY <3>1, PointsKept
  <2> QED
    BY <2>1, <2>2
<1>3. CASE r \in KbDelete /\ KbDeleteStep(r)
  <2>1. CASE DropKbVectors(r)
    BY <2>1, DropsAreSafe
  <2>2. CASE ~DropKbVectors(r)
    <3>1. points' = points
      BY <1>3, <2>2 DEF KbDeleteStep, GetKb, DeleteChunks, DeleteDocs, CommitKbDelete, ReadOnly
    <3> QED
      BY <3>1, PointsKept
  <2> QED
    BY <2>1, <2>2
<1>4. CASE DeadlockAbort(r)
  BY <1>4, PointsKept DEF DeadlockAbort, ReadOnly
<1> QED
  BY <1>1, <1>2, <1>3, <1>4 DEF RequestStep

LEMMA StepSafe ==
  ASSUME Inductive, [Next]_vars
  PROVE  VectorsSafe
<1>1. ASSUME NEW r \in Request, RequestStep(r)
      PROVE  VectorsSafe
  BY <1>1, RequestStepSafe
<1>2. ASSUME NEW r \in Request, Crash(r)
      PROVE  VectorsSafe
  BY <1>2, PointsKept DEF Crash, storeVars
<1>3. ASSUME NEW s \in Shadow, PurgeShadow(s)
      PROVE  VectorsSafe
  BY <1>3 DEF PurgeShadow, VectorsSafe, Served
<1>4. ASSUME NEW p \in Page, PurgePage(p)
      PROVE  VectorsSafe
  BY <1>4, PointsKept DEF PurgePage
<1>5. CASE ReconcileShadows
  BY <1>5 DEF ReconcileShadows, VectorsSafe, Served
<1>6. CASE UNCHANGED vars
  BY <1>6, PointsKept DEF vars
<1> QED
  BY <1>1, <1>2, <1>3, <1>4, <1>5, <1>6 DEF Next, CleanUp

(* No step takes the vector of a chunk that is still served: distill,      *)
(* delete_page and soft_delete drop vectors only after the commit that     *)
(* retired the rows, the clean-up only those of deleted rows.              *)
THEOREM VectorsOnlyOfRetired == Spec => LiveVectorsKept
<1>1. Inductive /\ [Next]_vars => [VectorsSafe]_vars
  BY StepSafe
<1> QED
  BY <1>1, WikiInvariant, PTL DEF Spec, LiveVectorsKept, VectorsSafe

-----------------------------------------------------------------------------
(* The index of a published page.                                          *)

PageOf(s) == shadow[s].page

\* A row of the index belongs to a page; a row that is not there has no chunk.
ShadowsHavePages ==
    \A s \in Shadow : IF shadow[s].doc = "absent" THEN shadow[s].chunk = "absent" ELSE Existing(PageOf(s))
UniqueVersions == \A p \in Page : \A v, w \in revision[p] : v.version = w.version => v = w

\* What the open transaction of a request, with state x, has found of the index: an append all that
\* serves its page, a delete only rows whose page goes with them.
IndexFits(x) ==
    /\ x.pc = "retire" => LiveShadows(x.page) \subseteq x.seen
    /\ x.pc \in {"retire", "pageRetire"} => \A s \in x.seen : PageOf(s) = x.page
    /\ x.pc = "pageRow" => \A s \in x.chunks \cup x.docs : s \in KeptShadows /\ PageOf(s) = x.page
    /\ x.pc \in {"start", "chunks", "docs"} => x.seen \cup x.chunks \subseteq KeptShadows
    /\ x.pc = "pages" => \A s \in x.chunks \cup x.docs :
                             s \in KeptShadows /\ (PageLive(PageOf(s)) => PageOf(s) \in x.seen)
RequestsIndex == \A r \in Request : IndexFits(req[r])

Publication == ShadowsHavePages /\ UniqueVersions /\ RequestsIndex /\ PublishedIsIndexed

LEMMA PublicationInit ==
  ASSUME Init
  PROVE  Publication
<1>1. RequestsIndex
  <2>1. \A r \in Request : req[r] = NoRequest
    BY DEF Init
  <2> QED
    BY <2>1 DEF RequestsIndex, IndexFits, NoRequest
<1>2. CASE Empty
  BY <1>1, <1>2 DEF Publication, Empty, ShadowsHavePages, UniqueVersions, PublishedIsIndexed, PageLive
<1>3. CASE OnePage
  <2> DEFINE p == CHOOSE x \in Page : TRUE
             s == CHOOSE x \in Shadow : TRUE
             v == [version |-> 1, content |-> {}]
  <2>1. PICK g \in Slug :
        /\ page = [x \in Page |-> IF x = p THEN [row |-> "live", slug |-> g, count |-> 1]
                                  ELSE [row |-> "absent", slug |-> NoSlug, count |-> 0]]
        /\ revision = [x \in Page |-> IF x = p THEN {v} ELSE {}]
        /\ shadow = [x \in Shadow |->
                        IF x = s THEN [page |-> p, content |-> {}, doc |-> "live", chunk |-> "live"]
                        ELSE [page |-> NoPage, content |-> {}, doc |-> "absent", chunk |-> "absent"]]
    BY <1>3 DEF OnePage
  <2>2. p \in Page /\ s \in Shadow /\ v.version = 1 /\ v.content = {}
    BY WikiAssumption DEF WikiAssumption
  <2> HIDE DEF p, s, v
  <2>3. ShadowsHavePages /\ UniqueVersions
    BY <2>1, <2>2 DEF ShadowsHavePages, UniqueVersions, Existing, PageOf
  <2>4. LatestContent(p) = {}
    <3>1. revision[p] = {v}
      BY <2>1, <2>2
    <3>2. Versions(p) = {1}
      BY <2>2, <3>1 DEF Versions
    <3>3. LatestVersion(p) = 1
      BY <3>1, <3>2 DEF LatestVersion
    <3> QED
      BY <2>2, <3>1, <3>3 DEF LatestContent
  <2>5. LiveShadows(p) = {s} /\ Served(s) /\ shadow[s].content = {}
    BY <2>1, <2>2 DEF LiveShadows, Served
  <2>6. \A q \in Page : PageLive(q) => q = p
    BY <2>1 DEF PageLive
  <2> QED
    BY <1>1, <2>2, <2>3, <2>4, <2>5, <2>6 DEF Publication, PublishedIsIndexed
<1> QED
  BY <1>2, <1>3 DEF Init

\* A step that writes no row of the index, of pages or of revisions.
LEMMA IndexUntouched ==
  ASSUME Inductive, Publication, NEW r \in Request, NEW x, req' = [req EXCEPT ![r] = x],
         UNCHANGED <<page, revision, shadow>>, IndexFits(x)
  PROVE  Publication'
<1>1. req \in [Request -> RequestState]
  BY DEF Inductive, WikiTypeOK
<1>2. ShadowsHavePages' /\ UniqueVersions'
  BY DEF Publication, ShadowsHavePages, UniqueVersions, Existing, PageOf
<1>3. PublishedIsIndexed'
  <2>1. ASSUME NEW p \in Page
        PROVE  /\ PageLive(p)' = PageLive(p) /\ LiveShadows(p)' = LiveShadows(p)
               /\ LatestContent(p)' = LatestContent(p)
    BY DEF PageLive, LiveShadows, LatestContent, LatestVersion, Versions
  <2>2. \A s \in Shadow : Served(s)' = Served(s) /\ shadow'[s].content = shadow[s].content
    BY DEF Served
  <2> QED
    BY <2>1, <2>2 DEF Publication, PublishedIsIndexed
<1>4. ASSUME NEW q \in Request
      PROVE  IndexFits(req[q])'
  <2>1. IndexFits(req'[q])
    BY <1>1 DEF Publication, RequestsIndex
  <2> QED
    BY <2>1 DEF IndexFits, LiveShadows, PageOf, PageLive, KeptShadows
<1> QED
  BY <1>2, <1>3, <1>4 DEF Publication, RequestsIndex

\* The rows a step takes out of the index are those of pages that are no longer live after it.
IndexRetires ==
    /\ \A s \in Shadow :
          /\ shadow'[s].page = shadow[s].page /\ shadow'[s].content = shadow[s].content
          /\ shadow'[s].doc = "absent" <=> shadow[s].doc = "absent"
          /\ shadow[s].chunk = "absent" => shadow'[s].chunk = "absent"
          /\ shadow'[s].doc = "live" => shadow[s].doc = "live"
          /\ shadow[s].doc = "live" /\ PageLive(PageOf(s))' =>
                 shadow'[s].doc = "live" /\ shadow'[s].chunk = shadow[s].chunk
    /\ \A p \in Page :
          /\ PageLive(p)' => PageLive(p) /\ revision'[p] = revision[p]
          /\ revision'[p] \subseteq revision[p]
          /\ page[p].row # "absent" => page'[p].row # "absent"

LEMMA RetiringKeeps ==
  ASSUME Inductive, Publication, IndexRetires,
         \A q \in Request : req'[q] = req[q] \/ req'[q].pc \in {"dropPage", "dropKb"}
  PROVE  Publication'
<1>1. ShadowsHavePages' /\ UniqueVersions'
  <2>1. ShadowsHavePages'
    BY DEF Publication, ShadowsHavePages, IndexRetires, Existing, PageOf
  <2>2. UniqueVersions'
    BY DEF Publication, UniqueVersions, IndexRetires
  <2> QED
    BY <2>1, <2>2
<1>2. ASSUME NEW q \in Request
      PROVE  IndexFits(req[q])'
  <2>1. CASE req'[q] = req[q]
    <3>1. IndexFits(req[q]) /\ \A p : LiveShadows(p)' \subseteq LiveShadows(p)
      BY DEF Publication, RequestsIndex, IndexRetires, LiveShadows
    <3>2. KeptShadows' = KeptShadows /\ \A s \in Shadow : PageOf(s)' = PageOf(s)
      BY DEF KeptShadows, IndexRetires, PageOf
    <3>3. req[q] \in RequestState /\ req[q].chunks \subseteq Shadow /\ req[q].docs \subseteq Shadow
      BY ReqFacts DEF RequestState
    <3>4. req[q].pc \in {"retire", "pageRetire"} => req[q].seen \subseteq Shadow
      BY ReqFacts DEF Fits, VectorsFit, KeptShadows
    <3>5. req[q].pc = "pages" => \A s \in req[q].chunks \cup req[q].docs :
                                     PageLive(PageOf(s))' => PageOf(s)' \in req[q].seen
      <4>1. ASSUME NEW s \in Shadow, s \in req[q].chunks \cup req[q].docs, req[q].pc = "pages",
                   PageLive(PageOf(s))'
            PROVE  PageOf(s) \in req[q].seen
        <5>1. s \in KeptShadows /\ (PageLive(PageOf(s)) => PageOf(s) \in req[q].seen)
          BY <3>1, <4>1 DEF IndexFits
        <5>2. PageOf(s)' = PageOf(s) /\ PageOf(s) \in Page
          BY <3>2, <5>1 DEF Publication, ShadowsHavePages, Existing, KeptShadows
        <5>3. PageLive(PageOf(s))
          BY <4>1, <5>2 DEF IndexRetires, PageLive
        <5> QED
          BY <5>1, <5>3
      <4> QED
        BY <3>2, <3>3, <4>1
    <3> QED
      BY <2>1, <3>1, <3>2, <3>3, <3>4, <3>5 DEF IndexFits
  <2>2. CASE req'[q].pc \in {"dropPage", "dropKb"}
    BY <2>2 DEF IndexFits
  <2> QED
    BY <2>1, <2>2
<1>3. PublishedIsIndexed'
  <2>1. ASSUME NEW p \in Page, PageLive(p)'
        PROVE  \E s \in Shadow : /\ LiveShadows(p)' = {s} /\ Served(s)'
                                 /\ shadow'[s].content = LatestContent(p)'
    <3>1. PageLive(p) /\ revision'[p] = revision[p]
      BY <2>1 DEF IndexRetires
    <3>2. PICK s \in Shadow : LiveShadows(p) = {s} /\ Served(s) /\ shadow[s].content = LatestContent(p)
      BY <3>1 DEF Publication, PublishedIsIndexed
    <3>3. LatestContent(p)' = LatestContent(p)
      BY <3>1 DEF LatestContent, LatestVersion, Versions
    <3>4. \A t \in LiveShadows(p) : shadow'[t].doc = "live" /\ shadow'[t].chunk = shadow[t].chunk
      <4>1. ASSUME NEW t \in Shadow, PageOf(t) = p, shadow[t].doc = "live"
            PROVE  shadow'[t].doc = "live" /\ shadow'[t].chunk = shadow[t].chunk
        <5>1. PageOf(t)' = p
          BY <4>1 DEF IndexRetires, PageOf
        <5>2. PageLive(PageOf(t))'
          BY <2>1, <5>1 DEF PageLive
        <5> QED
          BY <4>1, <5>2 DEF IndexRetires
      <4> QED
        BY <4>1 DEF LiveShadows, PageOf
    <3>5. LiveShadows(p)' = LiveShadows(p)
      BY <3>4 DEF LiveShadows, IndexRetires
    <3>6. Served(s)' /\ shadow'[s].content = shadow[s].content
      BY <3>2, <3>4 DEF Served, IndexRetires
    <3> QED
      BY <3>2, <3>3, <3>5, <3>6
  <2> QED
    BY <2>1 DEF PublishedIsIndexed
<1> QED
  BY <1>1, <1>2, <1>3 DEF Publication, RequestsIndex

LEMMA SoftDeletedIndex ==
  ASSUME WikiTypeOK, NEW chunks \in SUBSET Shadow, NEW docs \in SUBSET Shadow, NEW s \in Shadow,
         NEW t, t = SoftDeleted(chunks, docs)[s]
  PROVE  /\ t.page = shadow[s].page /\ t.content = shadow[s].content
         /\ t.doc = "absent" <=> shadow[s].doc = "absent"
         /\ shadow[s].chunk = "absent" => t.chunk = "absent"
         /\ t.doc = "live" <=> shadow[s].doc = "live" /\ s \notin docs
         /\ s \notin chunks => t.chunk = shadow[s].chunk
<1> DEFINE c == IF s \in chunks /\ shadow[s].chunk = "live" THEN "deleted" ELSE shadow[s].chunk
           d == IF s \in docs /\ shadow[s].doc = "live" THEN "deleted" ELSE shadow[s].doc
<1>1. t = [shadow[s] EXCEPT !.chunk = c, !.doc = d] /\ shadow[s] \in ShadowRow
  BY DEF SoftDeleted, WikiTypeOK
<1>2. t.chunk = c /\ t.doc = d /\ t.page = shadow[s].page /\ t.content = shadow[s].content
  <2> HIDE DEF c, d
  <2> QED
    BY <1>1 DEF ShadowRow
<1> QED
  BY <1>2

\* The commit of a delete: every row it retires is of a page it retires.
LEMMA DeleteCommitIndex ==
  ASSUME Inductive, Publication, NEW r \in Deleter, CommitPageDelete(r) \/ CommitKbDelete(r)
  PROVE  Publication'
<1>1. /\ r \in Request /\ WikiTypeOK /\ req[r] \in RequestState /\ IndexFits(req[r])
      /\ Fits(r, req[r])
  BY ReqFacts DEF Deleter, Request, Inductive, Publication, RequestsIndex
<1>2. PICK chunks \in SUBSET Shadow, docs \in SUBSET Shadow, P \in SUBSET Page :
        /\ shadow' = SoftDeleted(chunks, docs) /\ page' = PagesDeleted(P) /\ revision' = revision
        /\ \A s \in chunks \cup docs : PageOf(s) \in Page => ~PageLive(PageOf(s)) \/ PageOf(s) \in P
  <2>1. req[r].chunks \in SUBSET Shadow /\ req[r].docs \in SUBSET Shadow
    BY <1>1 DEF RequestState
  <2>2. CASE CommitPageDelete(r)
    <3>1. req[r].pc = "pageRow" /\ req[r].page \in Page
      BY <1>1, <2>2 DEF CommitPageDelete, At, Fits, VectorsFit
    <3>2. \A s \in req[r].chunks \cup req[r].docs : PageOf(s) \in {req[r].page}
      BY <1>1, <3>1 DEF IndexFits
    <3> QED
      BY <2>1, <2>2, <3>1, <3>2 DEF CommitPageDelete
  <2>3. CASE CommitKbDelete(r)
    <3>1. \A s \in req[r].chunks \cup req[r].docs : PageLive(PageOf(s)) => PageOf(s) \in req[r].seen
      BY <1>1, <2>3 DEF CommitKbDelete, At, IndexFits
    <3>2. PagesDeleted(req[r].seen) = PagesDeleted(req[r].seen \cap Page)
      BY DEF PagesDeleted
    <3> QED
      BY <2>1, <2>3, <3>1, <3>2 DEF CommitKbDelete
  <2> QED
    BY <2>2, <2>3
<1>3. \A p \in Page : /\ PageLive(p)' => PageLive(p) /\ p \notin P
                      /\ page[p].row # "absent" => page'[p].row # "absent"
  <2>1. ASSUME NEW p \in Page
        PROVE  page'[p].row = IF p \in P /\ page[p].row = "live" THEN "deleted" ELSE page[p].row
    <3>1. page[p] \in PageRow
      BY <1>1 DEF WikiTypeOK
    <3> QED
      BY <1>2, <3>1 DEF PagesDeleted, PageRow
  <2> QED
    BY <2>1 DEF PageLive
<1>4. ASSUME NEW s \in Shadow
      PROVE  /\ shadow'[s].page = shadow[s].page /\ shadow'[s].content = shadow[s].content
             /\ shadow'[s].doc = "absent" <=> shadow[s].doc = "absent"
             /\ shadow[s].chunk = "absent" => shadow'[s].chunk = "absent"
             /\ shadow'[s].doc = "live" => shadow[s].doc = "live"
             /\ shadow[s].doc = "live" /\ PageLive(PageOf(s))' =>
                    shadow'[s].doc = "live" /\ shadow'[s].chunk = shadow[s].chunk
  <2>1. /\ shadow'[s].page = shadow[s].page /\ shadow'[s].content = shadow[s].content
        /\ shadow'[s].doc = "absent" <=> shadow[s].doc = "absent"
        /\ shadow[s].chunk = "absent" => shadow'[s].chunk = "absent"
        /\ shadow'[s].doc = "live" <=> shadow[s].doc = "live" /\ s \notin docs
        /\ s \notin chunks => shadow'[s].chunk = shadow[s].chunk
    BY <1>1, <1>2, SoftDeletedIndex
  <2>2. ASSUME shadow[s].doc = "live", PageLive(PageOf(s))'
        PROVE  s \notin chunks \cup docs
    <3>1. PageOf(s) \in Page
      BY <2>2 DEF Publication, ShadowsHavePages, Existing
    <3>2. PageOf(s)' = PageOf(s)
      BY <2>1 DEF PageOf
    <3>3. PageLive(PageOf(s)) /\ PageOf(s) \notin P
      BY <1>3, <2>2, <3>1, <3>2 DEF PageLive
    <3> QED
      BY <1>2, <3>1, <3>3
  <2> QED
    BY <2>1, <2>2
<1>5. IndexRetires
  BY <1>2, <1>3, <1>4 DEF IndexRetires
<1>6. \A q \in Request : req'[q] = req[q] \/ req'[q].pc \in {"dropPage", "dropKb"}
  <2>1. req \in [Request -> RequestState]
    BY <1>1 DEF WikiTypeOK
  <2>2. PICK pc \in {"dropPage", "dropKb"} : \E p, old : AfterCommit(r, pc, p, old, {})
    BY DEF CommitPageDelete, CommitKbDelete
  <2>3. PICK p, old : AfterCommit(r, pc, p, old, {})
    BY <2>2
  <2>4. req'[r].pc = pc /\ \A q \in Request \ {r} : req'[q] = req[q]
    BY <1>1, <2>1, <2>3 DEF AfterCommit, NoRequest
  <2> QED
    BY <2>4
<1> QED
  BY <1>5, <1>6, RetiringKeeps

LEMMA CleanUpIndex ==
  ASSUME Inductive, Publication, CleanUp
  PROVE  Publication'
<1>1. WikiTypeOK /\ UNCHANGED req
  BY DEF Inductive, CleanUp, PurgeShadow, PurgePage, ReconcileShadows
<1>2. ASSUME NEW s \in Shadow, PurgeShadow(s)
      PROVE  IndexRetires
  <2>1. PICK w \in ShadowRow :
          /\ shadow' = [shadow EXCEPT ![s] = w]
          /\ w.page = shadow[s].page /\ w.content = shadow[s].content
          /\ w.chunk = "purged" /\ w.doc = IF shadow[s].doc = "deleted" THEN "purged" ELSE shadow[s].doc
    <3> DEFINE d == IF shadow[s].doc = "deleted" THEN "purged" ELSE shadow[s].doc
               w == [shadow[s] EXCEPT !.chunk = "purged", !.doc = d]
    <3>1. shadow[s] \in ShadowRow
      BY <1>1 DEF WikiTypeOK
    <3>2. d \in Row
      BY <3>1 DEF ShadowRow, Row
    <3>3. shadow' = [shadow EXCEPT ![s] = w]
      BY <1>2 DEF PurgeShadow
    <3> HIDE DEF d
    <3>4. /\ w \in ShadowRow /\ w.page = shadow[s].page /\ w.content = shadow[s].content
          /\ w.chunk = "purged" /\ w.doc = d
      BY <3>1, <3>2 DEF ShadowRow, Row
    <3> HIDE DEF w
    <3> QED
      BY <3>3, <3>4 DEF d
  <2>2. shadow[s].chunk = "deleted" /\ page' = page /\ revision' = revision
    BY <1>2 DEF PurgeShadow
  <2>3. shadow[s].doc = "live" => ~PageLive(PageOf(s))
    BY <2>2 DEF Publication, PublishedIsIndexed, ShadowsHavePages, Existing, LiveShadows, Served, PageOf
  <2>4. shadow'[s] = w /\ \A t \in Shadow \ {s} : shadow'[t] = shadow[t]
    BY <1>1, <2>1 DEF WikiTypeOK
  <2>5. \A t \in Shadow : PageLive(PageOf(t))' = PageLive(PageOf(t))
    BY <2>1, <2>2, <2>4 DEF PageLive, PageOf
  <2>6. \A p \in Page : PageLive(p)' = PageLive(p)
    BY <2>2 DEF PageLive
  <2>7. ASSUME NEW t \in Shadow
        PROVE  /\ shadow'[t].page = shadow[t].page /\ shadow'[t].content = shadow[t].content
               /\ shadow'[t].doc = "absent" <=> shadow[t].doc = "absent"
               /\ shadow[t].chunk = "absent" => shadow'[t].chunk = "absent"
               /\ shadow'[t].doc = "live" => shadow[t].doc = "live"
               /\ shadow[t].doc = "live" /\ PageLive(PageOf(t))' =>
                      shadow'[t].doc = "live" /\ shadow'[t].chunk = shadow[t].chunk
    BY <2>1, <2>2, <2>3, <2>4, <2>5
  <2> QED
    BY <2>2, <2>6, <2>7 DEF IndexRetires
<1>3. ASSUME NEW p \in Page, PurgePage(p)
      PROVE  IndexRetires
  <2>1. /\ shadow' = shadow /\ page[p].row = "deleted" /\ page'[p].row = "purged" /\ revision'[p] = {}
        /\ \A q \in Page \ {p} : page'[q] = page[q] /\ revision'[q] = revision[q]
    BY <1>1, <1>3 DEF PurgePage, WikiTypeOK, PageRow
  <2>2. ASSUME NEW q \in Page
        PROVE  /\ PageLive(q)' => PageLive(q) /\ revision'[q] = revision[q]
               /\ revision'[q] \subseteq revision[q]
               /\ page[q].row # "absent" => page'[q].row # "absent"
    <3>1. CASE q = p
      BY <2>1, <3>1 DEF PageLive
    <3>2. CASE q # p
      BY <2>1, <3>2 DEF PageLive
    <3> QED
      BY <3>1, <3>2
  <2>3. ASSUME NEW s \in Shadow
        PROVE  /\ shadow'[s].page = shadow[s].page /\ shadow'[s].content = shadow[s].content
               /\ shadow'[s].doc = shadow[s].doc /\ shadow'[s].chunk = shadow[s].chunk
    BY <2>1
  <2> QED
    BY <2>2, <2>3 DEF IndexRetires
<1>4. ASSUME ReconcileShadows
      PROVE  IndexRetires
  BY <1>4 DEF ReconcileShadows, IndexRetires, PageLive
<1> QED
  BY <1>1, <1>2, <1>3, <1>4, RetiringKeeps DEF CleanUp

\* A revision of page p becomes the latest, s becomes the row that serves it, and the row that did
\* is retired; no open append of p has found its rows yet.
Publishes(p, s, v) ==
    /\ shadow[s].doc = "absent"
    /\ shadow'[s] = [page |-> p, content |-> v.content, doc |-> "live", chunk |-> "live"]
    /\ \A t \in Shadow \ {s} :
          /\ shadow'[t].page = shadow[t].page
          /\ shadow'[t].doc = "absent" <=> shadow[t].doc = "absent"
          /\ shadow[t].chunk = "absent" => shadow'[t].chunk = "absent"
          /\ shadow[t].page = p /\ shadow[t].doc # "absent" => shadow'[t].doc # "live"
          /\ shadow[t].page # p => shadow'[t] = shadow[t]
    /\ \A q \in Page : /\ page[q].row # "absent" => page'[q].row = page[q].row
                       /\ q # p => page'[q] = page[q] /\ revision'[q] = revision[q]
    /\ page'[p].row # "absent"
    /\ v \in revision'[p] /\ \A w \in revision'[p] \ {v} : w \in revision[p] /\ w.version # v.version
    /\ PageStored(p)' => v.version = page'[p].count
    /\ \A q \in Request : req'[q].pc = "retire" => req'[q].page # p

LEMMA PublishingKeeps ==
  ASSUME Inductive, Inductive', Publication, NEW p \in Page, NEW s \in Shadow, NEW v \in RevisionRow,
         Publishes(p, s, v),
         \A q \in Request : req'[q] = req[q] \/ req'[q].pc = "drop"
  PROVE  Publication'
<1>1. /\ WikiTypeOK /\ WikiTypeOK' /\ HistoryDense' /\ FiniteHistory'
      /\ \A q \in Page : PageStored(q)' => page'[q].count \in Nat
  BY DEF Inductive, WikiTypeOK, PageRow
<1>2. /\ shadow'[s].page = p /\ shadow'[s].content = v.content
      /\ shadow'[s].doc = "live" /\ shadow'[s].chunk = "live"
  BY DEF Publishes
<1>3. ShadowsHavePages'
  <2>1. ASSUME NEW t \in Shadow \ {s}
        PROVE  IF shadow'[t].doc = "absent" THEN shadow'[t].chunk = "absent" ELSE Existing(PageOf(t))'
    <3>1. /\ shadow'[t].page = shadow[t].page /\ (shadow'[t].doc = "absent" <=> shadow[t].doc = "absent")
          /\ shadow[t].chunk = "absent" => shadow'[t].chunk = "absent"
      BY <2>1 DEF Publishes
    <3>2. IF shadow[t].doc = "absent" THEN shadow[t].chunk = "absent" ELSE Existing(shadow[t].page)
      BY DEF Publication, ShadowsHavePages, PageOf
    <3>3. \A q \in Page : page[q].row # "absent" => page'[q].row # "absent"
      BY DEF Publishes
    <3> QED
      BY <3>1, <3>2, <3>3 DEF Existing, PageOf
  <2>2. Existing(PageOf(s))'
    BY <1>2 DEF Existing, PageOf, Publishes
  <2> QED
    BY <1>2, <2>1, <2>2 DEF ShadowsHavePages
<1>4. UniqueVersions'
  <2>1. ASSUME NEW q \in Page, NEW u \in revision'[q], NEW w \in revision'[q], u.version = w.version
        PROVE  u = w
    <3>1. CASE q = p
      BY <2>1, <3>1 DEF Publishes, Publication, UniqueVersions
    <3>2. CASE q # p
      BY <2>1, <3>2 DEF Publishes, Publication, UniqueVersions
    <3> QED
      BY <3>1, <3>2
  <2> QED
    BY <2>1 DEF UniqueVersions
<1>5. ASSUME NEW q \in Request
      PROVE  IndexFits(req[q])'
  <2>1. CASE req'[q] = req[q]
    <3>1. IndexFits(req[q]) /\ Fits(q, req[q]) /\ req[q] \in RequestState
      BY ReqFacts DEF Publication, RequestsIndex
    <3>2. \A t \in KeptShadows : t \in Shadow \ {s} /\ PageOf(t)' = PageOf(t) /\ t \in KeptShadows'
      BY DEF KeptShadows, Publishes, PageOf
    <3>3. req[q].pc = "retire" => LiveShadows(req[q].page)' \subseteq LiveShadows(req[q].page)
      <4>1. ASSUME req[q].pc = "retire", NEW t \in Shadow, shadow'[t].page = req[q].page, shadow'[t].doc = "live"
            PROVE  shadow[t].page = req[q].page /\ shadow[t].doc = "live"
        <5>1. req[q].page # p
          BY <2>1, <4>1 DEF Publishes
        <5>2. t # s
          BY <1>2, <4>1, <5>1
        <5> QED
          BY <4>1, <5>1, <5>2 DEF Publishes
      <4> QED
        BY <2>1, <4>1 DEF LiveShadows
    <3>4. req[q].pc \in {"retire", "pageRetire"} => req[q].seen \subseteq KeptShadows
      BY <3>1 DEF Fits, VectorsFit
    <3>5. req[q].pc = "pageRow" => req[q].chunks \cup req[q].docs \subseteq KeptShadows
      BY <3>1 DEF IndexFits
    <3>6. req[q].pc = "pages" => \A t \in req[q].chunks \cup req[q].docs :
                                     PageLive(PageOf(t))' => PageLive(PageOf(t))
      <4>1. ASSUME NEW t \in KeptShadows
            PROVE  PageLive(PageOf(t))' => PageLive(PageOf(t))
        <5>1. Existing(PageOf(t)) /\ PageOf(t)' = PageOf(t)
          BY <3>2 DEF Publication, ShadowsHavePages, KeptShadows
        <5>2. \A x \in Page : page[x].row # "absent" => page'[x].row = page[x].row
          BY DEF Publishes
        <5> QED
          BY <5>1, <5>2 DEF Existing, PageLive
      <4> QED
        BY <3>1, <4>1 DEF IndexFits
    <3> QED
      BY <2>1, <3>1, <3>2, <3>3, <3>4, <3>5, <3>6 DEF IndexFits
  <2>2. CASE req'[q].pc = "drop"
    BY <2>2 DEF IndexFits
  <2> QED
    BY <2>1, <2>2
<1>6. PublishedIsIndexed'
  <2>1. ASSUME PageLive(p)'
        PROVE  LiveShadows(p)' = {s} /\ Served(s)' /\ shadow'[s].content = LatestContent(p)'
    <3>1. LiveShadows(p)' = {s} /\ Served(s)'
      BY <1>2 DEF LiveShadows, Served, Publishes
    <3>2. PageStored(p)' /\ v \in revision'[p] /\ v.version = page'[p].count
      BY <2>1 DEF Publishes, PageLive, PageStored
    <3>3. \A w \in revision'[p] : w.version = v.version => w = v
      BY DEF Publishes
    <3>4. LatestVersion(p)' = v.version
      <4>1. Versions(p)' = 1..page'[p].count /\ page'[p].count \in Nat /\ v.version \in Versions(p)'
        BY <1>1, <3>2 DEF HistoryDense, Versions
      <4>2. \A n \in Versions(p)' : (\A m \in Versions(p)' : m <= n) <=> n = v.version
        BY <3>2, <4>1
      <4> QED
        BY <3>2, <4>1, <4>2 DEF LatestVersion
    <3>5. LatestContent(p)' = v.content
      BY <3>2, <3>3, <3>4 DEF LatestContent
    <3> QED
      BY <1>2, <3>1, <3>5
  <2>2. ASSUME NEW q \in Page, q # p, PageLive(q)'
        PROVE  \E t \in Shadow : /\ LiveShadows(q)' = {t} /\ Served(t)'
                                 /\ shadow'[t].content = LatestContent(q)'
    <3>1. PageLive(q) /\ revision'[q] = revision[q]
      BY <2>2 DEF Publishes, PageLive
    <3>2. PICK t \in Shadow : LiveShadows(q) = {t} /\ Served(t) /\ shadow[t].content = LatestContent(q)
      BY <3>1 DEF Publication, PublishedIsIndexed
    <3>3. LatestContent(q)' = LatestContent(q)
      BY <3>1 DEF LatestContent, LatestVersion, Versions
    <3>4. \A x \in Shadow \ {s} : (shadow'[x].page = q <=> shadow[x].page = q)
                                  /\ (shadow[x].page = q => shadow'[x] = shadow[x])
      BY <2>2 DEF Publishes
    <3>5. s \notin LiveShadows(q) /\ s \notin LiveShadows(q)'
      BY <1>2, <2>2 DEF LiveShadows, Publishes
    <3>6. LiveShadows(q)' = LiveShadows(q)
      BY <3>4, <3>5 DEF LiveShadows
    <3>7. shadow'[t] = shadow[t]
      BY <3>2, <3>4, <3>5 DEF LiveShadows
    <3> QED
      BY <3>2, <3>3, <3>6, <3>7 DEF Served
  <2> QED
    BY <2>1, <2>2 DEF PublishedIsIndexed
<1> QED
  BY <1>3, <1>4, <1>5, <1>6 DEF Publication, RequestsIndex

LEMMA CommitAppendIndex ==
  ASSUME Inductive, Publication, NEW r \in Distiller, CommitAppend(r)
  PROVE  Publication'
<1>1. /\ r \in Request /\ WikiTypeOK /\ req[r] \in RequestState /\ Fits(r, req[r])
      /\ req[r].pc = "retire" /\ IndexFits(req[r])
  BY ReqFacts DEF Request, Inductive, CommitAppend, At, Publication, RequestsIndex
<1>2. PICK p \in Page, old \in SUBSET Shadow, n \in Nat, c \in SUBSET Distiller :
        /\ p = req[r].page /\ old = req[r].seen /\ req[r].version = n + 1 /\ c = req[r].content
        /\ n = page[p].count /\ PageStored(p)
        /\ LiveShadows(p) \subseteq old /\ \A t \in old : shadow[t].page = p
  <2>1. /\ Existing(req[r].page) /\ PageStored(req[r].page)
        /\ req[r].version = page[req[r].page].count + 1 /\ req[r].seen \subseteq KeptShadows
    BY <1>1 DEF Fits, AppendFits, VectorsFit, Appending
  <2>2. /\ page[req[r].page].count \in Nat /\ req[r].page \in Page /\ req[r].content \in SUBSET Distiller
        /\ req[r].seen \in SUBSET Shadow
    BY <1>1, <2>1 DEF Existing, WikiTypeOK, PageRow, RequestState, KeptShadows
  <2>3. LiveShadows(req[r].page) \subseteq req[r].seen /\ \A t \in req[r].seen : shadow[t].page = req[r].page
    BY <1>1 DEF IndexFits, PageOf
  <2> QED
    BY <2>1, <2>2, <2>3
<1>3. PICK s \in Shadow :
        /\ shadow[s].doc = "absent"
        /\ shadow' = [SoftDeleted(old, old) EXCEPT ![s] = [page |-> p, content |-> c, doc |-> "live", chunk |-> "live"]]
        /\ AfterCommit(r, "drop", p, old, {s})
  BY <1>2 DEF CommitAppend, FreshShadows, NewShadow, AfterCommit
<1>4. PICK v \in RevisionRow : v = [version |-> n + 1, content |-> c]
  <2>1. n + 1 \in Nat \ {0}
    OBVIOUS
  <2> QED
    BY <2>1 DEF RevisionRow
<1>5. /\ v.version = n + 1 /\ v.content = c
      /\ revision' = [revision EXCEPT ![p] = @ \cup {v}]
      /\ page' = [page EXCEPT ![p].count = n + 1]
  BY <1>2, <1>4 DEF CommitAppend
<1>6. /\ \A q \in Page \ {p} : page'[q] = page[q] /\ revision'[q] = revision[q]
      /\ revision'[p] = revision[p] \cup {v} /\ page'[p].row = page[p].row /\ page'[p].count = n + 1
  BY <1>1, <1>5 DEF WikiTypeOK, PageRow
<1>7. ASSUME NEW t \in Shadow \ {s}
      PROVE  /\ shadow'[t].page = shadow[t].page
             /\ shadow'[t].doc = "absent" <=> shadow[t].doc = "absent"
             /\ shadow[t].chunk = "absent" => shadow'[t].chunk = "absent"
             /\ shadow[t].page = p /\ shadow[t].doc # "absent" => shadow'[t].doc # "live"
             /\ shadow[t].page # p => shadow'[t] = shadow[t]
  <2>1. shadow'[t] = SoftDeleted(old, old)[t]
    BY <1>1, <1>3, SoftDeletedFacts
  <2>2. /\ shadow'[t].page = shadow[t].page
        /\ shadow'[t].doc = "absent" <=> shadow[t].doc = "absent"
        /\ shadow[t].chunk = "absent" => shadow'[t].chunk = "absent"
        /\ shadow'[t].doc = "live" <=> shadow[t].doc = "live" /\ t \notin old
    BY <1>1, <2>1, SoftDeletedIndex
  <2>3. shadow[t].page = p /\ shadow[t].doc = "live" => t \in old
    BY <1>2 DEF LiveShadows
  <2>4. ASSUME shadow[t].page # p
        PROVE  shadow'[t] = shadow[t]
    <3>1. t \notin old /\ shadow[t] \in ShadowRow
      BY <1>1, <1>2, <2>4 DEF WikiTypeOK
    <3>2. shadow'[t] = [shadow[t] EXCEPT !.chunk = shadow[t].chunk, !.doc = shadow[t].doc]
      BY <2>1, <3>1 DEF SoftDeleted
    <3> QED
      BY <3>1, <3>2 DEF ShadowRow
  <2> QED
    BY <2>2, <2>3, <2>4
<1>8. shadow'[s] = [page |-> p, content |-> v.content, doc |-> "live", chunk |-> "live"]
  BY <1>1, <1>3, <1>5, SoftDeletedFacts
<1>9. \A w \in revision'[p] \ {v} : w \in revision[p] /\ w.version # v.version
  <2>1. \A w \in revision[p] : w.version \in 1..n
    BY <1>2 DEF Inductive, HistoryDense, Versions
  <2> QED
    BY <1>5, <1>6, <2>1
<1>10. req'[r].pc = "drop" /\ \A q \in Request \ {r} : req'[q] = req[q]
  BY <1>1, <1>3 DEF AfterCommit, WikiTypeOK, NoRequest
<1>11. \A q \in Request : req'[q].pc = "retire" => req'[q].page # p
  BY <1>1, <1>2, <1>10 DEF Inductive, OneInserting, Inserting
<1>12. page[p].row # "absent"
  BY <1>2 DEF PageStored
<1>13. Publishes(p, s, v)
  <2>1. v \in revision'[p] /\ page'[p].row # "absent" /\ v.version = page'[p].count
    BY <1>5, <1>6, <1>12
  <2>2. \A q \in Page : /\ page[q].row # "absent" => page'[q].row = page[q].row
                        /\ q # p => page'[q] = page[q] /\ revision'[q] = revision[q]
    BY <1>6
  <2> QED
    BY <1>3, <1>7, <1>8, <1>9, <1>11, <2>1, <2>2 DEF Publishes
<1> QED
  BY <1>10, <1>13, CommitAppendKeeps, PublishingKeeps

LEMMA FinishedState ==
  ASSUME NEW r, NEW result, Finish(r, result)
  PROVE  \E x : req' = [req EXCEPT ![r] = x] /\ x.pc = "done"
<1> DEFINE m == IF result = "ok" THEN req[r].page ELSE NoPage
           x == [NoRequest EXCEPT !.pc = "done", !.result = result, !.page = m]
<1>1. req' = [req EXCEPT ![r] = x]
  BY DEF Finish
<1> HIDE DEF m
<1>2. x.pc = "done"
  BY DEF NoRequest
<1> HIDE DEF x
<1> QED
  BY <1>1, <1>2

LEMMA CreatePageIndex ==
  ASSUME Inductive, Publication, NEW r \in Distiller, CreatePage(r)
  PROVE  Publication'
<1>1. /\ r \in Request /\ WikiTypeOK /\ req[r] \in RequestState /\ req[r].content \in SUBSET Distiller
      /\ req[r].slug \in Slug \cup {NoSlug}
  BY ReqFacts DEF Request, Inductive, RequestState
<1>2. CASE Finish(r, "error") /\ UNCHANGED <<page, revision, shadow>>
  <2>1. PICK x : req' = [req EXCEPT ![r] = x] /\ x.pc = "done"
    BY <1>2, FinishedState
  <2>2. IndexFits(x)
    BY <2>1 DEF IndexFits
  <2> QED
    BY <1>1, <1>2, <2>1, <2>2, IndexUntouched
<1>3. CASE ~(Finish(r, "error") /\ UNCHANGED <<page, revision, shadow>>)
  <2>1. PICK p \in Page, s \in Shadow, c \in SUBSET Distiller, g \in Slug \cup {NoSlug} :
          /\ page[p].row = "absent" /\ shadow[s].doc = "absent"
          /\ page' = [page EXCEPT ![p] = [row |-> "live", slug |-> g, count |-> 1]]
          /\ revision' = [revision EXCEPT ![p] = {[version |-> 1, content |-> c]}]
          /\ shadow' = [shadow EXCEPT ![s] = [page |-> p, content |-> c, doc |-> "live", chunk |-> "live"]]
          /\ AfterCommit(r, "drop", p, {}, {s})
    <3> DEFINE p == CHOOSE x \in FreshPages : TRUE
               s == CHOOSE x \in FreshShadows : TRUE
    <3>1. /\ FreshPages # {} /\ FreshShadows # {}
          /\ page' = [page EXCEPT ![p] = [row |-> "live", slug |-> req[r].slug, count |-> 1]]
          /\ revision' = [revision EXCEPT ![p] = {[version |-> 1, content |-> req[r].content]}]
          /\ shadow' = [shadow EXCEPT ![s] = NewShadow(r, p)]
          /\ AfterCommit(r, "drop", p, {}, {s})
      BY <1>3 DEF CreatePage
    <3>2. p \in FreshPages /\ s \in FreshShadows
      BY <3>1
    <3> HIDE DEF p, s
    <3>3. p \in Page /\ page[p].row = "absent" /\ s \in Shadow /\ shadow[s].doc = "absent"
      BY <3>2 DEF FreshPages, FreshShadows
    <3> QED
      BY <1>1, <3>1, <3>3 DEF NewShadow
  <2>2. PICK v \in RevisionRow : v = [version |-> 1, content |-> c]
    <3>1. 1 \in Nat \ {0}
      OBVIOUS
    <3> QED
      BY <3>1 DEF RevisionRow
  <2>3. /\ \A q \in Page \ {p} : page'[q] = page[q] /\ revision'[q] = revision[q]
        /\ revision'[p] = {v} /\ page'[p].row = "live" /\ page'[p].count = 1
        /\ v.version = 1 /\ v.content = c
    BY <1>1, <2>1, <2>2 DEF WikiTypeOK
  <2>4. /\ shadow'[s] = [page |-> p, content |-> c, doc |-> "live", chunk |-> "live"]
        /\ \A t \in Shadow \ {s} : shadow'[t] = shadow[t]
    BY <1>1, <2>1 DEF WikiTypeOK
  <2>5. \A t \in Shadow : shadow[t].doc # "absent" => shadow[t].page # p
    BY <2>1 DEF Publication, ShadowsHavePages, Existing, PageOf
  <2>6. req'[r].pc = "drop" /\ \A q \in Request \ {r} : req'[q] = req[q]
    BY <1>1, <2>1 DEF AfterCommit, WikiTypeOK, NoRequest
  <2>7. ASSUME NEW q \in Request, req'[q].pc = "retire"
        PROVE  req'[q].page # p
    <3>1. req'[q] = req[q] /\ Existing(req[q].page)
      BY <2>6, <2>7, ReqFacts DEF Fits, AppendFits, Appending
    <3> QED
      BY <2>1, <3>1 DEF Existing
  <2>8. Publishes(p, s, v)
    BY <2>1, <2>3, <2>4, <2>5, <2>7 DEF Publishes
  <2> QED
    BY <2>6, <2>8, CreatePageKeeps, PublishingKeeps
<1> QED
  BY <1>2, <1>3

-----------------------------------------------------------------------------
\* A request that only reads, or only drops vectors.
LEMMA ReadingIndex ==
  ASSUME Inductive, Publication, NEW r \in Request,
         \/ r \in Distiller /\ DistillStep(r) /\ ~CommitAppend(r) /\ ~CreatePage(r)
         \/ r \in PageDelete /\ PageDeleteStep(r) /\ ~CommitPageDelete(r)
         \/ r \in KbDelete /\ KbDeleteStep(r) /\ ~CommitKbDelete(r)
         \/ DeadlockAbort(r) \/ Crash(r)
  PROVE  Publication'
<1>1. UNCHANGED <<page, revision, shadow>>
  BY DEF DistillStep, PageDeleteStep, KbDeleteStep, DeadlockAbort, Crash, ReadOnly, storeVars, Extract, Lookup,
         MergeAndCheck, NextVersion, InsertRevision, Touch, DropVectors, UpsertVector, LoadPage,
         RetirePageShadow, DropPageVectors, GetKb, DeleteChunks, DeleteDocs, DropKbVectors
<1>2. req[r] \in RequestState /\ IndexFits(req[r]) /\ Fits(r, req[r])
  BY ReqFacts DEF Publication, RequestsIndex
<1>3. ASSUME NEW x, req' = [req EXCEPT ![r] = x], IndexFits(x)
      PROVE  Publication'
  BY <1>1, <1>3, IndexUntouched
<1>4. ASSUME NEW x, req' = [req EXCEPT ![r] = x],
             x.pc \in {"lookup", "create", "check", "number", "insert", "touch", "upsert", "done"}
      PROVE  Publication'
  BY <1>3, <1>4 DEF IndexFits
<1>5. ASSUME NEW result, Finish(r, result)
      PROVE  Publication'
  BY <1>4, <1>5, FinishedState
<1>6. req \in [Request -> RequestState]
  BY DEF Inductive, WikiTypeOK
<1>7. CASE r \in Distiller /\ DistillStep(r) /\ ~CommitAppend(r) /\ ~CreatePage(r)
  <2> DEFINE Moved(pc) == \E x : req' = [req EXCEPT ![r] = x] /\ x.pc = pc
  <2>1. ASSUME Extract(r) PROVE Moved("lookup") \/ Finish(r, "error")
    <3>1. ASSUME NEW g \in Slug, req' = [req EXCEPT ![r].pc = "lookup", ![r].slug = g]
          PROVE  Moved("lookup")
      <4>1. /\ req' = [req EXCEPT ![r] = [req[r] EXCEPT !.pc = "lookup", !.slug = g]]
            /\ [req[r] EXCEPT !.pc = "lookup", !.slug = g].pc = "lookup"
        BY <1>2, <1>6, <3>1 DEF RequestState
      <4> QED
        BY <4>1
    <3> QED
      BY <2>1, <3>1 DEF Extract
  <2>2. ASSUME Lookup(r) PROVE Moved("create") \/ Moved("check")
    <3>1. ASSUME req' = [req EXCEPT ![r].pc = "create", ![r].content = {r}]
          PROVE  Moved("create")
      <4>1. /\ req' = [req EXCEPT ![r] = [req[r] EXCEPT !.pc = "create", !.content = {r}]]
            /\ [req[r] EXCEPT !.pc = "create", !.content = {r}].pc = "create"
        BY <1>2, <1>6, <3>1 DEF RequestState
      <4> QED
        BY <4>1
    <3>2. ASSUME NEW p, NEW b, NEW c, req' = [req EXCEPT ![r].pc = "check", ![r].page = p, ![r].base = b,
                                                         ![r].content = c]
          PROVE  Moved("check")
      <4>1. /\ req' = [req EXCEPT ![r] = [req[r] EXCEPT !.pc = "check", !.page = p, !.base = b, !.content = c]]
            /\ [req[r] EXCEPT !.pc = "check", !.page = p, !.base = b, !.content = c].pc = "check"
        BY <1>2, <1>6, <3>2 DEF RequestState
      <4> QED
        BY <4>1
    <3> QED
      BY <2>2, <3>1, <3>2 DEF Lookup
  <2>3. ASSUME MergeAndCheck(r) PROVE Moved("number") \/ Finish(r, "error")
    <3>1. ASSUME req' = [req EXCEPT ![r].pc = "number", ![r].content = @ \cup {r}]
          PROVE  Moved("number")
      <4>1. /\ req' = [req EXCEPT ![r] = [req[r] EXCEPT !.pc = "number", !.content = @ \cup {r}]]
            /\ [req[r] EXCEPT !.pc = "number", !.content = @ \cup {r}].pc = "number"
        BY <1>2, <1>6, <3>1 DEF RequestState
      <4> QED
        BY <4>1
    <3> QED
      BY <2>3, <3>1 DEF MergeAndCheck
  <2>4. ASSUME NextVersion(r) PROVE Moved("insert")
    <3>1. PICK n : req' = [req EXCEPT ![r].pc = "insert", ![r].version = n]
      BY <2>4 DEF NextVersion
    <3>2. /\ req' = [req EXCEPT ![r] = [req[r] EXCEPT !.pc = "insert", !.version = n]]
          /\ [req[r] EXCEPT !.pc = "insert", !.version = n].pc = "insert"
      BY <1>2, <1>6, <3>1 DEF RequestState
    <3> QED
      BY <3>2
  <2>5. ASSUME InsertRevision(r) PROVE Moved("touch") \/ Finish(r, "error")
    <3>1. [req[r] EXCEPT !.pc = "touch"].pc = "touch"
      BY <1>2 DEF RequestState
    <3> QED
      BY <2>5, <3>1 DEF InsertRevision
  <2>6. ASSUME DropVectors(r) \/ UpsertVector(r) PROVE Moved("upsert") \/ Finish(r, "ok")
    <3>1. [req[r] EXCEPT !.pc = "upsert"].pc = "upsert"
      BY <1>2 DEF RequestState
    <3> QED
      BY <2>6, <3>1 DEF DropVectors, UpsertVector
  <2>7. CASE Touch(r)
    <3> DEFINE x == [req[r] EXCEPT !.pc = "retire", !.pages = {req[r].page}, !.seen = LiveShadows(req[r].page)]
    <3>1. req' = [req EXCEPT ![r] = x]
      BY <2>7 DEF Touch
    <3>2. x.pc = "retire" /\ x.page = req[r].page /\ x.seen = LiveShadows(req[r].page)
      BY <1>2 DEF RequestState
    <3> HIDE DEF x
    <3>3. IndexFits(x)
      BY <3>2 DEF IndexFits, LiveShadows, PageOf
    <3> QED
      BY <1>3, <3>1, <3>3
  <2> QED
    BY <1>4, <1>5, <1>7, <2>1, <2>2, <2>3, <2>4, <2>5, <2>6, <2>7 DEF DistillStep
<1>8. CASE r \in PageDelete /\ PageDeleteStep(r) /\ ~CommitPageDelete(r)
  <2>1. CASE LoadPage(r)
    <3>1. ASSUME NEW p \in Page,
                 req' = [req EXCEPT ![r].pc = "pageRetire", ![r].page = p, ![r].seen = LiveShadows(p)]
          PROVE  Publication'
      <4> DEFINE x == [req[r] EXCEPT !.pc = "pageRetire", !.page = p, !.seen = LiveShadows(p)]
      <4>1. req' = [req EXCEPT ![r] = x]
        BY <3>1
      <4>2. x.pc = "pageRetire" /\ x.page = p /\ x.seen = LiveShadows(p)
        BY <1>2 DEF RequestState
      <4> HIDE DEF x
      <4>3. IndexFits(x)
        BY <4>2 DEF IndexFits, LiveShadows, PageOf
      <4> QED
        BY <1>3, <4>1, <4>3
    <3> QED
      BY <1>5, <2>1, <3>1 DEF LoadPage
  <2>2. CASE RetirePageShadow(r)
    <3> DEFINE x == [req[r] EXCEPT !.pc = "pageRow", !.chunks = req[r].seen, !.docs = req[r].seen]
    <3>1. req' = [req EXCEPT ![r] = x]
      BY <2>2 DEF RetirePageShadow
    <3>2. x.pc = "pageRow" /\ x.page = req[r].page /\ x.chunks = req[r].seen /\ x.docs = req[r].seen
      BY <1>2 DEF RequestState
    <3> HIDE DEF x
    <3>3. req[r].seen \subseteq KeptShadows /\ \A s \in req[r].seen : PageOf(s) = req[r].page
      BY <1>2, <2>2 DEF RetirePageShadow, At, Fits, VectorsFit, IndexFits
    <3>4. IndexFits(x)
      BY <3>2, <3>3 DEF IndexFits
    <3> QED
      BY <1>3, <3>1, <3>4
  <2>3. CASE DropPageVectors(r)
    BY <1>5, <2>3 DEF DropPageVectors
  <2> QED
    BY <1>8, <2>1, <2>2, <2>3 DEF PageDeleteStep
<1>9. CASE r \in KbDelete /\ KbDeleteStep(r) /\ ~CommitKbDelete(r)
  <2>1. LiveChunks \subseteq KeptShadows /\ LiveDocs \subseteq KeptShadows
    BY DEF LiveChunks, LiveDocs, KeptShadows, Publication, ShadowsHavePages
  <2>2. CASE GetKb(r)
    <3>1. ASSUME req' = [req EXCEPT ![r].pc = "chunks", ![r].seen = LiveChunks]
          PROVE  Publication'
      <4> DEFINE x == [req[r] EXCEPT !.pc = "chunks", !.seen = LiveChunks]
      <4>1. req' = [req EXCEPT ![r] = x]
        BY <3>1
      <4>2. x.pc = "chunks" /\ x.seen = LiveChunks /\ x.chunks = req[r].chunks
        BY <1>2 DEF RequestState
      <4> HIDE DEF x
      <4>3. req[r].chunks \subseteq KeptShadows
        BY <1>2, <2>2 DEF GetKb, At, IndexFits
      <4>4. IndexFits(x)
        BY <2>1, <4>2, <4>3 DEF IndexFits
      <4> QED
        BY <1>3, <4>1, <4>4
    <3> QED
      BY <1>5, <2>2, <3>1 DEF GetKb
  <2>3. CASE DeleteChunks(r)
    <3> DEFINE x == [req[r] EXCEPT !.pc = "docs", !.chunks = req[r].seen \cap LiveChunks, !.seen = LiveDocs]
    <3>1. req' = [req EXCEPT ![r] = x]
      BY <2>3 DEF DeleteChunks
    <3>2. x.pc = "docs" /\ x.chunks = req[r].seen \cap LiveChunks /\ x.seen = LiveDocs
      BY <1>2 DEF RequestState
    <3> HIDE DEF x
    <3>3. IndexFits(x)
      BY <2>1, <3>2 DEF IndexFits
    <3> QED
      BY <1>3, <3>1, <3>3
  <2>4. CASE DeleteDocs(r)
    <3> DEFINE live == {p \in Page : PageLive(p)}
               x == [req[r] EXCEPT !.pc = "pages", !.docs = req[r].seen \cap LiveDocs, !.seen = live]
    <3>1. req' = [req EXCEPT ![r] = x]
      BY <2>4 DEF DeleteDocs
    <3>2. /\ x.pc = "pages" /\ x.docs = req[r].seen \cap LiveDocs /\ x.seen = live
          /\ x.chunks = req[r].chunks
      BY <1>2 DEF RequestState
    <3> HIDE DEF x
    <3>3. x.chunks \cup x.docs \subseteq KeptShadows
      BY <1>2, <2>1, <2>4, <3>2 DEF DeleteDocs, At, IndexFits
    <3>4. \A s \in KeptShadows : PageOf(s) \in Page
      BY DEF KeptShadows, Publication, ShadowsHavePages, Existing
    <3>5. IndexFits(x)
      BY <3>2, <3>3, <3>4 DEF IndexFits
    <3> QED
      BY <1>3, <3>1, <3>5
  <2>5. CASE DropKbVectors(r)
    BY <1>5, <2>5 DEF DropKbVectors
  <2> QED
    BY <1>9, <2>2, <2>3, <2>4, <2>5 DEF KbDeleteStep
<1>10. CASE DeadlockAbort(r) \/ Crash(r)
  BY <1>5, <1>10 DEF DeadlockAbort, Crash
<1> QED
  BY <1>7, <1>8, <1>9, <1>10

LEMMA PublicationStep ==
  ASSUME Inductive, Publication, [Next]_vars
  PROVE  Publication'
<1>1. ASSUME NEW r \in Request, RequestStep(r) \/ Crash(r)
      PROVE  Publication'
  BY <1>1, ReadingIndex, CommitAppendIndex, CreatePageIndex, DeleteCommitIndex DEF RequestStep, Deleter
<1>2. CASE CleanUp
  BY <1>2, CleanUpIndex
<1>3. CASE UNCHANGED vars
  <2>1. IndexRetires
    BY <1>3 DEF vars, IndexRetires, PageLive
  <2> QED
    BY <1>3, <2>1, RetiringKeeps DEF vars
<1> QED
  BY <1>1, <1>2, <1>3 DEF Next

(* A live page is served by one live shadow row with the text of its       *)
(* latest revision: an append retires exactly the row it read under the    *)
(* page lock of touch(), and the deletes retire rows only with their page. *)
THEOREM PublishedAlwaysIndexed == Spec => []PublishedIsIndexed
<1>1. Init => Inductive /\ Publication
  BY WikiInit, PublicationInit
<1>2. Inductive /\ Publication /\ [Next]_vars => Inductive' /\ Publication'
  BY WikiStep, PublicationStep
<1>3. Publication => PublishedIsIndexed
  BY DEF Publication
<1> QED
  BY <1>1, <1>2, <1>3, PTL DEF Spec
=============================================================================
