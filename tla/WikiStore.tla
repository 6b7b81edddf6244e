------------------------------ MODULE WikiStore ------------------------------
(***************************************************************************)
(* The rows the wiki and the knowledge-base delete share: wiki_pages,      *)
(* wiki_revisions, the shadow document (one chunk) that indexes a page,    *)
(* and the Qdrant points; the open transaction of every request with the   *)
(* row locks it holds; and the physical clean-up.                          *)
(*                                                                         *)
(* The content of a revision is the set of answers it was merged from: an  *)
(* LLM that merges answer d into a page adds d and keeps the rest, and     *)
(* whatever it does not add it was not shown.                              *)
(***************************************************************************)
EXTENDS Naturals, FiniteSets

CONSTANTS
    Distiller,      \* distill requests, one per answer
    PageDelete,     \* requests that may delete a page
    KbDelete,       \* requests that may delete the knowledge base
    Slug,           \* slugs the LLM may pick
    Page,           \* page ids
    Shadow,         \* shadow documents, each with its one chunk
    NoPage, NoSlug, \* SQL NULL
    Faults,         \* dependencies that may fail: "vectors" (an LLM that fails needs no name)
    MaxCrashes      \* bound: requests that die with their API process

ASSUME WikiAssumption ==
    /\ NoPage \notin Page
    /\ NoSlug \notin Slug
    /\ Page # {} /\ Shadow # {}
    /\ Distiller \cap (PageDelete \cup KbDelete) = {}
    /\ Faults \subseteq {"vectors"}
    /\ MaxCrashes \in Nat

Request == Distiller \cup PageDelete \cup KbDelete

VARIABLES
    kb,         \* the knowledge base row
    page,       \* wiki_pages
    revision,   \* wiki_revisions of each page, committed
    shadow,     \* documents with source_type wiki, and their chunk
    points,     \* chunk ids in Qdrant
    req,        \* where each request stands, and its open transaction
    crashes

storeVars == <<kb, page, revision, shadow, points>>
vars == <<kb, page, revision, shadow, points, req, crashes>>

-----------------------------------------------------------------------------
Row == {"absent", "live", "deleted", "purged"}
PageRow     == [row : Row, slug : Slug \cup {NoSlug}, count : Nat]
RevisionRow == [version : Nat \ {0}, content : SUBSET Distiller]
ShadowRow   == [page : Page \cup {NoPage}, content : SUBSET Distiller, doc : Row, chunk : Row]

\* What a request does next.
Position ==
    {"start", "lookup", "check", "number", "insert", "touch", "retire", "create",
     "pageRetire", "pageRow", "chunks", "docs", "pages",
     "drop", "upsert", "dropPage", "dropKb", "done"}

(* A request.  page, slug, base, content and version are what distill has  *)
(* read or decided; seen is what a statement has found and will write;     *)
(* chunks, docs and pages are the rows the open transaction has written,   *)
(* which it keeps locked until it ends; old and new are for the vectors.   *)
RequestState ==
    [pc : Position, page : Page \cup {NoPage}, slug : Slug \cup {NoSlug}, base : Nat,
     content : SUBSET Distiller, version : Nat, seen : SUBSET (Shadow \cup Page),
     chunks : SUBSET Shadow, docs : SUBSET Shadow, pages : SUBSET Page,
     old : SUBSET Shadow, new : SUBSET Shadow,
     result : {"none", "ok", "error"}]

NoRequest == [pc |-> "start", page |-> NoPage, slug |-> NoSlug, base |-> 0, content |-> {},
              version |-> 0, seen |-> {}, chunks |-> {}, docs |-> {}, pages |-> {},
              old |-> {}, new |-> {}, result |-> "none"]

WikiTypeOK ==
    /\ kb \in {"live", "deleted"}
    /\ page \in [Page -> PageRow]
    /\ revision \in [Page -> SUBSET RevisionRow]
    /\ shadow \in [Shadow -> ShadowRow]
    /\ points \in SUBSET Shadow
    /\ req \in [Request -> RequestState]
    /\ crashes \in 0..MaxCrashes

-----------------------------------------------------------------------------
(* Queries.                                                                *)

PageLive(p) == page[p].row = "live"
PageStored(p) == page[p].row \in {"live", "deleted"}

\* get_published_by_slug
PublishedBy(g) == {p \in Page : PageLive(p) /\ page[p].slug = g}

\* get_by_wiki_page
LiveShadows(p) == {s \in Shadow : shadow[s].page = p /\ shadow[s].doc = "live"}

Versions(p) == {v.version : v \in revision[p]}
LatestVersion(p) ==
    IF revision[p] = {} THEN 0
    ELSE CHOOSE n \in Versions(p) : \A m \in Versions(p) : m <= n
\* get_latest
LatestContent(p) ==
    IF revision[p] = {} THEN {}
    ELSE (CHOOSE v \in revision[p] : v.version = LatestVersion(p)).content

\* Rows that queries are answered from.
Served(s) == shadow[s].doc = "live" /\ shadow[s].chunk = "live"

-----------------------------------------------------------------------------
(* Locks.  A row an open transaction has written is locked until it ends.  *)

Others(r) == Request \ {r}
HasWritten(q, S, P) ==
    \/ (req[q].chunks \cup req[q].docs) \cap S # {}
    \/ req[q].pages \cap P # {}

\* An INSERT of (page, version) that its transaction has not committed.
Inserting(q, p) == req[q].pc \in {"touch", "retire"} /\ req[q].page = p

\* The transactions the next statement of r has to wait for.
Blockers(r) ==
    LET me == req[r] IN
    CASE me.pc = "insert" -> {q \in Others(r) : Inserting(q, me.page) /\ req[q].version = me.version}
      [] me.pc \in {"touch", "pageRow"} -> {q \in Others(r) : HasWritten(q, {}, {me.page})}
      [] me.pc \in {"retire", "pageRetire", "chunks", "docs"} ->
             {q \in Others(r) : HasWritten(q, me.seen, {})}
      [] me.pc = "pages" -> {q \in Others(r) : HasWritten(q, {}, me.seen)}
      [] OTHER -> {}

\* PostgreSQL's deadlock detector: r waits in a circle of transactions that wait for each other.
Deadlocked(r) ==
    \E C \in SUBSET Request :
        /\ r \in C
        /\ \A q \in C : Blockers(q) \cap C # {} /\ \E x \in C : q \in Blockers(x)

-----------------------------------------------------------------------------
(* CleanupService and the reconciliation of the worker; the order of       *)
(* vectors and rows inside a purge is the subject of IngestionWorker.      *)

\* _purge_chunks and, in the same pass, _purge_documents: a deleted document without chunks.
PurgeShadow(s) ==
    /\ shadow[s].chunk = "deleted"
    /\ \A q \in Request : ~HasWritten(q, {s}, {})
    /\ points' = points \ {s}
    /\ shadow' = [shadow EXCEPT ![s].chunk = "purged",
                                ![s].doc = IF @ = "deleted" THEN "purged" ELSE @]
    /\ UNCHANGED <<kb, page, revision, req, crashes>>

\* Revisions go by ON DELETE CASCADE; an uncommitted revision holds a key-share lock on its page.
PurgePage(p) ==
    /\ page[p].row = "deleted"
    /\ \A q \in Request : ~HasWritten(q, {}, {p}) /\ ~Inserting(q, p)
    /\ page' = [page EXCEPT ![p].row = "purged", ![p].count = 0]
    /\ revision' = [revision EXCEPT ![p] = {}]
    /\ UNCHANGED <<kb, shadow, points, req, crashes>>

ReconcileShadows ==
    /\ \E s \in points : shadow[s].chunk = "purged"
    /\ points' = {s \in points : shadow[s].chunk # "purged"}
    /\ UNCHANGED <<kb, page, revision, shadow, req, crashes>>
=============================================================================
