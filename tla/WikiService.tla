----------------------------- MODULE WikiService -----------------------------
(***************************************************************************)
(* WikiService.distill and delete_page: short transactions at READ         *)
(* COMMITTED, with the LLM and Qdrant called while none is open.  A        *)
(* transaction is cut after every statement that reads what another may    *)
(* write and before every statement that may have to wait for a lock; what *)
(* follows the last such wait is one action with the commit.               *)
(***************************************************************************)
EXTENDS WikiStore

At(r, pc) == req[r].pc = pc

\* Mutant: the transaction stays open, with its locks.
FinishOpen(r, result) == req' = [req EXCEPT ![r].pc = "done", ![r].result = result]
\* The request is answered ("error": refused, skipped, 409 or 5xx) and its transaction, if one is
\* open, rolled back.
Finish(r, result) ==
    req' = [req EXCEPT ![r] = [NoRequest EXCEPT !.pc = "done", !.result = result,
                                                !.page = IF result = "ok" THEN req[r].page ELSE NoPage]]

\* The transaction of r commits: its locks are gone, the vectors remain to be written.
AfterCommit(r, pc, p, old, new) ==
    req' = [req EXCEPT ![r] = [NoRequest EXCEPT !.pc = pc, !.page = p, !.old = old, !.new = new]]

ReadOnly == UNCHANGED <<kb, page, revision, shadow, points, crashes>>

-----------------------------------------------------------------------------
(* Reading and merging.                                                    *)

\* _load_distill_source and the extraction: an unknown, ungrounded or empty answer, an LLM failure
\* and an answer of no value all end here.
Extract(r) ==
    /\ At(r, "start")
    /\ \/ \E g \in Slug : req' = [req EXCEPT ![r].pc = "lookup", ![r].slug = g]
       \/ Finish(r, "error")
    /\ ReadOnly

\* _load_existing_revision: the content and its version are read by one statement.
Lookup(r) ==
    /\ At(r, "lookup")
    /\ \/ /\ PublishedBy(req[r].slug) = {}
          /\ req' = [req EXCEPT ![r].pc = "create", ![r].content = {r}]
       \/ \E p \in PublishedBy(req[r].slug) :
              req' = [req EXCEPT ![r].pc = "check", ![r].page = p, ![r].base = LatestVersion(p),
                                 ![r].content = LatestContent(p)]
    /\ ReadOnly

-----------------------------------------------------------------------------
(* _append_revision.                                                       *)

\* The merge by the LLM, which may fail or find no increment, then the optimistic check.
MergeAndCheck(r) ==
    /\ At(r, "check")
    /\ \/ /\ LatestVersion(req[r].page) = req[r].base
          /\ req' = [req EXCEPT ![r].pc = "number", ![r].content = @ \cup {r}]
       \/ Finish(r, "error")
    /\ ReadOnly

NextVersion(r) ==
    /\ At(r, "number")
    /\ req' = [req EXCEPT ![r].pc = "insert", ![r].version = LatestVersion(req[r].page) + 1]
    /\ ReadOnly

\* Mutant: no unique constraint.
RefusedPurgedOnly(p, n) == ~PageStored(p)
\* UNIQUE (page_id, version), and the foreign key to a page that may have been purged.
Refused(p, n) == n \in Versions(p) \/ ~PageStored(p)

\* Mutant: the IntegrityError is swallowed and the distillation reported as done.
InsertSwallowing(r) ==
    /\ At(r, "insert") /\ Blockers(r) = {}
    /\ IF Refused(req[r].page, req[r].version)
       THEN Finish(r, "ok") ELSE req' = [req EXCEPT ![r].pc = "touch"]
    /\ ReadOnly
InsertRevision(r) ==
    /\ At(r, "insert") /\ Blockers(r) = {}
    /\ IF Refused(req[r].page, req[r].version)
       THEN Finish(r, "error") ELSE req' = [req EXCEPT ![r].pc = "touch"]
    /\ ReadOnly

\* touch(), then get_by_wiki_page of _index_db; no other statement can wait in between.
Touch(r) ==
    /\ At(r, "touch") /\ Blockers(r) = {}
    /\ req' = [req EXCEPT ![r].pc = "retire", ![r].pages = {req[r].page},
                          ![r].seen = LiveShadows(req[r].page)]
    /\ ReadOnly

\* Mutant: the chunks are soft-deleted, the document is forgotten.
SoftDeletedChunks(chunks, docs) ==
    [s \in Shadow |->
        [shadow[s] EXCEPT !.chunk = IF s \in chunks /\ @ = "live" THEN "deleted" ELSE @]]
\* What a commit makes of the rows its transaction has soft-deleted.
SoftDeleted(chunks, docs) ==
    [s \in Shadow |->
        [shadow[s] EXCEPT !.chunk = IF s \in chunks /\ @ = "live" THEN "deleted" ELSE @,
                          !.doc = IF s \in docs /\ @ = "live" THEN "deleted" ELSE @]]

\* A new row gets a random UUID; which one makes no difference.
FreshShadows == {s \in Shadow : shadow[s].doc = "absent"}
FreshPages == {p \in Page : page[p].row = "absent"}
NewShadow(r, p) == [page |-> p, content |-> req[r].content, doc |-> "live", chunk |-> "live"]

\* The rest of _index_db and the commit: retire the old shadow document, insert the new one.
CommitAppend(r) ==
    LET me == req[r]
        s == CHOOSE x \in FreshShadows : TRUE
    IN
    /\ At(r, "retire") /\ Blockers(r) = {} /\ FreshShadows # {}
    /\ shadow' = [SoftDeleted(me.seen, me.seen) EXCEPT ![s] = NewShadow(r, me.page)]
    /\ revision' = [revision EXCEPT ![me.page] =
                        @ \cup {[version |-> me.version, content |-> me.content]}]
    /\ page' = [page EXCEPT ![me.page].count = me.version]
    /\ AfterCommit(r, "drop", me.page, me.seen, {s})
    /\ UNCHANGED <<kb, points, crashes>>

-----------------------------------------------------------------------------
(* _create_page: a partial unique index over live pages guards the slug.   *)

CreatePage(r) ==
    LET p == CHOOSE x \in FreshPages : TRUE
        s == CHOOSE x \in FreshShadows : TRUE
    IN
    /\ At(r, "create")
    /\ \/ /\ PublishedBy(req[r].slug) # {}
          /\ Finish(r, "error") /\ UNCHANGED <<page, revision, shadow>>
       \/ /\ PublishedBy(req[r].slug) = {} /\ FreshPages # {} /\ FreshShadows # {}
          /\ page' = [page EXCEPT ![p] = [row |-> "live", slug |-> req[r].slug, count |-> 1]]
          /\ revision' = [revision EXCEPT ![p] = {[version |-> 1, content |-> req[r].content]}]
          /\ shadow' = [shadow EXCEPT ![s] = NewShadow(r, p)]
          /\ AfterCommit(r, "drop", p, {}, {s})
    /\ UNCHANGED <<kb, points, crashes>>

-----------------------------------------------------------------------------
(* _apply_vectors: after the commit, failures only logged.                 *)

DropVectors(r) ==
    /\ At(r, "drop")
    /\ \/ /\ points' = points \ req[r].old
          /\ req' = [req EXCEPT ![r].pc = "upsert"]
       \/ /\ "vectors" \in Faults /\ req[r].old # {}
          /\ Finish(r, "ok") /\ UNCHANGED points
    /\ UNCHANGED <<kb, page, revision, shadow, crashes>>

UpsertVector(r) ==
    /\ At(r, "upsert")
    /\ \/ points' = points \cup req[r].new
       \/ "vectors" \in Faults /\ UNCHANGED points
    /\ Finish(r, "ok")
    /\ UNCHANGED <<kb, page, revision, shadow, crashes>>

DistillStep(r) ==
    \/ Extract(r) \/ Lookup(r) \/ MergeAndCheck(r) \/ NextVersion(r) \/ InsertRevision(r)
    \/ Touch(r) \/ CommitAppend(r) \/ CreatePage(r) \/ DropVectors(r) \/ UpsertVector(r)

-----------------------------------------------------------------------------
(* delete_page: shadow chunk and document, then the page, then vectors.    *)

\* Mutant: the vectors are dropped before the transaction commits.
LoadPageDroppingVectors(r) ==
    /\ At(r, "start")
    /\ \E p \in Page :
        IF PageLive(p)
        THEN /\ req' = [req EXCEPT ![r].pc = "pageRetire", ![r].page = p, ![r].seen = LiveShadows(p)]
             /\ points' = points \ LiveShadows(p)
        ELSE Finish(r, "error") /\ UNCHANGED points
    /\ UNCHANGED <<kb, page, revision, shadow, crashes>>
LoadPage(r) ==
    /\ At(r, "start")
    /\ \E p \in Page :
        IF PageLive(p)
        THEN req' = [req EXCEPT ![r].pc = "pageRetire", ![r].page = p, ![r].seen = LiveShadows(p)]
        ELSE Finish(r, "error")
    /\ ReadOnly

RetirePageShadow(r) ==
    /\ At(r, "pageRetire") /\ Blockers(r) = {}
    /\ req' = [req EXCEPT ![r].pc = "pageRow", ![r].chunks = req[r].seen, ![r].docs = req[r].seen]
    /\ ReadOnly

\* Mutant: the name of the enum member is stored in place of its value.
PagesDeletedByName(P) ==
    [p \in Page |-> [page[p] EXCEPT !.row = IF p \in P /\ @ = "live" THEN "DELETED" ELSE @]]
\* Live pages among P become soft-deleted.
PagesDeleted(P) ==
    [p \in Page |-> [page[p] EXCEPT !.row = IF p \in P /\ @ = "live" THEN "deleted" ELSE @]]

CommitPageDelete(r) ==
    /\ At(r, "pageRow") /\ Blockers(r) = {}
    /\ shadow' = SoftDeleted(req[r].chunks, req[r].docs)
    /\ page' = PagesDeleted({req[r].page})
    /\ AfterCommit(r, "dropPage", req[r].page, req[r].chunks, {})
    /\ UNCHANGED <<kb, revision, points, crashes>>

DropPageVectors(r) ==
    /\ At(r, "dropPage")
    /\ \/ points' = points \ req[r].old
       \/ "vectors" \in Faults /\ UNCHANGED points
    /\ Finish(r, "ok")
    /\ UNCHANGED <<kb, page, revision, shadow, crashes>>

PageDeleteStep(r) ==
    LoadPage(r) \/ RetirePageShadow(r) \/ CommitPageDelete(r) \/ DropPageVectors(r)
=============================================================================
