---------------------------- MODULE KnowledgeBase ----------------------------
(***************************************************************************)
(* KnowledgeBaseService.soft_delete.  Each of its UPDATEs finds its rows   *)
(* in a snapshot of its own, then waits for the locks on them and reads    *)
(* deleted_at again: a row that appears in between is not among them.      *)
(***************************************************************************)
EXTENDS WikiService

LiveChunks == {s \in Shadow : shadow[s].chunk = "live"}
LiveDocs == {s \in Shadow : shadow[s].doc = "live"}

GetKb(r) ==
    /\ At(r, "start")
    /\ IF kb = "live"
       THEN req' = [req EXCEPT ![r].pc = "chunks", ![r].seen = LiveChunks]
       ELSE Finish(r, "error")
    /\ ReadOnly

DeleteChunks(r) ==
    /\ At(r, "chunks") /\ Blockers(r) = {}
    /\ req' = [req EXCEPT ![r].pc = "docs", ![r].chunks = req[r].seen \cap LiveChunks,
                          ![r].seen = LiveDocs]
    /\ ReadOnly

DeleteDocs(r) ==
    /\ At(r, "docs") /\ Blockers(r) = {}
    /\ req' = [req EXCEPT ![r].pc = "pages", ![r].docs = req[r].seen \cap LiveDocs,
                          ![r].seen = {p \in Page : PageLive(p)}]
    /\ ReadOnly

\* The pages, the knowledge base and the commit.
CommitKbDelete(r) ==
    /\ At(r, "pages") /\ Blockers(r) = {}
    /\ kb' = "deleted"
    /\ shadow' = SoftDeleted(req[r].chunks, req[r].docs)
    /\ page' = PagesDeleted(req[r].seen)
    /\ AfterCommit(r, "dropKb", NoPage, {}, {})
    /\ UNCHANGED <<revision, points, crashes>>

\* delete_by_knowledge_base, by payload filter: every point of the knowledge base.
DropKbVectors(r) ==
    /\ At(r, "dropKb")
    /\ \/ points' = {} /\ Finish(r, "ok")
       \/ "vectors" \in Faults /\ Finish(r, "error") /\ UNCHANGED points
    /\ UNCHANGED <<kb, page, revision, shadow, crashes>>

KbDeleteStep(r) ==
    GetKb(r) \/ DeleteChunks(r) \/ DeleteDocs(r) \/ CommitKbDelete(r) \/ DropKbVectors(r)
=============================================================================
