-------------------------------- MODULE Wiki --------------------------------
(***************************************************************************)
(* The wiki of one knowledge base: distillations, page deletes, the        *)
(* knowledge-base delete and the clean-up over shared rows and vectors.    *)
(***************************************************************************)
EXTENDS KnowledgeBase

\* Nothing is published yet, or one page with one revision is.
Empty ==
    /\ page = [p \in Page |-> [row |-> "absent", slug |-> NoSlug, count |-> 0]]
    /\ revision = [p \in Page |-> {}]
    /\ shadow = [s \in Shadow |-> [page |-> NoPage, content |-> {}, doc |-> "absent",
                                   chunk |-> "absent"]]
    /\ points = {}
OnePage ==
    \E g \in Slug : LET p == CHOOSE x \in Page : TRUE
                       s == CHOOSE x \in Shadow : TRUE IN
        /\ page = [x \in Page |-> IF x = p THEN [row |-> "live", slug |-> g, count |-> 1]
                                  ELSE [row |-> "absent", slug |-> NoSlug, count |-> 0]]
        /\ revision = [x \in Page |-> IF x = p THEN {[version |-> 1, content |-> {}]} ELSE {}]
        /\ shadow = [x \in Shadow |->
                        IF x = s THEN [page |-> p, content |-> {}, doc |-> "live", chunk |-> "live"]
                        ELSE [page |-> NoPage, content |-> {}, doc |-> "absent", chunk |-> "absent"]]
        /\ points = {s}

Init ==
    /\ Empty \/ OnePage
    /\ kb = "live"
    /\ req = [r \in Request |-> NoRequest]
    /\ crashes = 0

\* The deadlock detector picks one transaction of the circle; the request fails with 500.
DeadlockAbort(r) ==
    /\ Blockers(r) # {} /\ Deadlocked(r)
    /\ Finish(r, "error")
    /\ ReadOnly

RequestStep(r) ==
    \/ r \in Distiller /\ DistillStep(r)
    \/ r \in PageDelete /\ PageDeleteStep(r)
    \/ r \in KbDelete /\ KbDeleteStep(r)
    \/ DeadlockAbort(r)

\* The API process dies, or the client disconnects and the handler is cancelled.
Crash(r) ==
    /\ crashes < MaxCrashes
    /\ req[r].pc \notin {"start", "done"}
    /\ Finish(r, "error")
    /\ crashes' = crashes + 1
    /\ UNCHANGED storeVars

CleanUp ==
    \/ \E s \in Shadow : PurgeShadow(s)
    \/ \E p \in Page : PurgePage(p)
    \/ ReconcileShadows

Next == (\E r \in Request : RequestStep(r) \/ Crash(r)) \/ CleanUp

Spec == Init /\ [][Next]_vars
FairSpec == Spec /\ \A r \in Request : WF_vars(RequestStep(r))

-----------------------------------------------------------------------------
(* Versions of a page are 1..revision_count without a gap or a duplicate,  *)
(* whoever appends: the number is read, inserted and counted in three      *)
(* statements.                                                             *)
HistoryDense ==
    \A p \in Page : PageStored(p) => /\ Versions(p) = 1..page[p].count
                                     /\ Cardinality(revision[p]) = page[p].count

(* A live page is indexed by exactly one live shadow document, and what    *)
(* that serves is the latest revision: appends, page deletes and the       *)
(* knowledge-base delete never leave two, none, or an older text.          *)
PublishedIsIndexed ==
    \A p \in Page : PageLive(p) =>
        \E s \in Shadow : /\ LiveShadows(p) = {s} /\ Served(s)
                          /\ shadow[s].content = LatestContent(p)

(* Vectors are only taken from chunks whose soft delete is committed: a    *)
(* rollback or a crash never leaves a live page without its vector         *)
(* (wiki_service.py:521, "commit first, then the vectors").                *)
LiveVectorsKept ==
    [][\A s \in points \ points' : kb = "live" => ~Served(s)]_vars

(* Every request is answered, whatever waits for whatever: the lock orders *)
(* of append and of the two deletes differ, so the detector is needed.     *)
RequestsEnd == \A r \in Request : req[r].pc # "start" ~> req[r].pc = "done"

(* An answer whose distillation was acknowledged is in some revision of    *)
(* its page for as long as the page exists.                                *)
AckedIsRecorded ==
    \A r \in Distiller :
        req[r].result = "ok" /\ PageStored(req[r].page)
          => \E v \in revision[req[r].page] : r \in v.content

(* Every revision contains what the one before it contained: the optimistic *)
(* check "avoids overwriting the increments of others with stale content"  *)
(* (wiki_service.py:224).                                                  *)
NoLostIncrement ==
    \A p \in Page, v, w \in UNION {revision[q] : q \in Page} :
        v \in revision[p] /\ w \in revision[p] /\ v.version < w.version => v.content \subseteq w.content
=============================================================================
