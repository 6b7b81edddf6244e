--------------------------- MODULE DocumentService ---------------------------
(***************************************************************************)
(* IngestionService (app/services/ingestion_service.py): upload, reindex   *)
(* and delete.  A Client is one request being served; it may stop at any   *)
(* point (the API process is killed, the caller goes away).                *)
(***************************************************************************)
EXTENDS RagStore

othersOfClient == <<loop, run, sweepVars, procVars, broken>>

Idle(k) == client[k].pc = "idle"
Serve(k, r) == client' = [client EXCEPT ![k] = r]
Answer(k) == Serve(k, NoRequest)

\* jobs.create: a row with the column defaults, in the transaction of its caller.
NewJob(d) == [status |-> "PENDING", doc |-> d, attempts |-> 0, due |-> TRUE, started |-> "null"]

(* upload: the document and its job in one transaction.  Contents are       *)
(* distinct here: get_by_hash and uq_document_kb_hash refuse a duplicate.   *)
Upload(k) ==
    /\ "upload" \in Ops[k] /\ Idle(k)
    /\ \E d \in Doc, j \in Job :
         /\ doc[d].row = "absent" /\ job[j].status = "absent"
         /\ doc' = [doc EXCEPT ![d].row = "live"]
         /\ job' = [job EXCEPT ![j] = NewJob(d)]
         /\ Serve(k, [NoRequest EXCEPT !.pc = "enqueue", !.job = {j}])
    /\ UNCHANGED <<chunk, points, queue, apiBroken, othersOfClient>>

(* reindex, its reads: a live document without an active job (with one, the *)
(* request answers with that job and changes nothing).                      *)
ReindexCheck(k) ==
    /\ "reindex" \in Ops[k] /\ Idle(k)
    /\ \E d \in Doc :
         /\ DocLive(d) /\ ActiveJobs(d) = {}
         /\ Serve(k, [NoRequest EXCEPT !.pc = "insert", !.doc = d])
    /\ UNCHANGED <<pgVars, points, queue, apiBroken, othersOfClient>>

(* reindex, its insert and commit: refused (foreign key) once the document  *)
(* row is purged.                                                          *)
ReindexInsert(k) ==
    /\ client[k].pc = "insert"
    /\ IF DocExists(client[k].doc)
       THEN \E j \in Job :
              /\ job[j].status = "absent"
              /\ job' = [job EXCEPT ![j] = NewJob(client[k].doc)]
              /\ Serve(k, [NoRequest EXCEPT !.pc = "enqueue", !.job = {j}])
       ELSE Answer(k) /\ UNCHANGED job
    /\ UNCHANGED <<doc, chunk, points, queue, apiBroken, othersOfClient>>

(* IngestionQueue.enqueue after the commit: best effort, and never again    *)
(* after the first failure.  A failed RPUSH may still have been applied.    *)
Enqueue(k) ==
    /\ client[k].pc = "enqueue"
    /\ queue' = IF RedisEnabled /\ ~apiBroken THEN queue \cup client[k].job ELSE queue
    /\ Answer(k)
    /\ UNCHANGED <<pgVars, points, apiBroken, othersOfClient>>

EnqueueFails(k) ==
    /\ client[k].pc = "enqueue"
    /\ RedisEnabled /\ ~apiBroken /\ "redis" \in Faults
    /\ apiBroken' = TRUE
    /\ queue' \in {queue, queue \cup client[k].job}
    /\ Answer(k)
    /\ UNCHANGED <<pgVars, points, othersOfClient>>

(* delete, its reads: the ids of the chunks that are live now.              *)
DeleteRead(k) ==
    /\ "delete" \in Ops[k] /\ Idle(k)
    /\ \E d \in Doc :
         /\ DocLive(d)
         /\ Serve(k, [NoRequest EXCEPT !.pc = "delete", !.doc = d, !.ids = LiveRowsOf(d)])
    /\ UNCHANGED <<pgVars, points, queue, apiBroken, othersOfClient>>

(* delete, its writes: soft-delete the document, then all its chunks.       *)
DeleteCommit(k) ==
    LET d == client[k].doc IN
    /\ client[k].pc = "delete"
    /\ ~Locked(d)
    /\ doc' = IF DocExists(d) THEN [doc EXCEPT ![d].row = "deleted"] ELSE doc
    /\ chunk' = [c \in Chunk |-> IF chunk[c].doc = d THEN [chunk[c] EXCEPT !.deleted = TRUE]
                                 ELSE chunk[c]]
    /\ Serve(k, [NoRequest EXCEPT !.pc = "vectors", !.ids = client[k].ids])
    /\ UNCHANGED <<job, points, queue, apiBroken, othersOfClient>>

(* delete, after the commit: the vectors of the ids read at the start.      *)
DeleteVectors(k) ==
    /\ client[k].pc = "vectors"
    /\ points' = points \ client[k].ids
    /\ Answer(k)
    /\ UNCHANGED <<pgVars, queue, apiBroken, othersOfClient>>

(* The vector delete raises, or the API process dies before any later step. *)
Abandon(k) ==
    /\ client[k].pc # "idle"
    /\ "vectors" \in Faults
    /\ Answer(k)
    /\ UNCHANGED <<pgVars, points, queue, apiBroken, othersOfClient>>

RequestStep(k) ==
    \/ Upload(k) \/ ReindexCheck(k) \/ ReindexInsert(k) \/ Enqueue(k) \/ EnqueueFails(k)
    \/ DeleteRead(k) \/ DeleteCommit(k) \/ DeleteVectors(k) \/ Abandon(k)
=============================================================================
