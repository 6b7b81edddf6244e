------------------------------ MODULE RagStore ------------------------------
(***************************************************************************)
(* The state the ingestion side of the system shares: the PostgreSQL rows  *)
(* (documents, ingestion_jobs, chunks), the Qdrant points, the Redis list  *)
(* of job ids, and where every worker process and API request stands.      *)
(*                                                                         *)
(* A Chunk stands for the whole set of child chunks one run of the         *)
(* pipeline writes for a document: they are inserted in one transaction    *)
(* and upserted to Qdrant in one request, so no state of the program       *)
(* separates them.  Parent chunks carry no vector and are left out.        *)
(***************************************************************************)
EXTENDS Naturals, FiniteSets

CONSTANTS
    Doc,            \* documents that may be uploaded
    Sectioned,      \* those with a heading: their chunks reference a section
    Job,            \* ingestion job ids
    Chunk,          \* chunk ids (one per pipeline run, see above)
    Worker,         \* worker processes (workers/ingestion_worker.py)
    Client,         \* concurrent API requests
    NoDoc, NoChunk, \* the SQL NULL of a document / chunk reference
    MaxAttempts,    \* settings.ingestion_max_attempts
    Concurrency,    \* settings.ingestion_worker_concurrency
    RedisEnabled,   \* settings.redis_queue_enabled
    MaxVersion,     \* bound: versions of parser + chunker + embedding model
    MaxCrashes,     \* bound: worker processes killed
    Faults,         \* the pipeline stages in which a dependency may fail
    Ops,            \* Ops[k]: the API requests client k sends
    Timely          \* TRUE: the stale timeout outlasts every run of the
                    \* pipeline, the retry back-off every maintenance pass

\* The stages in which a failure can be injected: those of the pipeline, "maintain" (one maintenance
\* pass of the worker), "redis" and "vectors" (the vector delete that ends a document delete).
FaultPoints == {"load", "mark", "skip", "build", "commit", "embed", "upsert", "finish", "fail",
                "maintain", "redis", "vectors"}

ASSUME StoreAssumption ==
    /\ Sectioned \subseteq Doc
    /\ NoDoc \notin Doc
    /\ NoChunk \notin Chunk
    /\ MaxAttempts \in Nat \ {0}
    /\ Concurrency \in Nat \ {0}
    /\ MaxVersion \in Nat \ {0}
    /\ MaxCrashes \in Nat
    /\ RedisEnabled \in BOOLEAN
    /\ Timely \in BOOLEAN
    /\ Faults \subseteq FaultPoints
    /\ Ops \in [Client -> SUBSET {"upload", "reindex", "delete"}]

VARIABLES
    doc,        \* documents: row life cycle, status, processing fingerprint
    job,        \* ingestion_jobs
    chunk,      \* chunks: owner document (NoDoc = no such row), soft delete
    points,     \* ids present in the Qdrant collection
    queue,      \* job ids in the Redis list
    apiBroken,  \* the API's IngestionQueue._broken
    broken,     \* workers whose IngestionQueue._broken is set
    loop,       \* position of each worker in run()
    run,        \* run[w][j]: w's execution of pipeline.process(j)
    held,       \* chunk ids a worker has read and will act on
    stale,      \* job rows a worker has read in reclaim_stale_jobs
    doomed,     \* document ids a worker has read in _purge_documents
    version,    \* code version each worker process was started with
    client,     \* each API request
    crashes     \* number of worker kills so far

pgVars     == <<doc, job, chunk>>
redisVars  == <<queue, apiBroken, broken>>
sweepVars  == <<held, stale, doomed>>
procVars   == <<version, crashes>>
vars == <<doc, job, chunk, points, queue, apiBroken, broken, loop, run, held,
          stale, doomed, version, client, crashes>>

-----------------------------------------------------------------------------
DocStatus == {"PENDING", "PROCESSING", "READY", "FAILED", "CONFLICT"}
\* JobStatus of the schema, without CANCELLED, which no code writes.
JobStatus == {"PENDING", "RUNNING", "SUCCEEDED", "FAILED"}

\* started_at relative to the stale cut-off.
StartedAt == {"null", "fresh", "stale"}

Stage == {"none", "load", "mark", "skip", "build", "commit", "embed", "upsert", "finish", "fail"}

\* What _handle_failure sees of the error code: transient codes are retried.
Failure == {"none", "transient", "terminal", "conflict"}

LoopPos == {"down", "boot", "scan", "sweep", "dequeue", "reclaim", "requeue",
            "purgeChunks", "dropChunks", "purgeDocs", "dropDocs", "claim", "busy"}

RunRecord == [stage : Stage, attempt : Nat, print : Nat, new : Chunk \cup {NoChunk},
              failure : Failure]
NotRunning == [stage |-> "none", attempt |-> 0, print |-> 0, new |-> NoChunk, failure |-> "none"]

Request == [pc : {"idle", "enqueue", "insert", "delete", "vectors"},
            doc : Doc \cup {NoDoc}, job : SUBSET Job, ids : SUBSET Chunk]
NoRequest == [pc |-> "idle", doc |-> NoDoc, job |-> {}, ids |-> {}]

NoStale == [retry |-> {}, expire |-> {}]

\* The rows.  A document's print is its processing_fingerprint, of which only the code version
\* varies here; a job's due says that next_attempt_at has passed.
DocRow   == [row : {"absent", "live", "deleted", "purged"}, status : DocStatus, print : Nat]
JobRow   == [status : JobStatus \cup {"absent", "purged"}, doc : Doc \cup {NoDoc},
             attempts : Nat, due : BOOLEAN, started : StartedAt]
ChunkRow == [doc : Doc \cup {NoDoc}, deleted : BOOLEAN]

TypeOK ==
    /\ doc \in [Doc -> DocRow]
    /\ job \in [Job -> JobRow]
    /\ chunk \in [Chunk -> ChunkRow]
    /\ points \in SUBSET Chunk
    /\ queue \in SUBSET Job
    /\ apiBroken \in BOOLEAN
    /\ broken \in SUBSET Worker
    /\ loop \in [Worker -> LoopPos]
    /\ run \in [Worker -> [Job -> RunRecord]]
    /\ held \in [Worker -> SUBSET Chunk]
    /\ stale \in [Worker -> [retry : SUBSET Job, expire : SUBSET Job]]
    /\ doomed \in [Worker -> SUBSET Doc]
    /\ version \in [Worker -> 1..MaxVersion]
    /\ client \in [Client -> Request]
    /\ crashes \in 0..MaxCrashes

-----------------------------------------------------------------------------
(* Queries and updates of the repositories.                                *)

DocLive(d)   == doc[d].row = "live"
DocExists(d) == doc[d].row \in {"live", "deleted"}
JobExists(j) == job[j].status \in JobStatus

Rows         == {c \in Chunk : chunk[c].doc # NoDoc}
RowsOf(d)    == {c \in Chunk : chunk[c].doc = d}
LiveRowsOf(d) == {c \in RowsOf(d) : ~chunk[c].deleted}
NoRow        == [doc |-> NoDoc, deleted |-> FALSE]

\* The chunk rows without those in S: hard_delete_ids, or an ON DELETE CASCADE.
DropRows(S) == [c \in Chunk |-> IF c \in S THEN NoRow ELSE chunk[c]]

\* find_active: a PENDING or RUNNING job of the document.
ActiveJobs(d) == {j \in Job : job[j].doc = d /\ job[j].status \in {"PENDING", "RUNNING"}}

\* What an UPDATE ... SET status leaves: nothing when no row matches.
WithStatus(d, s) == IF DocExists(d) THEN [doc EXCEPT ![d].status = s] ELSE doc

\* IngestionJobRepository.update: status, and for RUNNING started_at = coalesce(started_at, now()).
\* Mutant: update() forgets started_at.
CoalesceForgotten(started) == started
Coalesce(started) == IF started = "null" THEN "fresh" ELSE started
Running(j) == [job[j] EXCEPT !.status = "RUNNING", !.started = Coalesce(job[j].started)]
Ended(j, status) == [job[j] EXCEPT !.status = status]
\* requeue: PENDING again once the back-off is over.
Requeued(j) == [job[j] EXCEPT !.status = "PENDING", !.due = FALSE, !.started = "null"]
\* What an UPDATE of the job's row leaves.
WithJob(j, row) == IF JobExists(j) THEN [job EXCEPT ![j] = row] ELSE job

\* A worker that has updated the document row in its CHUNK transaction keeps
\* the row lock until it commits; every other UPDATE of the row waits.
Locked(d) == \E w \in Worker, j \in Job : run[w][j].stage = "commit" /\ job[j].doc = d

\* Chunk ids are random UUIDs: a new one is none that anything still names.
Fresh(c) ==
    /\ c \notin Rows \cup points
    /\ \A w \in Worker : c \notin held[w] /\ \A j \in Job : run[w][j].new # c
    /\ \A k \in Client : c \notin client[k].ids

\* chunks.get_many(require_ready) and the keyword query: what a user can be shown of d.
\* Mutant: the query trusts the soft delete of the chunks and forgets that of the document.
ServedIgnoringDelete(d) == IF doc[d].status = "READY" THEN LiveRowsOf(d) \cap points ELSE {}
Served(d) ==
    IF DocLive(d) /\ doc[d].status = "READY" THEN LiveRowsOf(d) \cap points ELSE {}
=============================================================================
