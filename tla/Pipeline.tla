------------------------------ MODULE Pipeline ------------------------------
(***************************************************************************)
(* IngestionPipeline.process(job_id) (app/ingestion/pipeline.py), cut at   *)
(* the points where another process can see or change something: between  *)
(* its reads and the commit that uses them, around every commit, and       *)
(* around every call to Qdrant or to the embedding service.  PostgreSQL    *)
(* runs at READ COMMITTED, so each statement sees what is committed.       *)
(*                                                                         *)
(* process() never looks at the status of the job it is given.             *)
(***************************************************************************)
EXTENDS RagStore

At(w, j, stage) == run[w][j].stage = stage
Becomes(w, j, r) == run' = [run EXCEPT ![w][j] = r]
Goto(w, j, stage) == Becomes(w, j, [run[w][j] EXCEPT !.stage = stage])
Leave(w, j) == Becomes(w, j, NotRunning)
Fails(w, j, kind) == Becomes(w, j, [run[w][j] EXCEPT !.stage = "fail", !.failure = kind])
\* The same before the attempt has been counted: process() starts with attempt = 1.
FailsUncounted(w, j) ==
    Becomes(w, j, [run[w][j] EXCEPT !.stage = "fail", !.failure = "transient", !.attempt = 1])

othersOfRun == <<loop, redisVars, sweepVars, procVars, client>>

(* First transaction, its reads: the job, the live document, the fingerprint. *)
LoadMissing(w, j) ==
    /\ At(w, j, "load")
    /\ ~JobExists(j) \/ ~DocLive(job[j].doc)
    /\ FailsUncounted(w, j)
    /\ UNCHANGED <<pgVars, points, othersOfRun>>

UpToDate(w, d) == doc[d].status = "READY" /\ doc[d].print = version[w]

Load(w, j) ==
    /\ At(w, j, "load")
    /\ JobExists(j) /\ DocLive(job[j].doc)
    /\ Becomes(w, j, [run[w][j] EXCEPT
                         !.stage = IF UpToDate(w, job[j].doc) THEN "skip" ELSE "mark",
                         !.attempt = job[j].attempts + 1,
                         !.print = version[w]])
    /\ UNCHANGED <<pgVars, points, othersOfRun>>

(* First transaction, its writes: job RUNNING, document PROCESSING.         *)
\* Mutant: the document is not withdrawn (update_status is forgotten).
MarkJobOnly(w, j) ==
    /\ At(w, j, "mark")
    /\ job' = WithJob(j, [Running(j) EXCEPT !.attempts = run[w][j].attempt])
    /\ Goto(w, j, "build")
    /\ UNCHANGED <<doc, chunk, points, othersOfRun>>

Mark(w, j) ==
    /\ At(w, j, "mark")
    /\ ~Locked(job[j].doc)
    /\ job' = WithJob(j, [Running(j) EXCEPT !.attempts = run[w][j].attempt])
    /\ doc' = WithStatus(job[j].doc, "PROCESSING")
    /\ Goto(w, j, "build")
    /\ UNCHANGED <<chunk, points, othersOfRun>>

(* The fingerprint shortcut: the job succeeds at stage HASH.                *)
Skip(w, j) ==
    /\ At(w, j, "skip")
    /\ job' = WithJob(j, Ended(j, "SUCCEEDED"))
    /\ Leave(w, j)
    /\ UNCHANGED <<doc, chunk, points, othersOfRun>>

(***************************************************************************)
(* Second transaction: PARSE, METADATA, SECTION, CHUNK.  The document row  *)
(* is updated (and locked) first; the sections are deleted before the     *)
(* chunks, and chunks.section_id references sections without ON DELETE,    *)
(* so the delete is refused while a chunk row of the document sits under   *)
(* a section; the inserts are refused when the document row has been       *)
(* purged.  Both fail at stage SECTION or CHUNK, which are terminal.       *)
(***************************************************************************)
SectionRefused(d) == (d \in Sectioned /\ RowsOf(d) # {}) \/ ~DocExists(d)

BuildRefused(w, j) ==
    /\ At(w, j, "build")
    /\ ~Locked(job[j].doc)
    /\ SectionRefused(job[j].doc)
    /\ Fails(w, j, "terminal")
    /\ UNCHANGED <<pgVars, points, othersOfRun>>

(* The chunk rows are deleted (not committed yet), their vectors at once.   *)
\* Mutant: the vectors of the rows that go are kept.
BuildKeepingVectors(w, j) ==
    /\ At(w, j, "build")
    /\ ~Locked(job[j].doc) /\ ~SectionRefused(job[j].doc)
    /\ Goto(w, j, "commit")
    /\ UNCHANGED <<pgVars, points, othersOfRun>>

Build(w, j) ==
    /\ At(w, j, "build")
    /\ ~Locked(job[j].doc)
    /\ ~SectionRefused(job[j].doc)
    /\ points' = points \ RowsOf(job[j].doc)
    /\ Goto(w, j, "commit")
    /\ UNCHANGED <<pgVars, othersOfRun>>

(* Chunking, the insert of the new chunk rows, and the commit.              *)
Commit(w, j) ==
    LET d == job[j].doc IN
    /\ At(w, j, "commit")
    /\ \E c \in Chunk :
         /\ Fresh(c)
         /\ chunk' = [DropRows(RowsOf(d)) EXCEPT ![c] = [doc |-> d, deleted |-> FALSE]]
         /\ Becomes(w, j, [run[w][j] EXCEPT !.stage = "embed", !.new = c])
    /\ doc' = [doc EXCEPT ![d].print = run[w][j].print]
    /\ UNCHANGED <<job, points, othersOfRun>>

(* Third transaction: the job is RUNNING at stage EMBEDDING.                *)
Embed(w, j) ==
    /\ At(w, j, "embed")
    /\ job' = WithJob(j, Running(j))
    /\ Goto(w, j, "upsert")
    /\ UNCHANGED <<doc, chunk, points, othersOfRun>>

(* Embedding, then the upsert with wait=True.                               *)
Upsert(w, j) ==
    /\ At(w, j, "upsert")
    /\ points' = points \cup {run[w][j].new}
    /\ Goto(w, j, "finish")
    /\ UNCHANGED <<pgVars, othersOfRun>>

(* Last transaction: job SUCCEEDED and document READY, together.            *)
Finish(w, j) ==
    /\ At(w, j, "finish")
    /\ ~Locked(job[j].doc)
    /\ job' = WithJob(j, Ended(j, "SUCCEEDED"))
    /\ doc' = WithStatus(job[j].doc, "READY")
    /\ Leave(w, j)
    /\ UNCHANGED <<chunk, points, othersOfRun>>

-----------------------------------------------------------------------------
(* An exception in a stage: the transaction rolls back, _STAGE_ERROR_CODES  *)
(* names the code, and the code decides whether a retry makes sense.        *)
KindsOf(stage) == CASE stage = "build"  -> {"terminal", "conflict"}
                    [] stage = "commit" -> {"terminal"}
                    [] OTHER            -> {"transient"}

StageFails(w, j) ==
    /\ run[w][j].stage \in Faults \ {"fail"}
    /\ IF At(w, j, "load") THEN FailsUncounted(w, j)
       ELSE \E kind \in KindsOf(run[w][j].stage) : Fails(w, j, kind)
    /\ UNCHANGED <<pgVars, points, othersOfRun>>

(* The upsert may take effect although the call raises (a timed-out reply). *)
UpsertReplyLost(w, j) ==
    /\ At(w, j, "upsert")
    /\ "upsert" \in Faults
    /\ points' = points \cup {run[w][j].new}
    /\ Fails(w, j, "transient")
    /\ UNCHANGED <<pgVars, othersOfRun>>

\* Mutant: one attempt too many.
RetryableOnceMore(w, j) == run[w][j].failure = "transient" /\ run[w][j].attempt <= MaxAttempts

Retryable(w, j) == run[w][j].failure = "transient" /\ run[w][j].attempt < MaxAttempts

(* _handle_failure, in a session of its own.                                *)
HandleRetry(w, j) ==
    /\ At(w, j, "fail")
    /\ Retryable(w, j)
    /\ job' = WithJob(j, Requeued(j))
    /\ Leave(w, j)
    /\ UNCHANGED <<doc, chunk, points, othersOfRun>>

\* Mutant: the job is given the status of the document.
HandleFinalMixed(w, j) ==
    /\ At(w, j, "fail")
    /\ ~Retryable(w, j)
    /\ LET status == IF run[w][j].failure = "conflict" THEN "CONFLICT" ELSE "FAILED" IN
       /\ job' = WithJob(j, Ended(j, status))
       /\ doc' = IF JobExists(j) THEN WithStatus(job[j].doc, status) ELSE doc
    /\ Leave(w, j)
    /\ UNCHANGED <<chunk, points, othersOfRun>>

HandleFinal(w, j) ==
    /\ At(w, j, "fail")
    /\ ~Retryable(w, j)
    /\ ~Locked(job[j].doc)
    /\ job' = WithJob(j, Ended(j, "FAILED"))
    /\ doc' = IF JobExists(j)
              THEN WithStatus(job[j].doc,
                              IF run[w][j].failure = "conflict" THEN "CONFLICT" ELSE "FAILED")
              ELSE doc
    /\ Leave(w, j)
    /\ UNCHANGED <<chunk, points, othersOfRun>>

(* _handle_failure itself raises: process_job logs it and drops the job.    *)
HandleLost(w, j) ==
    /\ At(w, j, "fail")
    /\ "fail" \in Faults
    /\ Leave(w, j)
    /\ UNCHANGED <<pgVars, points, othersOfRun>>

PipelineStep(w, j) ==
    \/ Load(w, j) \/ LoadMissing(w, j) \/ Mark(w, j) \/ Skip(w, j)
    \/ Build(w, j) \/ BuildRefused(w, j) \/ Commit(w, j)
    \/ Embed(w, j) \/ Upsert(w, j) \/ Finish(w, j)
    \/ StageFails(w, j) \/ UpsertReplyLost(w, j)
    \/ HandleRetry(w, j) \/ HandleFinal(w, j) \/ HandleLost(w, j)
=============================================================================
