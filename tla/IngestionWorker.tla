--------------------------- MODULE IngestionWorker ---------------------------
(***************************************************************************)
(* run() of workers/ingestion_worker.py: start-up reconciliation, the      *)
(* Redis fast lane, and, when the queue gives nothing, a maintenance pass  *)
(* (reclaim_stale_jobs, CleanupService.run_once) and the database poll     *)
(* (claim_due_jobs).  A batch runs concurrently and is awaited as a whole. *)
(***************************************************************************)
EXTENDS RagStore

Move(w, from, to) == loop[w] = from /\ loop' = [loop EXCEPT ![w] = to]
Hold(w, S) == held' = [held EXCEPT ![w] = S]
Start(w, S) ==
    run' = [run EXCEPT ![w] = [j \in Job |-> IF j \in S THEN [NotRunning EXCEPT !.stage = "load"]
                                             ELSE NotRunning]]
AtMost(a, b) == IF a < b THEN a ELSE b

-----------------------------------------------------------------------------
(* reconcile_orphans: point ids first, chunk rows after, then the delete.   *)
ListPoints(w) ==
    /\ Move(w, "boot", "scan")
    /\ Hold(w, points)
    /\ UNCHANGED <<pgVars, points, redisVars, run, stale, doomed, procVars, client>>

\* Mutants: the scan sees only rows that are served / only rows that are not soft-deleted.
ScanReadyRows(w) ==
    /\ Move(w, "scan", "sweep")
    /\ Hold(w, held[w] \ UNION {Served(d) : d \in Doc})
    /\ UNCHANGED <<pgVars, points, redisVars, run, stale, doomed, procVars, client>>

ScanLiveRows(w) ==
    /\ Move(w, "scan", "sweep")
    /\ Hold(w, held[w] \ UNION {LiveRowsOf(d) : d \in Doc})
    /\ UNCHANGED <<pgVars, points, redisVars, run, stale, doomed, procVars, client>>

ScanRows(w) ==
    /\ Move(w, "scan", "sweep")
    /\ Hold(w, held[w] \ Rows)
    /\ UNCHANGED <<pgVars, points, redisVars, run, stale, doomed, procVars, client>>

SweepOrphans(w) ==
    /\ Move(w, "sweep", "dequeue")
    /\ points' = points \ held[w]
    /\ Hold(w, {})
    /\ UNCHANGED <<pgVars, redisVars, run, stale, doomed, procVars, client>>

(* An exception there is logged and does not keep the worker from starting. *)
ReconcileFails(w) ==
    /\ "maintain" \in Faults
    /\ loop[w] \in {"boot", "scan", "sweep"}
    /\ loop' = [loop EXCEPT ![w] = "dequeue"]
    /\ Hold(w, {})
    /\ UNCHANGED <<pgVars, points, redisVars, run, stale, doomed, procVars, client>>

-----------------------------------------------------------------------------
(* The fast lane: BLPOP, then LPOP up to the concurrency.                   *)
Dequeue(w) ==
    /\ RedisEnabled /\ w \notin broken
    /\ Move(w, "dequeue", "busy")
    /\ \E S \in SUBSET queue :
         /\ S # {} /\ Cardinality(S) <= Concurrency
         /\ queue' = queue \ S
         /\ Start(w, S)
    /\ UNCHANGED <<pgVars, points, apiBroken, broken, sweepVars, procVars, client>>

DequeueNothing(w) ==
    /\ ~RedisEnabled \/ w \in broken \/ queue = {}
    /\ Move(w, "dequeue", "reclaim")
    /\ UNCHANGED <<pgVars, points, redisVars, run, sweepVars, procVars, client>>

(* BLPOP raises: the id it may have popped is lost, the flag stays set.     *)
DequeueFails(w) ==
    /\ RedisEnabled /\ w \notin broken /\ "redis" \in Faults
    /\ Move(w, "dequeue", "reclaim")
    /\ broken' = broken \cup {w}
    /\ \E S \in SUBSET queue : Cardinality(S) <= 1 /\ queue' = queue \ S
    /\ UNCHANGED <<pgVars, points, apiBroken, run, sweepVars, procVars, client>>

(* An LPOP raises: the batch so far is processed all the same.              *)
DequeuePartly(w) ==
    /\ RedisEnabled /\ w \notin broken /\ "redis" \in Faults
    /\ Move(w, "dequeue", "busy")
    /\ broken' = broken \cup {w}
    /\ \E S, lost \in SUBSET queue :
         /\ S # {} /\ Cardinality(S) < Concurrency /\ Cardinality(lost) <= 1
         /\ queue' = queue \ (S \cup lost)
         /\ Start(w, S)
    /\ UNCHANGED <<pgVars, points, apiBroken, sweepVars, procVars, client>>

-----------------------------------------------------------------------------
(* reclaim_stale_jobs: list RUNNING rows past the cut-off, then write.      *)
\* Mutant: every RUNNING job is taken for stale.
StaleWithoutCutoff == {j \in Job : job[j].status = "RUNNING"}
StaleJobs == {j \in Job : job[j].status = "RUNNING" /\ job[j].started = "stale"}

ListStale(w) ==
    /\ Move(w, "reclaim", IF StaleJobs = {} THEN "purgeChunks" ELSE "requeue")
    /\ stale' = [stale EXCEPT ![w] =
                   [retry  |-> {j \in StaleJobs : job[j].attempts < MaxAttempts},
                    expire |-> {j \in StaleJobs : job[j].attempts >= MaxAttempts}]]
    /\ UNCHANGED <<pgVars, points, redisVars, run, held, doomed, procVars, client>>

WriteStale(w) ==
    /\ Move(w, "requeue", "purgeChunks")
    /\ job' = [j \in Job |-> IF ~JobExists(j) THEN job[j]
                             ELSE IF j \in stale[w].retry THEN Requeued(j)
                             ELSE IF j \in stale[w].expire THEN Ended(j, "FAILED")
                             ELSE job[j]]
    /\ stale' = [stale EXCEPT ![w] = NoStale]
    /\ UNCHANGED <<doc, chunk, points, redisVars, run, held, doomed, procVars, client>>

(* _purge_chunks: vectors of soft-deleted chunks, then their rows.          *)
\* Mutant: only the chunks of documents that are not deleted themselves.
DeletedRowsOfLive == {c \in Rows : chunk[c].deleted /\ DocLive(chunk[c].doc)}
DeletedRows == {c \in Rows : chunk[c].deleted}

PurgeVectors(w) ==
    /\ Move(w, "purgeChunks", IF DeletedRows = {} THEN "purgeDocs" ELSE "dropChunks")
    /\ Hold(w, DeletedRows)
    /\ points' = points \ DeletedRows
    /\ UNCHANGED <<pgVars, redisVars, run, stale, doomed, procVars, client>>

PurgeRows(w) ==
    /\ Move(w, "dropChunks", "purgeDocs")
    /\ chunk' = DropRows(held[w])
    /\ Hold(w, {})
    /\ UNCHANGED <<doc, job, points, redisVars, run, stale, doomed, procVars, client>>

(* _purge_documents: soft-deleted documents without a chunk row; the delete *)
(* waits for row locks and cascades to chunks and jobs.                     *)
Purgeable == {d \in Doc : doc[d].row = "deleted" /\ RowsOf(d) = {}}

ListPurgeable(w) ==
    /\ Move(w, "purgeDocs", IF Purgeable = {} THEN "claim" ELSE "dropDocs")
    /\ doomed' = [doomed EXCEPT ![w] = Purgeable]
    /\ UNCHANGED <<pgVars, points, redisVars, run, held, stale, procVars, client>>

DropDocuments(w) ==
    /\ Move(w, "dropDocs", "claim")
    /\ \A d \in doomed[w] : ~Locked(d)
    /\ doc' = [d \in Doc |-> IF d \in doomed[w] THEN [doc[d] EXCEPT !.row = "purged"] ELSE doc[d]]
    /\ job' = [j \in Job |-> IF job[j].doc \in doomed[w] THEN [job[j] EXCEPT !.status = "purged"]
                             ELSE job[j]]
    /\ chunk' = DropRows({c \in Chunk : chunk[c].doc \in doomed[w]})
    /\ doomed' = [doomed EXCEPT ![w] = {}]
    /\ UNCHANGED <<points, redisVars, run, held, stale, procVars, client>>

(* A maintenance pass that raises is logged; the loop goes on to the poll.  *)
MaintenanceFails(w) ==
    /\ "maintain" \in Faults
    /\ loop[w] \in {"reclaim", "requeue", "purgeChunks", "dropChunks", "purgeDocs", "dropDocs"}
    /\ loop' = [loop EXCEPT ![w] = "claim"]
    /\ Hold(w, {})
    /\ stale' = [stale EXCEPT ![w] = NoStale]
    /\ doomed' = [doomed EXCEPT ![w] = {}]
    /\ UNCHANGED <<pgVars, points, redisVars, run, procVars, client>>

-----------------------------------------------------------------------------
(* claim_pending: due PENDING jobs become RUNNING in one statement.         *)
DueJobs == {j \in Job : job[j].status = "PENDING" /\ job[j].due}

\* Mutants: a bare SELECT that leaves the rows PENDING / a claim without started_at.
ClaimBySelect(w) ==
    /\ DueJobs # {}
    /\ Move(w, "claim", "busy")
    /\ \E S \in SUBSET DueJobs :
         Cardinality(S) = AtMost(Concurrency, Cardinality(DueJobs)) /\ Start(w, S)
    /\ UNCHANGED <<pgVars, points, redisVars, sweepVars, procVars, client>>

ClaimUnstamped(w) ==
    /\ DueJobs # {}
    /\ Move(w, "claim", "busy")
    /\ \E S \in SUBSET DueJobs :
         /\ Cardinality(S) = AtMost(Concurrency, Cardinality(DueJobs))
         /\ job' = [j \in Job |-> IF j \in S THEN [job[j] EXCEPT !.status = "RUNNING"]
                                  ELSE job[j]]
         /\ Start(w, S)
    /\ UNCHANGED <<doc, chunk, points, redisVars, sweepVars, procVars, client>>

ClaimDue(w) ==
    /\ DueJobs # {}
    /\ Move(w, "claim", "busy")
    /\ \E S \in SUBSET DueJobs :
         /\ Cardinality(S) = AtMost(Concurrency, Cardinality(DueJobs))
         /\ job' = [j \in Job |-> IF j \in S THEN [job[j] EXCEPT !.status = "RUNNING",
                                                                 !.started = "fresh"]
                                  ELSE job[j]]
         /\ Start(w, S)
    /\ UNCHANGED <<doc, chunk, points, redisVars, sweepVars, procVars, client>>

ClaimNothing(w) ==
    /\ DueJobs = {}
    /\ Move(w, "claim", "dequeue")
    /\ UNCHANGED <<pgVars, points, redisVars, run, sweepVars, procVars, client>>

(* asyncio.gather returns once every job of the batch has ended.            *)
BatchDone(w) ==
    /\ Move(w, "busy", "dequeue")
    /\ \A j \in Job : run[w][j].stage = "none"
    /\ UNCHANGED <<pgVars, points, redisVars, run, sweepVars, procVars, client>>

-----------------------------------------------------------------------------
(* The process is killed: its transactions roll back, its tasks are gone.   *)
Crash(w) ==
    /\ loop[w] # "down" /\ crashes < MaxCrashes
    /\ loop' = [loop EXCEPT ![w] = "down"]
    /\ crashes' = crashes + 1
    /\ Start(w, {})
    /\ Hold(w, {})
    /\ stale' = [stale EXCEPT ![w] = NoStale]
    /\ doomed' = [doomed EXCEPT ![w] = {}]
    /\ UNCHANGED <<pgVars, points, redisVars, version, client>>

(* A new process, perhaps of a later release, with a new Redis client.      *)
Restart(w) ==
    /\ Move(w, "down", "boot")
    /\ \E v \in version[w]..MaxVersion : version' = [version EXCEPT ![w] = v]
    /\ broken' = broken \ {w}
    /\ UNCHANGED <<pgVars, points, queue, apiBroken, run, sweepVars, crashes, client>>

Maintain(w) ==
    \/ ListStale(w) \/ WriteStale(w) \/ PurgeVectors(w) \/ PurgeRows(w)
    \/ ListPurgeable(w) \/ DropDocuments(w)

LoopStep(w) ==
    \/ ListPoints(w) \/ ScanRows(w) \/ SweepOrphans(w)
    \/ Dequeue(w) \/ DequeueNothing(w) \/ Maintain(w)
    \/ ClaimDue(w) \/ ClaimNothing(w) \/ BatchDone(w) \/ Restart(w)

\* What may go wrong in the loop itself.
LoopFault(w) ==
    \/ ReconcileFails(w) \/ DequeueFails(w) \/ DequeuePartly(w) \/ MaintenanceFails(w) \/ Crash(w)

-----------------------------------------------------------------------------
(* The clock.  With Timely a job gets stale only once no worker runs it     *)
(* any more, and a back-off ends only once no reclaim pass still holds the  *)
(* job's row.                                                               *)
JobTimesOut(j) ==
    /\ job[j].status = "RUNNING" /\ job[j].started = "fresh"
    /\ Timely => \A w \in Worker : run[w][j].stage = "none"
    /\ job' = [job EXCEPT ![j].started = "stale"]
    /\ UNCHANGED <<doc, chunk, points, redisVars, loop, run, sweepVars, procVars, client>>

BackoffEnds(j) ==
    /\ job[j].status = "PENDING" /\ ~job[j].due
    /\ Timely => \A w \in Worker : j \notin stale[w].retry \cup stale[w].expire
    /\ job' = [job EXCEPT ![j].due = TRUE]
    /\ UNCHANGED <<doc, chunk, points, redisVars, loop, run, sweepVars, procVars, client>>
=============================================================================
