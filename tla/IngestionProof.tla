--------------------------- MODULE IngestionProof ---------------------------
(***************************************************************************)
(* Proofs about Ingestion for any number of documents, jobs, workers and   *)
(* clients, and any setting of the other constants.                        *)
(***************************************************************************)
EXTENDS Ingestion, TLAPS

RunType == [Worker -> [Job -> RunRecord]]

\* A run past the commit of its chunks knows them: what makes TypeOK inductive.
Committed ==
    \A w \in Worker, j \in Job :
        run[w][j].stage \in {"embed", "upsert", "finish"} => run[w][j].new \in Chunk

-----------------------------------------------------------------------------
(* Type correctness: how each way of updating a row keeps its type.        *)

LEMMA RunRowTyped ==
  ASSUME TypeOK, NEW w \in Worker, NEW j \in Job
  PROVE  /\ run[w][j] \in RunRecord
         /\ NotRunning \in RunRecord
         /\ [NotRunning EXCEPT !.stage = "load"] \in RunRecord
<1>1. run[w][j] \in RunRecord
  BY DEF TypeOK
<1> QED
  BY <1>1 DEF NotRunning, RunRecord, Stage, Failure

LEMMA RowsTyped ==
  ASSUME TypeOK
  PROVE  /\ \A d \in Doc : doc[d] \in DocRow
         /\ \A j \in Job : job[j] \in JobRow
         /\ \A c \in Chunk : chunk[c] \in ChunkRow
  BY DEF TypeOK

LEMMA BecomesTyped ==
  ASSUME TypeOK, NEW w \in Worker, NEW j \in Job, NEW r \in RunRecord, Becomes(w, j, r)
  PROVE  run' \in RunType
  BY DEF TypeOK, Becomes, RunType

LEMMA GotoTyped ==
  ASSUME TypeOK, NEW w \in Worker, NEW j \in Job, NEW s \in Stage, Goto(w, j, s)
  PROVE  run' \in RunType
<1>1. [run[w][j] EXCEPT !.stage = s] \in RunRecord
  BY RunRowTyped DEF RunRecord
<1> QED
  BY <1>1, BecomesTyped DEF Goto

LEMMA LeaveTyped ==
  ASSUME TypeOK, NEW w \in Worker, NEW j \in Job, Leave(w, j)
  PROVE  run' \in RunType
  BY RunRowTyped, BecomesTyped DEF Leave

LEMMA FailsTyped ==
  ASSUME TypeOK, NEW w \in Worker, NEW j \in Job, NEW kind \in Failure,
         Fails(w, j, kind) \/ FailsUncounted(w, j)
  PROVE  run' \in RunType
<1> DEFINE r == [run[w][j] EXCEPT !.stage = "fail", !.failure = kind]
           u == [run[w][j] EXCEPT !.stage = "fail", !.failure = "transient", !.attempt = 1]
<1>1. r \in RunRecord /\ u \in RunRecord
  BY RunRowTyped DEF RunRecord, Stage, Failure
<1> QED
  BY <1>1, BecomesTyped DEF Fails, FailsUncounted

LEMMA WithStatusTyped ==
  ASSUME TypeOK, NEW d, NEW s \in DocStatus
  PROVE  WithStatus(d, s) \in [Doc -> DocRow]
<1>1. CASE d \in Doc
  <2>1. doc[d] \in DocRow
    BY <1>1 DEF TypeOK
  <2>2. [doc[d] EXCEPT !.status = s] \in DocRow
    BY <2>1 DEF DocRow
  <2> QED
    BY <1>1, <2>2 DEF TypeOK, WithStatus
<1>2. CASE d \notin Doc
  BY <1>2 DEF TypeOK, WithStatus
<1> QED
  BY <1>1, <1>2

LEMMA JobRowsTyped ==
  ASSUME TypeOK, NEW j \in Job
  PROVE  /\ job[j] \in JobRow
         /\ Running(j) \in JobRow
         /\ Requeued(j) \in JobRow
         /\ \A s \in JobStatus : Ended(j, s) \in JobRow
<1>1. job[j] \in JobRow
  BY DEF TypeOK
<1>2. {"PENDING", "RUNNING"} \subseteq JobStatus
  BY DEF JobStatus
<1>3. Coalesce(job[j].started) \in StartedAt
  BY <1>1 DEF JobRow, Coalesce, StartedAt
<1>4. Running(j) \in JobRow
  BY <1>1, <1>2, <1>3 DEF JobRow, Running
<1>5. Requeued(j) \in JobRow
  BY <1>1, <1>2 DEF JobRow, Requeued, StartedAt
<1>6. \A s \in JobStatus : Ended(j, s) \in JobRow
  BY <1>1 DEF JobRow, Ended
<1> QED
  BY <1>1, <1>4, <1>5, <1>6

LEMMA WithJobTyped ==
  ASSUME TypeOK, NEW j \in Job, NEW row \in JobRow
  PROVE  WithJob(j, row) \in [Job -> JobRow]
  BY DEF TypeOK, WithJob

LEMMA DropRowsTyped ==
  ASSUME TypeOK, NEW S
  PROVE  NoRow \in ChunkRow /\ DropRows(S) \in [Chunk -> ChunkRow]
<1>1. NoRow \in ChunkRow
  BY DEF NoRow, ChunkRow
<1> QED
  BY <1>1 DEF TypeOK, DropRows

LEMMA InitTyped == Init => TypeOK
<1> SUFFICES ASSUME Init PROVE TypeOK
  OBVIOUS
<1>1. doc \in [Doc -> DocRow]
  BY DEF Init, DocRow, DocStatus
<1>2. job \in [Job -> JobRow]
  BY DEF Init, JobRow, JobStatus, StartedAt
<1>3. chunk \in [Chunk -> ChunkRow]
  BY DEF Init, ChunkRow, NoRow
<1>4. run \in [Worker -> [Job -> RunRecord]]
  <2>1. NotRunning \in RunRecord
    BY DEF NotRunning, RunRecord, Stage, Failure
  <2> QED
    BY <2>1 DEF Init
<1>5. /\ loop \in [Worker -> LoopPos]
      /\ held \in [Worker -> SUBSET Chunk]
      /\ doomed \in [Worker -> SUBSET Doc]
  BY DEF Init, LoopPos
<1>6. stale \in [Worker -> [retry : SUBSET Job, expire : SUBSET Job]]
  BY DEF Init, NoStale
<1>7. client \in [Client -> Request]
  BY DEF Init, NoRequest, Request
<1>8. version \in [Worker -> 1..MaxVersion] /\ crashes \in 0..MaxCrashes
  BY StoreAssumption DEF Init
<1> QED
  BY <1>1, <1>2, <1>3, <1>4, <1>5, <1>6, <1>7, <1>8 DEF Init, TypeOK

-----------------------------------------------------------------------------
LEMMA PipelineTyped ==
  ASSUME TypeOK, Committed, NEW w \in Worker, NEW j \in Job, PipelineStep(w, j)
  PROVE  TypeOK'
<1> DEFINE d == job[j].doc
<1>a. job[j] \in JobRow /\ run[w][j] \in RunRecord /\ version[w] \in Nat
  BY RunRowTyped DEF TypeOK
<1>b. /\ {"build", "commit", "embed", "upsert", "finish", "skip", "mark", "fail"} \subseteq Stage
      /\ {"transient", "terminal", "conflict"} \subseteq Failure
      /\ {"PENDING", "RUNNING", "SUCCEEDED", "FAILED"} \subseteq JobStatus
      /\ {"PROCESSING", "READY", "FAILED", "CONFLICT"} \subseteq DocStatus
  BY DEF Stage, Failure, JobStatus, DocStatus
<1> USE DEF othersOfRun, pgVars, redisVars, sweepVars, procVars
<1>1. CASE Load(w, j)
  <2> DEFINE s == IF UpToDate(w, d) THEN "skip" ELSE "mark"
             r == [run[w][j] EXCEPT !.stage = s, !.attempt = job[j].attempts + 1,
                                    !.print = version[w]]
  <2>1. job[j].attempts + 1 \in Nat /\ s \in Stage
    BY <1>a, <1>b DEF JobRow
  <2>2. r \in RunRecord
    BY <2>1, <1>a DEF RunRecord
  <2> QED
    BY <1>1, <2>2, BecomesTyped DEF Load, TypeOK, RunType
<1>2. CASE LoadMissing(w, j)
  BY <1>2, <1>b, FailsTyped DEF LoadMissing, TypeOK, RunType
<1>3. CASE Mark(w, j)
  <2>1. [Running(j) EXCEPT !.attempts = run[w][j].attempt] \in JobRow
    BY <1>a, JobRowsTyped DEF JobRow, RunRecord
  <2>2. job' \in [Job -> JobRow]
    BY <1>3, <2>1, WithJobTyped DEF Mark
  <2>3. doc' \in [Doc -> DocRow]
    BY <1>3, <1>b, WithStatusTyped DEF Mark
  <2>4. run' \in RunType
    BY <1>3, <1>b, GotoTyped DEF Mark
  <2> QED
    BY <1>3, <2>2, <2>3, <2>4 DEF Mark, TypeOK, RunType
<1>4. CASE Skip(w, j)
  <2>2. job' \in [Job -> JobRow]
    BY <1>4, <1>b, JobRowsTyped, WithJobTyped DEF Skip
  <2>3. run' \in RunType
    BY <1>4, LeaveTyped DEF Skip
  <2> QED
    BY <1>4, <2>2, <2>3 DEF Skip, TypeOK, RunType
<1>5. CASE Build(w, j)
  <2>1. run' \in RunType
    BY <1>5, <1>b, GotoTyped DEF Build
  <2> QED
    BY <1>5, <2>1 DEF Build, TypeOK, RunType
<1>6. CASE BuildRefused(w, j)
  <2>1. run' \in RunType
    BY <1>6, <1>b, FailsTyped DEF BuildRefused
  <2> QED
    BY <1>6, <2>1 DEF BuildRefused, TypeOK, RunType
<1>7. CASE Commit(w, j)
  <2> SUFFICES ASSUME NEW c \in Chunk,
                      chunk' = [DropRows(RowsOf(d)) EXCEPT ![c] = [doc |-> d, deleted |-> FALSE]],
                      Becomes(w, j, [run[w][j] EXCEPT !.stage = "embed", !.new = c])
               PROVE  TypeOK'
    BY <1>7 DEF Commit
  <2>1. [run[w][j] EXCEPT !.stage = "embed", !.new = c] \in RunRecord
    BY <1>a, <1>b DEF RunRecord
  <2>2. run' \in RunType
    BY <2>1, BecomesTyped
  <2>3. [doc |-> d, deleted |-> FALSE] \in ChunkRow
    BY <1>a DEF JobRow, ChunkRow
  <2>4. chunk' \in [Chunk -> ChunkRow]
    BY <2>3, DropRowsTyped
  <2>5. ASSUME d \in Doc PROVE [doc[d] EXCEPT !.print = run[w][j].print] \in DocRow
    <3>1. doc[d] \in DocRow /\ run[w][j].print \in Nat
      BY <2>5, <1>a DEF TypeOK, RunRecord
    <3> QED
      BY <3>1 DEF DocRow
  <2>6. doc' \in [Doc -> DocRow]
    BY <1>7, <2>5 DEF Commit, TypeOK
  <2> QED
    BY <1>7, <2>2, <2>4, <2>6 DEF Commit, TypeOK, RunType
<1>8. CASE Embed(w, j)
  <2>1. job' \in [Job -> JobRow]
    BY <1>8, JobRowsTyped, WithJobTyped DEF Embed
  <2>2. run' \in RunType
    BY <1>8, <1>b, GotoTyped DEF Embed
  <2> QED
    BY <1>8, <2>1, <2>2 DEF Embed, TypeOK, RunType
<1>9. CASE Upsert(w, j)
  <2>1. run' \in RunType
    BY <1>9, <1>b, GotoTyped DEF Upsert
  <2>2. points' \in SUBSET Chunk
    BY <1>9 DEF Upsert, At, TypeOK, Committed
  <2> QED
    BY <1>9, <2>1, <2>2 DEF Upsert, TypeOK, RunType
<1>10. CASE Finish(w, j)
  <2>2. job' \in [Job -> JobRow]
    BY <1>10, <1>b, JobRowsTyped, WithJobTyped DEF Finish
  <2>3. doc' \in [Doc -> DocRow]
    BY <1>10, <1>b, WithStatusTyped DEF Finish
  <2>4. run' \in RunType
    BY <1>10, LeaveTyped DEF Finish
  <2> QED
    BY <1>10, <2>2, <2>3, <2>4 DEF Finish, TypeOK, RunType
<1>11. CASE StageFails(w, j)
  <2>1. \E kind \in Failure : Fails(w, j, kind) \/ FailsUncounted(w, j)
    BY <1>11, <1>b DEF StageFails, KindsOf
  <2>2. run' \in RunType
    BY <2>1, FailsTyped
  <2> QED
    BY <1>11, <2>2 DEF StageFails, TypeOK, RunType
<1>12. CASE UpsertReplyLost(w, j)
  <2>1. run' \in RunType
    BY <1>12, <1>b, FailsTyped DEF UpsertReplyLost
  <2>2. points' \in SUBSET Chunk
    BY <1>12 DEF UpsertReplyLost, At, TypeOK, Committed
  <2> QED
    BY <1>12, <2>1, <2>2 DEF UpsertReplyLost, TypeOK, RunType
<1>13. CASE HandleRetry(w, j)
  <2>1. job' \in [Job -> JobRow]
    BY <1>13, JobRowsTyped, WithJobTyped DEF HandleRetry
  <2>2. run' \in RunType
    BY <1>13, LeaveTyped DEF HandleRetry
  <2> QED
    BY <1>13, <2>1, <2>2 DEF HandleRetry, TypeOK, RunType
<1>14. CASE HandleFinal(w, j)
  <2>2. job' \in [Job -> JobRow]
    BY <1>14, <1>b, JobRowsTyped, WithJobTyped DEF HandleFinal
  <2>3. doc' \in [Doc -> DocRow]
    BY <1>14, <1>b, WithStatusTyped DEF HandleFinal, TypeOK
  <2>4. run' \in RunType
    BY <1>14, LeaveTyped DEF HandleFinal
  <2> QED
    BY <1>14, <2>2, <2>3, <2>4 DEF HandleFinal, TypeOK, RunType
<1>15. CASE HandleLost(w, j)
  <2>1. run' \in RunType
    BY <1>15, LeaveTyped DEF HandleLost
  <2> QED
    BY <1>15, <2>1 DEF HandleLost, TypeOK, RunType
<1> QED
  BY <1>1, <1>2, <1>3, <1>4, <1>5, <1>6, <1>7, <1>8, <1>9, <1>10, <1>11, <1>12, <1>13, <1>14, <1>15
  DEF PipelineStep

LEMMA RequestTyped ==
  ASSUME TypeOK, NEW k \in Client, RequestStep(k)
  PROVE  TypeOK'
<1>a. /\ client[k] \in Request
      /\ NoRequest \in Request
      /\ client[k].job \subseteq Job /\ client[k].ids \subseteq Chunk
      /\ client[k].doc \in Doc \cup {NoDoc}
  BY DEF TypeOK, NoRequest, Request
<1>b. ASSUME NEW r \in Request, Serve(k, r) PROVE client' \in [Client -> Request]
  BY <1>b DEF TypeOK, Serve
<1>c. ASSUME Answer(k) PROVE client' \in [Client -> Request]
  BY <1>a, <1>b, <1>c DEF Answer
<1>d. \A d \in Doc \cup {NoDoc} : NewJob(d) \in JobRow
  BY DEF NewJob, JobRow, JobStatus, StartedAt
<1> USE DEF othersOfClient, pgVars, sweepVars, procVars
<1>1. CASE Upload(k)
  <2> SUFFICES ASSUME NEW d \in Doc, NEW j \in Job,
                      doc' = [doc EXCEPT ![d].row = "live"],
                      job' = [job EXCEPT ![j] = NewJob(d)],
                      Serve(k, [NoRequest EXCEPT !.pc = "enqueue", !.job = {j}])
               PROVE  TypeOK'
    BY <1>1 DEF Upload
  <2>1. [doc[d] EXCEPT !.row = "live"] \in DocRow
    BY RowsTyped DEF DocRow
  <2>2. doc' \in [Doc -> DocRow]
    BY <2>1 DEF TypeOK
  <2>3. job' \in [Job -> JobRow]
    BY <1>d DEF TypeOK
  <2>4. client' \in [Client -> Request]
    BY <1>a, <1>b DEF Request, NoRequest
  <2> QED
    BY <1>1, <2>2, <2>3, <2>4 DEF Upload, TypeOK
<1>2. CASE ReindexCheck(k)
  <2>1. client' \in [Client -> Request]
    BY <1>2, <1>a, <1>b DEF ReindexCheck, Request, NoRequest
  <2> QED
    BY <1>2, <2>1 DEF ReindexCheck, TypeOK
<1>3. CASE ReindexInsert(k)
  <2>1. job' \in [Job -> JobRow] /\ client' \in [Client -> Request]
    <3>1. CASE DocExists(client[k].doc)
      <4> SUFFICES ASSUME NEW j \in Job,
                          job' = [job EXCEPT ![j] = NewJob(client[k].doc)],
                          Serve(k, [NoRequest EXCEPT !.pc = "enqueue", !.job = {j}])
                   PROVE  job' \in [Job -> JobRow] /\ client' \in [Client -> Request]
        BY <1>3, <3>1 DEF ReindexInsert
      <4>1. job' \in [Job -> JobRow]
        BY <1>a, <1>d DEF TypeOK
      <4>2. client' \in [Client -> Request]
        BY <1>a, <1>b DEF Request, NoRequest
      <4> QED
        BY <4>1, <4>2
    <3>2. CASE ~DocExists(client[k].doc)
      BY <1>3, <3>2, <1>c DEF ReindexInsert, TypeOK
    <3> QED
      BY <3>1, <3>2
  <2> QED
    BY <1>3, <2>1 DEF ReindexInsert, TypeOK
<1>4. CASE Enqueue(k)
  BY <1>4, <1>a, <1>c DEF Enqueue, TypeOK
<1>5. CASE EnqueueFails(k)
  BY <1>5, <1>a, <1>c DEF EnqueueFails, TypeOK
<1>6. CASE DeleteRead(k)
  <2> SUFFICES ASSUME NEW d \in Doc,
                      Serve(k, [NoRequest EXCEPT !.pc = "delete", !.doc = d, !.ids = LiveRowsOf(d)])
               PROVE  TypeOK'
    BY <1>6 DEF DeleteRead
  <2>1. LiveRowsOf(d) \subseteq Chunk
    BY DEF LiveRowsOf, RowsOf
  <2>2. client' \in [Client -> Request]
    BY <2>1, <1>a, <1>b DEF Request, NoRequest
  <2> QED
    BY <1>6, <2>2 DEF DeleteRead, TypeOK
<1>7. CASE DeleteCommit(k)
  <2> DEFINE d == client[k].doc
  <2>1. ASSUME d \in Doc PROVE [doc[d] EXCEPT !.row = "deleted"] \in DocRow
    BY <2>1, RowsTyped DEF DocRow
  <2>2. doc' \in [Doc -> DocRow]
    BY <1>7, <2>1 DEF DeleteCommit, TypeOK
  <2>3. \A c \in Chunk : [chunk[c] EXCEPT !.deleted = TRUE] \in ChunkRow
    BY RowsTyped DEF ChunkRow
  <2>4. chunk' \in [Chunk -> ChunkRow]
    BY <1>7, <2>3 DEF DeleteCommit, TypeOK
  <2>5. client' \in [Client -> Request]
    BY <1>7, <1>a, <1>b DEF DeleteCommit, Request, NoRequest
  <2> QED
    BY <1>7, <2>2, <2>4, <2>5 DEF DeleteCommit, TypeOK
<1>8. CASE DeleteVectors(k)
  BY <1>8, <1>c DEF DeleteVectors, TypeOK
<1>9. CASE Abandon(k)
  BY <1>9, <1>c DEF Abandon, TypeOK
<1> QED
  BY <1>1, <1>2, <1>3, <1>4, <1>5, <1>6, <1>7, <1>8, <1>9 DEF RequestStep

LEMMA StartTyped ==
  ASSUME TypeOK, NEW w \in Worker, NEW S, Start(w, S)
  PROVE  run' \in RunType
<1>1. NotRunning \in RunRecord /\ [NotRunning EXCEPT !.stage = "load"] \in RunRecord
  BY DEF NotRunning, RunRecord, Stage, Failure
<1> QED
  BY <1>1 DEF Start, TypeOK, RunType

LEMMA LoopTyped ==
  ASSUME TypeOK, NEW w \in Worker, LoopStep(w) \/ LoopFault(w)
  PROVE  TypeOK'
<1>a. \A from, to : Move(w, from, to) /\ to \in LoopPos => loop' \in [Worker -> LoopPos]
  BY DEF TypeOK, Move
<1>b. \A S \in SUBSET Chunk : Hold(w, S) => held' \in [Worker -> SUBSET Chunk]
  BY DEF TypeOK, Hold
<1>c. /\ {"boot", "scan", "sweep", "dequeue", "reclaim", "requeue", "down"} \subseteq LoopPos
      /\ {"purgeChunks", "dropChunks", "purgeDocs", "dropDocs", "claim", "busy"} \subseteq LoopPos
  BY DEF LoopPos
<1>d. NoStale \in [retry : SUBSET Job, expire : SUBSET Job]
  BY DEF NoStale
<1>e. held[w] \subseteq Chunk /\ held[w] \ Rows \subseteq Chunk /\ DeletedRows \subseteq Chunk
  BY DEF TypeOK, DeletedRows, Rows
<1> USE DEF pgVars, redisVars, sweepVars, procVars
<1>1. CASE ListPoints(w)
  BY <1>1, <1>a, <1>b, <1>c DEF ListPoints, TypeOK
<1>2. CASE ScanRows(w)
  BY <1>2, <1>a, <1>b, <1>c, <1>e DEF ScanRows, TypeOK
<1>3. CASE SweepOrphans(w)
  BY <1>3, <1>a, <1>b, <1>c DEF SweepOrphans, TypeOK
<1>4. CASE Dequeue(w)
  <2>1. run' \in RunType
    BY <1>4, StartTyped DEF Dequeue
  <2>2. queue' \subseteq Job
    BY <1>4 DEF Dequeue, TypeOK
  <2> QED
    BY <1>4, <2>1, <2>2, <1>a, <1>c DEF Dequeue, TypeOK, RunType
<1>5. CASE DequeueNothing(w)
  BY <1>5, <1>a, <1>c DEF DequeueNothing, TypeOK
<1>6. CASE ListStale(w)
  <2>1. StaleJobs \subseteq Job
    BY DEF StaleJobs
  <2>2. stale' \in [Worker -> [retry : SUBSET Job, expire : SUBSET Job]]
    BY <1>6, <2>1 DEF ListStale, TypeOK
  <2> QED
    BY <1>6, <2>2, <1>a, <1>c DEF ListStale, TypeOK
<1>7. CASE WriteStale(w)
  <2>1. {"FAILED"} \subseteq JobStatus
    BY DEF JobStatus
  <2>2. job' \in [Job -> JobRow]
    BY <1>7, <2>1, JobRowsTyped DEF WriteStale
  <2> QED
    BY <1>7, <2>2, <1>a, <1>c, <1>d DEF WriteStale, TypeOK
<1>8. CASE PurgeVectors(w)
  BY <1>8, <1>a, <1>b, <1>c, <1>e DEF PurgeVectors, TypeOK
<1>9. CASE PurgeRows(w)
  BY <1>9, <1>a, <1>b, <1>c, DropRowsTyped DEF PurgeRows, TypeOK
<1>10. CASE ListPurgeable(w)
  <2>1. Purgeable \subseteq Doc
    BY DEF Purgeable
  <2> QED
    BY <1>10, <2>1, <1>a, <1>c DEF ListPurgeable, TypeOK
<1>11. CASE DropDocuments(w)
  <2>1. \A d \in Doc : [doc[d] EXCEPT !.row = "purged"] \in DocRow
    BY RowsTyped DEF DocRow
  <2>2. doc' \in [Doc -> DocRow]
    BY <1>11, <2>1 DEF DropDocuments, TypeOK
  <2>3. \A j \in Job : [job[j] EXCEPT !.status = "purged"] \in JobRow
    BY RowsTyped DEF JobRow
  <2>4. job' \in [Job -> JobRow]
    BY <1>11, <2>3 DEF DropDocuments, TypeOK
  <2>5. chunk' \in [Chunk -> ChunkRow]
    BY <1>11, DropRowsTyped DEF DropDocuments
  <2> QED
    BY <1>11, <2>2, <2>4, <2>5, <1>a, <1>c DEF DropDocuments, TypeOK
<1>12. CASE ClaimDue(w)
  <2> SUFFICES ASSUME NEW S \in SUBSET DueJobs,
                      job' = [j \in Job |-> IF j \in S
                                            THEN [job[j] EXCEPT !.status = "RUNNING",
                                                                !.started = "fresh"]
                                            ELSE job[j]],
                      Start(w, S)
               PROVE  TypeOK'
    BY <1>12 DEF ClaimDue
  <2>1. \A j \in Job : [job[j] EXCEPT !.status = "RUNNING", !.started = "fresh"] \in JobRow
    BY RowsTyped DEF JobRow, JobStatus, StartedAt
  <2>2. job' \in [Job -> JobRow]
    BY <2>1 DEF TypeOK
  <2>3. run' \in RunType
    BY StartTyped
  <2> QED
    BY <1>12, <2>2, <2>3, <1>a, <1>c DEF ClaimDue, TypeOK, RunType
<1>13. CASE ClaimNothing(w)
  BY <1>13, <1>a, <1>c DEF ClaimNothing, TypeOK
<1>14. CASE BatchDone(w)
  BY <1>14, <1>a, <1>c DEF BatchDone, TypeOK
<1>15. CASE Restart(w)
  <2>1. version' \in [Worker -> 1..MaxVersion]
    BY <1>15 DEF Restart, TypeOK
  <2> QED
    BY <1>15, <2>1, <1>a, <1>c DEF Restart, TypeOK
<1>16. CASE ReconcileFails(w)
  BY <1>16, <1>b, <1>c DEF ReconcileFails, TypeOK
<1>17. CASE DequeueFails(w)
  BY <1>17, <1>a, <1>c DEF DequeueFails, TypeOK
<1>18. CASE MaintenanceFails(w)
  BY <1>18, <1>b, <1>c, <1>d DEF MaintenanceFails, TypeOK
<1>19. CASE Crash(w)
  <2>1. run' \in RunType
    BY <1>19, StartTyped DEF Crash
  <2>2. crashes' \in 0..MaxCrashes
    BY <1>19, StoreAssumption DEF Crash, TypeOK
  <2> QED
    BY <1>19, <2>1, <2>2, <1>b, <1>c, <1>d DEF Crash, TypeOK, RunType
<1>20. CASE DequeuePartly(w)
  <2>1. run' \in RunType
    BY <1>20, StartTyped DEF DequeuePartly
  <2>2. queue' \subseteq Job
    BY <1>20 DEF DequeuePartly, TypeOK
  <2> QED
    BY <1>20, <2>1, <2>2, <1>a, <1>c DEF DequeuePartly, TypeOK, RunType
<1> QED
  BY <1>1, <1>2, <1>3, <1>4, <1>5, <1>6, <1>7, <1>8, <1>9, <1>10, <1>11, <1>12, <1>13, <1>14,
     <1>15, <1>16, <1>17, <1>18, <1>19, <1>20 DEF LoopStep, LoopFault, Maintain

LEMMA ClockTyped ==
  ASSUME TypeOK, NEW j \in Job, JobTimesOut(j) \/ BackoffEnds(j)
  PROVE  TypeOK'
<1>1. [job[j] EXCEPT !.started = "stale"] \in JobRow
  BY RowsTyped DEF JobRow, StartedAt
<1>2. [job[j] EXCEPT !.due = TRUE] \in JobRow
  BY RowsTyped DEF JobRow
<1>3. job' \in [Job -> JobRow]
  BY <1>1, <1>2 DEF JobTimesOut, BackoffEnds, TypeOK
<1> QED
  BY <1>3 DEF JobTimesOut, BackoffEnds, TypeOK, redisVars, sweepVars, procVars

-----------------------------------------------------------------------------
(* What a step of the pipeline may do to the runs and to the jobs.         *)

LEMMA PipelineEffect ==
  ASSUME TypeOK, NEW w \in Worker, NEW j \in Job, PipelineStep(w, j)
  PROVE  /\ run[w][j].stage # "none"
         /\ \E r : Becomes(w, j, r)
         /\ UNCHANGED <<loop, redisVars, sweepVars, procVars, client>>
         /\ \/ UNCHANGED job
            \/ \E n : job' = WithJob(j, [Running(j) EXCEPT !.attempts = n])
            \/ job' = WithJob(j, Running(j))
            \/ job' = WithJob(j, Requeued(j)) /\ Leave(w, j)
            \/ \E st \in {"SUCCEEDED", "FAILED"} : job' = WithJob(j, Ended(j, st)) /\ Leave(w, j)
<1> USE DEF othersOfRun, pgVars, At, Goto, Leave, Fails, FailsUncounted
<1>1. CASE Load(w, j)
  BY <1>1 DEF Load
<1>2. CASE LoadMissing(w, j)
  BY <1>2 DEF LoadMissing
<1>3. CASE Mark(w, j)
  BY <1>3 DEF Mark
<1>4. CASE Skip(w, j)
  BY <1>4 DEF Skip
<1>5. CASE Build(w, j)
  BY <1>5 DEF Build
<1>6. CASE BuildRefused(w, j)
  BY <1>6 DEF BuildRefused
<1>7. CASE Commit(w, j)
  BY <1>7 DEF Commit
<1>8. CASE Embed(w, j)
  BY <1>8 DEF Embed
<1>9. CASE Upsert(w, j)
  BY <1>9 DEF Upsert
<1>10. CASE Finish(w, j)
  BY <1>10 DEF Finish
<1>11. CASE StageFails(w, j)
  <2>1. run[w][j].stage # "none"
    BY <1>11, StoreAssumption DEF StageFails, FaultPoints
  <2> QED
    BY <1>11, <2>1 DEF StageFails
<1>12. CASE UpsertReplyLost(w, j)
  BY <1>12 DEF UpsertReplyLost
<1>13. CASE HandleRetry(w, j)
  BY <1>13 DEF HandleRetry
<1>14. CASE HandleFinal(w, j)
  BY <1>14 DEF HandleFinal
<1>15. CASE HandleLost(w, j)
  BY <1>15 DEF HandleLost
<1> QED
  BY <1>1, <1>2, <1>3, <1>4, <1>5, <1>6, <1>7, <1>8, <1>9, <1>10, <1>11, <1>12, <1>13, <1>14, <1>15
  DEF PipelineStep

LEMMA PipelineCommitted ==
  ASSUME TypeOK, Committed, NEW w \in Worker, NEW j \in Job, PipelineStep(w, j)
  PROVE  Committed'
<1>1. ASSUME NEW r \in RunRecord, Becomes(w, j, r),
             r.stage \in {"embed", "upsert", "finish"} => r.new \in Chunk
      PROVE  Committed'
  BY <1>1 DEF TypeOK, Becomes, Committed
<1>2. /\ run[w][j] \in RunRecord
      /\ NotRunning \in RunRecord /\ NotRunning.stage = "none"
      /\ \A s \in Stage : [run[w][j] EXCEPT !.stage = s] \in RunRecord
      /\ \A s \in Stage : [run[w][j] EXCEPT !.stage = s].stage = s
      /\ \A s \in Stage : [run[w][j] EXCEPT !.stage = s].new = run[w][j].new
  BY RunRowTyped DEF RunRecord, NotRunning
<1>3. \A s \in {"build", "commit"} : s \in Stage /\ (Goto(w, j, s) => Committed')
  BY <1>1, <1>2 DEF Goto, Stage
<1>4. \A s \in {"upsert", "finish"} :
         run[w][j].stage \in {"embed", "upsert"} /\ Goto(w, j, s) => Committed'
  <2> SUFFICES ASSUME NEW s \in {"upsert", "finish"}, run[w][j].stage \in {"embed", "upsert"},
                      Goto(w, j, s)
               PROVE  Committed'
    OBVIOUS
  <2> DEFINE r == [run[w][j] EXCEPT !.stage = s]
  <2>1. s \in Stage /\ run[w][j].new \in Chunk
    BY DEF Stage, Committed
  <2>2. r \in RunRecord /\ r.new \in Chunk
    BY <1>2, <2>1
  <2>3. Becomes(w, j, r)
    BY DEF Goto
  <2> QED
    BY <1>1, <2>2, <2>3
<1>5. Leave(w, j) => Committed'
  BY <1>1, <1>2 DEF Leave
<1>6. ASSUME NEW kind \in Failure, Fails(w, j, kind) \/ FailsUncounted(w, j)
      PROVE  Committed'
  <2> DEFINE r == [run[w][j] EXCEPT !.stage = "fail", !.failure = kind]
             u == [run[w][j] EXCEPT !.stage = "fail", !.failure = "transient", !.attempt = 1]
  <2>1. r \in RunRecord /\ r.stage = "fail"
    BY RunRowTyped DEF RunRecord, Stage, Failure
  <2>2. u \in RunRecord /\ u.stage = "fail"
    BY RunRowTyped DEF RunRecord, Stage, Failure
  <2>3. CASE Fails(w, j, kind)
    BY <1>1, <2>1, <2>3 DEF Fails
  <2>4. CASE FailsUncounted(w, j)
    BY <1>1, <2>2, <2>4 DEF FailsUncounted
  <2> QED
    BY <1>6, <2>3, <2>4
<1>7. {"transient", "terminal", "conflict"} \subseteq Failure
  BY DEF Failure
<1> USE DEF At
<1>8. CASE Load(w, j)
  <2> DEFINE s == IF UpToDate(w, job[j].doc) THEN "skip" ELSE "mark"
             r == [run[w][j] EXCEPT !.stage = s, !.attempt = job[j].attempts + 1,
                                    !.print = version[w]]
  <2>1. job[j].attempts + 1 \in Nat /\ s \in Stage /\ version[w] \in Nat
    BY RowsTyped DEF JobRow, Stage, TypeOK
  <2>2. r \in RunRecord /\ r.stage \in {"skip", "mark"}
    BY <2>1, <1>2 DEF RunRecord
  <2> QED
    BY <1>1, <1>8, <2>2 DEF Load
<1>9. CASE Commit(w, j)
  <2> SUFFICES ASSUME NEW c \in Chunk,
                      Becomes(w, j, [run[w][j] EXCEPT !.stage = "embed", !.new = c])
               PROVE  Committed'
    BY <1>9 DEF Commit
  <2>1. [run[w][j] EXCEPT !.stage = "embed", !.new = c] \in RunRecord
    BY <1>2 DEF RunRecord, Stage
  <2>2. [run[w][j] EXCEPT !.stage = "embed", !.new = c].new = c
    BY <1>2 DEF RunRecord
  <2> QED
    BY <1>1, <2>1, <2>2
<1>10. CASE StageFails(w, j)
  BY <1>6, <1>7, <1>10 DEF StageFails, KindsOf
<1>11. CASE LoadMissing(w, j) \/ BuildRefused(w, j) \/ UpsertReplyLost(w, j)
  BY <1>6, <1>7, <1>11 DEF LoadMissing, BuildRefused, UpsertReplyLost
<1>12. CASE Mark(w, j) \/ Build(w, j)
  BY <1>3, <1>12 DEF Mark, Build
<1>13. CASE Embed(w, j) \/ Upsert(w, j)
  BY <1>4, <1>13 DEF Embed, Upsert
<1>14. CASE Skip(w, j) \/ Finish(w, j) \/ HandleRetry(w, j) \/ HandleFinal(w, j) \/ HandleLost(w, j)
  BY <1>5, <1>14 DEF Skip, Finish, HandleRetry, HandleFinal, HandleLost
<1> QED
  BY <1>8, <1>9, <1>10, <1>11, <1>12, <1>13, <1>14 DEF PipelineStep

LEMMA StartEffect ==
  ASSUME TypeOK, NEW w \in Worker, NEW S, Start(w, S)
  PROVE  /\ \A j \in Job : run'[w][j].stage = IF j \in S THEN "load" ELSE "none"
         /\ \A v \in Worker \ {w} : run'[v] = run[v]
<1>1. NotRunning.stage = "none" /\ [NotRunning EXCEPT !.stage = "load"].stage = "load"
  BY DEF NotRunning
<1> QED
  BY <1>1 DEF Start, TypeOK

LEMMA LoopEffect ==
  ASSUME TypeOK, NEW w \in Worker, LoopStep(w) \/ LoopFault(w)
  PROVE  UNCHANGED run \/ \E S : Start(w, S)
  BY DEF LoopStep, LoopFault, Maintain, ListPoints, ScanRows, SweepOrphans, Dequeue,
         DequeueNothing, ListStale, WriteStale, PurgeVectors, PurgeRows, ListPurgeable,
         DropDocuments, ClaimDue, ClaimNothing, BatchDone, Restart, ReconcileFails,
         DequeueFails, DequeuePartly, MaintenanceFails, Crash

LEMMA RequestEffect ==
  ASSUME NEW k \in Client, RequestStep(k)
  PROVE  UNCHANGED <<loop, run, sweepVars, procVars, broken>>
  BY DEF RequestStep, Upload, ReindexCheck, ReindexInsert, Enqueue, EnqueueFails, DeleteRead,
         DeleteCommit, DeleteVectors, Abandon, othersOfClient

LEMMA StepCommitted ==
  ASSUME TypeOK, Committed, [Next]_vars
  PROVE  Committed'
<1>1. CASE UNCHANGED run
  BY <1>1 DEF Committed
<1>2. ASSUME NEW w \in Worker, NEW S, Start(w, S)
      PROVE  Committed'
  BY <1>2, StartEffect DEF Committed
<1>3. ASSUME NEW w \in Worker, LoopStep(w) \/ LoopFault(w)
      PROVE  Committed'
  BY <1>1, <1>2, <1>3, LoopEffect
<1>4. CASE \E k \in Client : RequestStep(k)
  BY <1>1, <1>4, RequestEffect
<1>5. CASE \E j \in Job : JobTimesOut(j) \/ BackoffEnds(j)
  BY <1>1, <1>5 DEF JobTimesOut, BackoffEnds
<1>6. CASE UNCHANGED vars
  BY <1>1, <1>6 DEF vars
<1> QED
  BY <1>3, <1>4, <1>5, <1>6, PipelineCommitted DEF Next

(* Every variable keeps its type in every reachable state: the rows hold    *)
(* only statuses of their enumerations, references name rows of their table *)
(* and only a run past its CHUNK commit has chunks to upsert.               *)
THEOREM TypeCorrect == Spec => [](TypeOK /\ Committed)
<1>1. Init => TypeOK /\ Committed
  BY InitTyped DEF Init, Committed, NotRunning
<1>2. ASSUME TypeOK, Committed, [Next]_vars
      PROVE  TypeOK' /\ Committed'
  <2>1. TypeOK'
    <3>1. CASE UNCHANGED vars
      BY <1>2, <3>1 DEF TypeOK, vars
    <3> QED
      BY <1>2, <3>1, PipelineTyped, RequestTyped, LoopTyped, ClockTyped DEF Next
  <2> QED
    BY <1>2, <2>1, StepCommitted
<1> QED
  BY <1>1, <1>2, PTL DEF Spec

-----------------------------------------------------------------------------
(* A RUNNING job always carries started_at.                                 *)

LEMMA StatusOfRunning ==
  ASSUME TypeOK, NEW j \in Job
  PROVE  Running(j).status = "RUNNING" /\ Running(j).started = Coalesce(job[j].started)
  BY RowsTyped DEF Running, JobRow

LEMMA StatusOfRequeued ==
  ASSUME TypeOK, NEW j \in Job
  PROVE  /\ Requeued(j).status = "PENDING" /\ Requeued(j).due = FALSE
         /\ Requeued(j).attempts = job[j].attempts /\ Requeued(j).doc = job[j].doc
  BY RowsTyped DEF Requeued, JobRow

LEMMA StatusOfEnded ==
  ASSUME TypeOK, NEW j \in Job, NEW st
  PROVE  /\ Ended(j, st).status = st
         /\ Ended(j, st).attempts = job[j].attempts /\ Ended(j, st).doc = job[j].doc
  BY RowsTyped DEF Ended, JobRow

LEMMA StatusOfMarked ==
  ASSUME TypeOK, NEW j \in Job, NEW n
  PROVE  /\ [Running(j) EXCEPT !.attempts = n].status = "RUNNING"
         /\ [Running(j) EXCEPT !.attempts = n].started = Coalesce(job[j].started)
  BY RowsTyped DEF Running, JobRow

LEMMA PipelineJobs ==
  ASSUME TypeOK, NEW w \in Worker, NEW j \in Job, PipelineStep(w, j)
  PROVE  /\ \A i \in Job \ {j} : job'[i] = job[i]
         /\ ~JobExists(j) => job'[j] = job[j]
         /\ \/ job'[j] = job[j]
            \/ job'[j].status = "RUNNING" /\ job'[j].started = Coalesce(job[j].started)
            \/ job'[j].status \in {"PENDING", "SUCCEEDED", "FAILED"} /\ Leave(w, j)
<1>1. ASSUME NEW row, job' = WithJob(j, row)
      PROVE  /\ \A i \in Job \ {j} : job'[i] = job[i]
             /\ job'[j] = IF JobExists(j) THEN row ELSE job[j]
  BY <1>1 DEF WithJob, TypeOK
<1>2. CASE UNCHANGED job
  BY <1>2
<1>3. ASSUME NEW n, job' = WithJob(j, [Running(j) EXCEPT !.attempts = n])
      PROVE  /\ \A i \in Job \ {j} : job'[i] = job[i]
             /\ ~JobExists(j) => job'[j] = job[j]
             /\ \/ job'[j] = job[j]
                \/ job'[j].status = "RUNNING" /\ job'[j].started = Coalesce(job[j].started)
  <2> DEFINE row == [Running(j) EXCEPT !.attempts = n]
  <2>1. row.status = "RUNNING" /\ row.started = Coalesce(job[j].started)
    BY StatusOfMarked
  <2>2. job' = WithJob(j, row)
    BY <1>3
  <2> HIDE DEF row
  <2> QED
    BY <1>1, <2>1, <2>2
<1>4. CASE job' = WithJob(j, Running(j))
  <2>1. Running(j).status = "RUNNING" /\ Running(j).started = Coalesce(job[j].started)
    BY StatusOfRunning
  <2> QED
    BY <1>1, <1>4, <2>1
<1>5. CASE job' = WithJob(j, Requeued(j)) /\ Leave(w, j)
  <2>1. Requeued(j).status = "PENDING"
    BY StatusOfRequeued
  <2> QED
    BY <1>1, <1>5, <2>1
<1>6. CASE \E st \in {"SUCCEEDED", "FAILED"} : job' = WithJob(j, Ended(j, st)) /\ Leave(w, j)
  <2>1. PICK st \in {"SUCCEEDED", "FAILED"} : job' = WithJob(j, Ended(j, st)) /\ Leave(w, j)
    BY <1>6
  <2>2. Ended(j, st).status = st
    BY StatusOfEnded
  <2> QED
    BY <1>1, <2>1, <2>2
<1> QED
  BY <1>2, <1>3, <1>4, <1>5, <1>6, PipelineEffect

LEMMA RequestJobs ==
  ASSUME TypeOK, NEW k \in Client, RequestStep(k)
  PROVE  \A j \in Job : \/ job'[j] = job[j]
                        \/ job[j].status = "absent" /\ job'[j].status = "PENDING"
<1>a. \A d : NewJob(d).status = "PENDING"
  BY DEF NewJob
<1>b. ASSUME NEW j \in Job, NEW d, job[j].status = "absent",
             job' = [job EXCEPT ![j] = NewJob(d)]
      PROVE  \A i \in Job : \/ job'[i] = job[i]
                            \/ job[i].status = "absent" /\ job'[i].status = "PENDING"
  BY <1>a, <1>b DEF TypeOK
<1>1. CASE Upload(k)
  BY <1>1, <1>b DEF Upload
<1>2. CASE ReindexInsert(k)
  BY <1>2, <1>b DEF ReindexInsert
<1> QED
  BY <1>1, <1>2 DEF RequestStep, ReindexCheck, Enqueue, EnqueueFails, DeleteRead,
     DeleteCommit, DeleteVectors, Abandon, pgVars

LEMMA LoopJobs ==
  ASSUME TypeOK, NEW w \in Worker, LoopStep(w) \/ LoopFault(w)
  PROVE  \/ UNCHANGED job
         \/ WriteStale(w) \/ DropDocuments(w) \/ ClaimDue(w)
  BY DEF LoopStep, LoopFault, Maintain, ListPoints, ScanRows, SweepOrphans, Dequeue,
         DequeueNothing, ListStale, PurgeVectors, PurgeRows, ListPurgeable,
         ClaimNothing, BatchDone, Restart, ReconcileFails, DequeueFails, DequeuePartly, MaintenanceFails,
         Crash, pgVars

LEMMA DropDocumentsJobs ==
  ASSUME TypeOK, NEW w \in Worker, DropDocuments(w), NEW j \in Job
  PROVE  \/ job'[j] = job[j]
         \/ job'[j].status = "purged" /\ job'[j].attempts = job[j].attempts
  BY RowsTyped DEF DropDocuments, JobRow

LEMMA ClockJobs ==
  ASSUME TypeOK, NEW j \in Job, JobTimesOut(j) \/ BackoffEnds(j)
  PROVE  /\ \A i \in Job \ {j} : job'[i] = job[i]
         /\ job'[j].attempts = job[j].attempts
         /\ \/ /\ JobTimesOut(j)
               /\ job'[j].status = "RUNNING" /\ job'[j].started = "stale"
            \/ /\ BackoffEnds(j)
               /\ job'[j].status = "PENDING" /\ job'[j].due
<1>1. job[j] \in JobRow
  BY RowsTyped
<1>2. CASE JobTimesOut(j)
  <2>1. job'[j] = [job[j] EXCEPT !.started = "stale"]
    BY <1>2 DEF JobTimesOut, TypeOK
  <2> QED
    BY <1>1, <1>2, <2>1 DEF JobTimesOut, TypeOK, JobRow
<1>3. CASE BackoffEnds(j)
  <2>1. job'[j] = [job[j] EXCEPT !.due = TRUE]
    BY <1>3 DEF BackoffEnds, TypeOK
  <2> QED
    BY <1>1, <1>3, <2>1 DEF BackoffEnds, TypeOK, JobRow
<1> QED
  BY <1>2, <1>3

LEMMA ClaimJobs ==
  ASSUME TypeOK, NEW w \in Worker, ClaimDue(w)
  PROVE  \E S \in SUBSET DueJobs :
            /\ Start(w, S)
            /\ \A j \in Job \ S : job'[j] = job[j]
            /\ \A j \in S : /\ job'[j].status = "RUNNING" /\ job'[j].started = "fresh"
                           /\ job'[j].attempts = job[j].attempts
<1>1. PICK S \in SUBSET DueJobs :
         /\ job' = [j \in Job |-> IF j \in S THEN [job[j] EXCEPT !.status = "RUNNING",
                                                                  !.started = "fresh"]
                                  ELSE job[j]]
         /\ Start(w, S)
  BY DEF ClaimDue
<1>2. \A j \in S : /\ job'[j].status = "RUNNING" /\ job'[j].started = "fresh"
                  /\ job'[j].attempts = job[j].attempts
  BY <1>1, RowsTyped DEF DueJobs, JobRow
<1> QED
  BY <1>1, <1>2

LEMMA StaleJobsWritten ==
  ASSUME TypeOK, NEW w \in Worker, WriteStale(w), NEW j \in Job
  PROVE  /\ j \notin stale[w].retry \cup stale[w].expire => job'[j] = job[j]
         /\ ~JobExists(j) => job'[j] = job[j]
         /\ JobExists(j) /\ j \in stale[w].retry
              => job'[j] = Requeued(j)
         /\ JobExists(j) /\ j \in stale[w].expire /\ j \notin stale[w].retry
              => job'[j] = Ended(j, "FAILED")
  BY DEF WriteStale

(* Every claim and every transition to RUNNING leaves started_at set, so a  *)
(* job whose worker dies is always found by list_stale_running.             *)
THEOREM ReclaimableAlways == Spec => []RunningIsReclaimable
<1>1. Init => RunningIsReclaimable
  BY DEF Init, RunningIsReclaimable
<1>2. ASSUME TypeOK, RunningIsReclaimable, [Next]_vars
      PROVE  RunningIsReclaimable'
  <2>1. ASSUME NEW w \in Worker, NEW j \in Job, PipelineStep(w, j)
        PROVE  RunningIsReclaimable'
    BY <1>2, <2>1, PipelineJobs DEF RunningIsReclaimable, Coalesce
  <2>2. ASSUME NEW k \in Client, RequestStep(k)
        PROVE  RunningIsReclaimable'
    BY <1>2, <2>2, RequestJobs DEF RunningIsReclaimable
  <2>3. ASSUME NEW w \in Worker, LoopStep(w) \/ LoopFault(w)
        PROVE  RunningIsReclaimable'
    <3>1. CASE UNCHANGED job
      BY <1>2, <3>1 DEF RunningIsReclaimable
    <3>2. CASE WriteStale(w)
      <4>1. \A j \in Job : Requeued(j).status = "PENDING" /\ Ended(j, "FAILED").status = "FAILED"
        BY <1>2, StatusOfRequeued, StatusOfEnded
      <4>2. \A j \in Job : job'[j] \in {job[j], Requeued(j), Ended(j, "FAILED")}
        BY <1>2, <3>2, StaleJobsWritten
      <4> QED
        BY <1>2, <4>1, <4>2 DEF RunningIsReclaimable
    <3>3. CASE DropDocuments(w)
      BY <1>2, <3>3, DropDocumentsJobs DEF RunningIsReclaimable
    <3>4. CASE ClaimDue(w)
      BY <1>2, <3>4, ClaimJobs DEF RunningIsReclaimable
    <3> QED
      BY <1>2, <2>3, <3>1, <3>2, <3>3, <3>4, LoopJobs
  <2>4. ASSUME NEW j \in Job, JobTimesOut(j) \/ BackoffEnds(j)
        PROVE  RunningIsReclaimable'
    BY <1>2, <2>4, ClockJobs DEF RunningIsReclaimable
  <2>5. CASE UNCHANGED vars
    BY <1>2, <2>5 DEF vars, RunningIsReclaimable
  <2> QED
    BY <1>2, <2>1, <2>2, <2>3, <2>4, <2>5 DEF Next
<1> QED
  BY <1>1, <1>2, TypeCorrect, PTL DEF Spec

-----------------------------------------------------------------------------
(* The start-up reconciliation against the pipelines of other workers.      *)

LEMMA RowsGrowFreshly ==
  ASSUME TypeOK, [Next]_vars
  PROVE  Rows' \subseteq Rows \/ \E c \in Chunk : Fresh(c) /\ Rows' \subseteq Rows \cup {c}
<1>1. \A S : {c \in Chunk : DropRows(S)[c].doc # NoDoc} \subseteq Rows
  BY DEF DropRows, Rows, NoRow
<1>2. ASSUME NEW w \in Worker, NEW j \in Job, PipelineStep(w, j), ~Commit(w, j)
      PROVE  Rows' \subseteq Rows
  BY <1>2 DEF PipelineStep, Load, LoadMissing, Mark, Skip, Build, BuildRefused, Embed, Upsert,
     Finish, StageFails, UpsertReplyLost, HandleRetry, HandleFinal, HandleLost, Rows, pgVars
<1>3. ASSUME NEW w \in Worker, NEW j \in Job, Commit(w, j)
      PROVE  \E c \in Chunk : Fresh(c) /\ Rows' \subseteq Rows \cup {c}
  <2>1. PICK c \in Chunk :
           /\ Fresh(c)
           /\ chunk' = [DropRows(RowsOf(job[j].doc)) EXCEPT ![c] =
                          [doc |-> job[j].doc, deleted |-> FALSE]]
    BY <1>3 DEF Commit
  <2>2. \A e \in Chunk \ {c} : chunk'[e] = DropRows(RowsOf(job[j].doc))[e]
    BY <2>1 DEF DropRows
  <2> QED
    BY <1>1, <2>1, <2>2 DEF Rows
<1>4. ASSUME NEW k \in Client, RequestStep(k)
      PROVE  Rows' \subseteq Rows
  <2>1. CASE DeleteCommit(k)
    <3>1. \A c \in Chunk : chunk'[c].doc = chunk[c].doc
      BY <2>1, RowsTyped DEF DeleteCommit, ChunkRow
    <3> QED
      BY <3>1 DEF Rows
  <2> QED
    BY <1>4, <2>1 DEF RequestStep, Upload, ReindexCheck, ReindexInsert, Enqueue, EnqueueFails,
       DeleteRead, DeleteVectors, Abandon, Rows, pgVars
<1>5. ASSUME NEW w \in Worker, LoopStep(w) \/ LoopFault(w)
      PROVE  Rows' \subseteq Rows
  <2>1. UNCHANGED chunk \/ \E S : chunk' = DropRows(S)
    BY <1>5 DEF LoopStep, LoopFault, Maintain, ListPoints, ScanRows, SweepOrphans, Dequeue,
       DequeueNothing, ListStale, WriteStale, PurgeVectors, PurgeRows, ListPurgeable,
       DropDocuments, ClaimDue, ClaimNothing, BatchDone, Restart, ReconcileFails, DequeueFails, DequeuePartly,
       MaintenanceFails, Crash, pgVars
  <2> QED
    BY <1>1, <2>1 DEF Rows
<1>6. CASE \E j \in Job : JobTimesOut(j) \/ BackoffEnds(j)
  BY <1>6 DEF JobTimesOut, BackoffEnds, Rows
<1>7. CASE UNCHANGED vars
  BY <1>7 DEF vars, Rows
<1> QED
  BY <1>2, <1>3, <1>4, <1>5, <1>6, <1>7 DEF Next

LEMMA SweptIdsKept ==
  ASSUME TypeOK, [Next]_vars, NEW w \in Worker, loop'[w] = "sweep"
  PROVE  \/ loop[w] = "sweep" /\ held'[w] = held[w]
         \/ held'[w] = held[w] \ Rows /\ Rows' = Rows
<1>1. ASSUME NEW v \in Worker, NEW j \in Job, PipelineStep(v, j)
      PROVE  loop' = loop /\ held' = held
  BY <1>1, PipelineEffect DEF sweepVars
<1>2. ASSUME NEW k \in Client, RequestStep(k)
      PROVE  loop' = loop /\ held' = held
  BY <1>2, RequestEffect DEF sweepVars
<1>3. ASSUME NEW v \in Worker, LoopStep(v) \/ LoopFault(v)
      PROVE  \/ loop'[w] = loop[w] /\ held'[w] = held[w]
             \/ loop'[w] # "sweep"
             \/ held'[w] = held[w] \ Rows /\ Rows' = Rows
  <2> USE DEF Move, Hold, TypeOK
  <2>1. CASE ListPoints(v)
    BY <2>1 DEF ListPoints
  <2>2. CASE ScanRows(v)
    BY <2>2 DEF ScanRows, pgVars, Rows
  <2>3. CASE SweepOrphans(v)
    BY <2>3 DEF SweepOrphans
  <2>4. CASE \/ Dequeue(v) \/ DequeueNothing(v) \/ DequeueFails(v) \/ DequeuePartly(v) \/ ClaimDue(v) \/ ClaimNothing(v)
             \/ BatchDone(v) \/ Restart(v) \/ ListStale(v) \/ WriteStale(v)
             \/ ListPurgeable(v) \/ DropDocuments(v)
    BY <2>4 DEF Dequeue, DequeueNothing, DequeueFails, DequeuePartly, ClaimDue, ClaimNothing, BatchDone, Restart,
       ListStale, WriteStale, ListPurgeable, DropDocuments, sweepVars
  <2>5. CASE PurgeVectors(v) \/ PurgeRows(v)
    BY <2>5 DEF PurgeVectors, PurgeRows
  <2>6. CASE ReconcileFails(v) \/ MaintenanceFails(v) \/ Crash(v)
    BY <2>6 DEF ReconcileFails, MaintenanceFails, Crash
  <2> QED
    BY <1>3, <2>1, <2>2, <2>3, <2>4, <2>5, <2>6 DEF LoopStep, LoopFault, Maintain
<1>4. CASE \E j \in Job : JobTimesOut(j) \/ BackoffEnds(j)
  BY <1>4 DEF JobTimesOut, BackoffEnds, sweepVars
<1>5. CASE UNCHANGED vars
  BY <1>5 DEF vars
<1> QED
  BY <1>1, <1>2, <1>3, <1>4, <1>5 DEF Next

(* reconcile_orphans lists the points before it scans the chunk rows, and a *)
(* chunk id is never reused while someone holds it: no interleaving lets it *)
(* delete the vector of a chunk that exists.                                *)
THEOREM SweepSafe == Spec => []SweepSparesRows
<1>1. Init => SweepSparesRows
  BY DEF Init, SweepSparesRows
<1>2. ASSUME TypeOK, SweepSparesRows, [Next]_vars
      PROVE  SweepSparesRows'
  <2> SUFFICES ASSUME NEW w \in Worker, loop'[w] = "sweep"
               PROVE  held'[w] \cap Rows' = {}
    BY DEF SweepSparesRows
  <2>1. CASE loop[w] = "sweep" /\ held'[w] = held[w]
    <3>1. held[w] \cap Rows = {}
      BY <1>2, <2>1 DEF SweepSparesRows
    <3> QED
      BY <1>2, <2>1, <3>1, RowsGrowFreshly DEF Fresh
  <2>2. CASE held'[w] = held[w] \ Rows /\ Rows' = Rows
    BY <2>2
  <2> QED
    BY <1>2, <2>1, <2>2, SweptIdsKept
<1> QED
  BY <1>1, <1>2, TypeCorrect, PTL DEF Spec

-----------------------------------------------------------------------------
(* A job has one owner at a time, for any number of workers and jobs, when *)
(* jobs come from the database poll (RedisEnabled = FALSE) and the stale   *)
(* timeout outlasts a run (Timely = TRUE).                                 *)

\* The lists of rows a reclaim pass has read.
Listed(w) == stale[w].retry \cup stale[w].expire

LEMMA PipelineRuns ==
  ASSUME TypeOK, NEW w \in Worker, NEW j \in Job, PipelineStep(w, j)
  PROVE  /\ run[w][j].stage # "none"
         /\ \A v \in Worker, i \in Job : v # w \/ i # j => run'[v][i] = run[v][i]
         /\ UNCHANGED stale
         /\ Leave(w, j) => run'[w][j].stage = "none"
<1>1. PICK r : Becomes(w, j, r)
  BY PipelineEffect
<1>2. \A v \in Worker, i \in Job : v # w \/ i # j => run'[v][i] = run[v][i]
  BY <1>1 DEF Becomes, TypeOK
<1>3. Leave(w, j) => run'[w][j] = NotRunning
  BY DEF Leave, Becomes, TypeOK
<1>4. NotRunning.stage = "none"
  BY DEF NotRunning
<1> QED
  BY <1>2, <1>3, <1>4, PipelineEffect DEF sweepVars

(* Runs that end, lists that are dropped and purged jobs disturb nothing.   *)
LEMMA OwnedShrinks ==
  ASSUME Owned,
         \A v \in Worker, i \in Job : run'[v][i].stage # "none" => run[v][i].stage # "none",
         \A v \in Worker : /\ stale'[v].retry \subseteq stale[v].retry
                           /\ stale'[v].expire \subseteq stale[v].expire,
         \A v \in Worker : stale[v].retry \subseteq Job /\ stale[v].expire \subseteq Job,
         \A i \in Job : \/ job'[i] = job[i]
                        \/ job'[i].status = "purged" /\ job'[i].attempts = job[i].attempts
  PROVE  Owned'
<1>1. ExclusiveJob'
  BY DEF Owned, ExclusiveJob
<1>2. RunOwnsItsJob'
  BY DEF Owned, RunOwnsItsJob
<1>3. \A i \in Job : Abandoned(i) => Abandoned(i)'
  BY DEF Abandoned
<1>4. \A i \in Job : job'[i].attempts = job[i].attempts
  OBVIOUS
<1>5. ReclaimOwnsItsRows'
  BY <1>3, <1>4 DEF Owned, ReclaimOwnsItsRows
<1> QED
  BY <1>1, <1>2, <1>5 DEF Owned

LEMMA StaleTyped ==
  ASSUME TypeOK
  PROVE  \A v \in Worker : stale[v].retry \subseteq Job /\ stale[v].expire \subseteq Job
  BY DEF TypeOK

LEMMA ListedAreIdle ==
  ASSUME TypeOK, Owned, NEW w \in Worker, NEW j \in Listed(w)
  PROVE  j \in Job /\ Abandoned(j)
  BY StaleTyped DEF Owned, ReclaimOwnsItsRows, Listed

LEMMA OwnedByPipeline ==
  ASSUME TypeOK, Owned, NEW w \in Worker, NEW j \in Job, PipelineStep(w, j)
  PROVE  Owned'
<1>1. \A v \in Worker, i \in Job : run'[v][i].stage # "none" => run[v][i].stage # "none"
  BY PipelineRuns
<1>2. ExclusiveJob'
  BY <1>1 DEF Owned, ExclusiveJob
<1>3. ASSUME NEW v \in Worker, NEW i \in Job, run'[v][i].stage # "none"
      PROVE  \/ job'[i].status = "RUNNING" /\ job'[i].started = "fresh"
             \/ job'[i].status = "purged"
  <2>1. \/ job[i].status = "RUNNING" /\ job[i].started = "fresh"
        \/ job[i].status = "purged"
    BY <1>1, <1>3 DEF Owned, RunOwnsItsJob
  <2>2. CASE i # j
    BY <2>1, <2>2, PipelineJobs
  <2>3. CASE i = j
    <3>1. v = w
      BY <1>1, <1>3, <2>3, PipelineRuns DEF Owned, ExclusiveJob
    <3>2. ~Leave(w, j)
      BY <1>3, <2>3, <3>1, PipelineRuns
    <3>3. \/ job'[j] = job[j]
          \/ job'[j].status = "RUNNING" /\ job'[j].started = Coalesce(job[j].started)
      BY <3>2, PipelineJobs
    <3>4. job[j].status = "purged" => job'[j] = job[j]
      BY PipelineJobs DEF JobExists, JobStatus
    <3> QED
      BY <2>1, <2>3, <3>3, <3>4 DEF Coalesce
  <2> QED
    BY <2>2, <2>3
<1>4. RunOwnsItsJob'
  BY <1>3 DEF RunOwnsItsJob
<1>5. \A v \in Worker : j \notin Listed(v)
  BY ListedAreIdle, PipelineRuns DEF Abandoned
<1>6. \A v \in Worker : \A i \in Listed(v) : job'[i] = job[i]
  BY <1>5, ListedAreIdle, PipelineJobs
<1>7. \A v \in Worker : \A i \in Listed(v) : Abandoned(i)'
  BY <1>1, <1>6, ListedAreIdle DEF Abandoned
<1>8. ReclaimOwnsItsRows'
  BY <1>6, <1>7, PipelineRuns DEF Owned, ReclaimOwnsItsRows, Listed
<1> QED
  BY <1>2, <1>4, <1>8 DEF Owned

LEMMA OwnedByRequest ==
  ASSUME TypeOK, Owned, NEW k \in Client, RequestStep(k)
  PROVE  Owned'
<1>1. UNCHANGED run /\ UNCHANGED stale
  BY RequestEffect DEF sweepVars
<1>2. \A i \in Job : job'[i] = job[i] \/ job[i].status = "absent"
  BY RequestJobs
<1>3. ExclusiveJob'
  BY <1>1 DEF Owned, ExclusiveJob
<1>4. RunOwnsItsJob'
  BY <1>1, <1>2 DEF Owned, RunOwnsItsJob
<1>5. \A v \in Worker : \A i \in Listed(v) : job'[i] = job[i] /\ Abandoned(i)'
  <2>1. ASSUME NEW v \in Worker, NEW i \in Listed(v)
        PROVE  job'[i] = job[i]
    BY <1>2, <2>1, ListedAreIdle DEF Abandoned
  <2> QED
    BY <1>1, <2>1, ListedAreIdle DEF Abandoned
<1>6. ReclaimOwnsItsRows'
  BY <1>1, <1>5 DEF Owned, ReclaimOwnsItsRows, Listed
<1> QED
  BY <1>3, <1>4, <1>6 DEF Owned

LEMMA OwnedByClock ==
  ASSUME TypeOK, Owned, Timely = TRUE, NEW j \in Job, JobTimesOut(j) \/ BackoffEnds(j)
  PROVE  Owned'
<1>1. UNCHANGED run /\ UNCHANGED stale
  BY DEF JobTimesOut, BackoffEnds, sweepVars
<1>2. /\ \A i \in Job \ {j} : job'[i] = job[i]
      /\ \/ JobTimesOut(j)
         \/ BackoffEnds(j)
  BY ClockJobs
<1>3. \A w \in Worker : j \notin Listed(w)
  BY ListedAreIdle DEF Abandoned, JobTimesOut, BackoffEnds, Listed
<1>4. \A w \in Worker : run[w][j].stage = "none"
  BY DEF JobTimesOut, BackoffEnds, Owned, RunOwnsItsJob
<1>5. ExclusiveJob'
  BY <1>1 DEF Owned, ExclusiveJob
<1>6. RunOwnsItsJob'
  BY <1>1, <1>2, <1>4 DEF Owned, RunOwnsItsJob
<1>7. \A v \in Worker : \A i \in Listed(v) : job'[i] = job[i]
  BY <1>2, <1>3, ListedAreIdle
<1>8. \A v \in Worker : \A i \in Listed(v) : Abandoned(i)'
  BY <1>1, <1>7, ListedAreIdle DEF Abandoned
<1>9. ReclaimOwnsItsRows'
  BY <1>1, <1>7, <1>8 DEF Owned, ReclaimOwnsItsRows, Listed
<1> QED
  BY <1>5, <1>6, <1>9 DEF Owned

-----------------------------------------------------------------------------
(* The loop: the steps that neither start runs nor touch jobs, then the     *)
(* claim and the two halves of the stale reclaim.                           *)

LEMMA LoopQuiet ==
  ASSUME RedisEnabled = FALSE, NEW w \in Worker, LoopStep(w) \/ LoopFault(w)
  PROVE  \/ UNCHANGED <<job, run, stale>>
         \/ ClaimDue(w) \/ ListStale(w) \/ WriteStale(w)
         \/ DropDocuments(w) \/ MaintenanceFails(w) \/ Crash(w)
  BY DEF LoopStep, LoopFault, Maintain, ListPoints, ScanRows, SweepOrphans, Dequeue,
         DequeueNothing, PurgeVectors, PurgeRows, ListPurgeable, ClaimNothing, BatchDone,
         Restart, ReconcileFails, DequeueFails, DequeuePartly, pgVars, sweepVars

LEMMA OwnedByQuietLoop ==
  ASSUME TypeOK, Owned, NEW w \in Worker,
         UNCHANGED <<job, run, stale>> \/ DropDocuments(w) \/ MaintenanceFails(w) \/ Crash(w)
  PROVE  Owned'
<1>1. \A v \in Worker, i \in Job : run'[v][i].stage # "none" => run[v][i].stage # "none"
  <2>1. CASE Crash(w)
    BY <2>1, StartEffect DEF Crash
  <2> QED
    BY <2>1 DEF DropDocuments, MaintenanceFails
<1>2. \A v \in Worker : /\ stale'[v].retry \subseteq stale[v].retry
                        /\ stale'[v].expire \subseteq stale[v].expire
  <2>1. CASE stale' = [stale EXCEPT ![w] = NoStale]
    BY <2>1 DEF NoStale, TypeOK
  <2> QED
    BY <2>1 DEF DropDocuments, MaintenanceFails, Crash
<1>3. \A i \in Job : \/ job'[i] = job[i]
                     \/ job'[i].status = "purged" /\ job'[i].attempts = job[i].attempts
  BY DropDocumentsJobs DEF MaintenanceFails, Crash, pgVars
<1> QED
  BY <1>1, <1>2, <1>3, StaleTyped, OwnedShrinks

LEMMA OwnedByClaim ==
  ASSUME TypeOK, Owned, NEW w \in Worker, ClaimDue(w)
  PROVE  Owned'
<1>1. PICK S \in SUBSET DueJobs :
         /\ Start(w, S)
         /\ \A j \in Job \ S : job'[j] = job[j]
         /\ \A j \in S : job'[j].status = "RUNNING" /\ job'[j].started = "fresh"
  BY ClaimJobs
<1>2. UNCHANGED stale
  BY DEF ClaimDue, sweepVars
<1>3. \A j \in S : /\ j \in Job
                   /\ \A v \in Worker : run[v][j].stage = "none" /\ j \notin Listed(v)
  BY <1>1, ListedAreIdle DEF DueJobs, Owned, RunOwnsItsJob, Abandoned
<1>4. /\ \A j \in Job : run'[w][j].stage = IF j \in S THEN "load" ELSE "none"
      /\ \A v \in Worker \ {w} : run'[v] = run[v]
  BY <1>1, StartEffect
<1>5. ExclusiveJob'
  BY <1>3, <1>4 DEF Owned, ExclusiveJob
<1>6. RunOwnsItsJob'
  BY <1>1, <1>3, <1>4 DEF Owned, RunOwnsItsJob
<1>7. \A v \in Worker : \A i \in Listed(v) : job'[i] = job[i]
  BY <1>1, <1>3, ListedAreIdle
<1>8. \A v \in Worker : \A i \in Listed(v) : \A u \in Worker : run'[u][i].stage = "none"
  BY <1>3, <1>4, ListedAreIdle DEF Abandoned
<1>9. \A v \in Worker : \A i \in Listed(v) : Abandoned(i)'
  BY <1>7, <1>8, ListedAreIdle DEF Abandoned
<1>10. ReclaimOwnsItsRows'
  BY <1>2, <1>7, <1>9 DEF Owned, ReclaimOwnsItsRows, Listed
<1> QED
  BY <1>5, <1>6, <1>10 DEF Owned

LEMMA OwnedByListing ==
  ASSUME TypeOK, Owned, NEW w \in Worker, ListStale(w)
  PROVE  Owned'
<1>1. UNCHANGED job /\ UNCHANGED run
  BY DEF ListStale, pgVars
<1>2. /\ stale'[w].retry  = {j \in StaleJobs : job[j].attempts < MaxAttempts}
      /\ stale'[w].expire = {j \in StaleJobs : job[j].attempts >= MaxAttempts}
      /\ \A v \in Worker \ {w} : stale'[v] = stale[v]
  BY DEF ListStale, TypeOK
<1>3. \A j \in StaleJobs : j \in Job /\ Abandoned(j)
  BY DEF StaleJobs, Abandoned, Owned, RunOwnsItsJob
<1>4. \A j \in Job : Abandoned(j) => Abandoned(j)'
  BY <1>1 DEF Abandoned
<1>5. ASSUME NEW v \in Worker
      PROVE  /\ \A j \in stale'[v].retry  : Abandoned(j)' /\ job'[j].attempts < MaxAttempts
             /\ \A j \in stale'[v].expire : Abandoned(j)' /\ job'[j].attempts >= MaxAttempts
  <2>1. CASE v = w
    BY <1>1, <1>2, <1>3, <1>4, <2>1
  <2>2. CASE v # w
    BY <1>1, <1>2, <1>4, <2>2, StaleTyped DEF Owned, ReclaimOwnsItsRows
  <2> QED
    BY <2>1, <2>2
<1>6. ReclaimOwnsItsRows'
  BY <1>5 DEF ReclaimOwnsItsRows
<1> QED
  BY <1>1, <1>6 DEF Owned, ExclusiveJob, RunOwnsItsJob

LEMMA OwnedByReclaim ==
  ASSUME TypeOK, Owned, NEW w \in Worker, WriteStale(w)
  PROVE  Owned'
<1>1. UNCHANGED run /\ (\A v \in Worker : v # w => stale'[v] = stale[v])
  BY DEF WriteStale, TypeOK
<1>2. stale'[w].retry = {} /\ stale'[w].expire = {}
  BY DEF WriteStale, TypeOK, NoStale
<1>3. \A j \in Job : j \notin Listed(w) => job'[j] = job[j]
  BY StaleJobsWritten DEF Listed
<1>4. ASSUME NEW j \in Listed(w)
      PROVE  Abandoned(j)' /\ job'[j].attempts = job[j].attempts
  <2>1. j \in Job /\ Abandoned(j)
    BY ListedAreIdle
  <2>2. CASE ~JobExists(j)
    BY <1>1, <2>1, <2>2, StaleJobsWritten DEF Abandoned
  <2>3. CASE JobExists(j) /\ j \in stale[w].retry
    <3>1. job'[j] = Requeued(j) /\ job[j].attempts < MaxAttempts
      BY <2>1, <2>3, StaleJobsWritten DEF Owned, ReclaimOwnsItsRows
    <3>2. Requeued(j).status = "PENDING" /\ Requeued(j).due = FALSE
          /\ Requeued(j).attempts = job[j].attempts
      BY <2>1, StatusOfRequeued
    <3> QED
      BY <1>1, <2>1, <3>1, <3>2 DEF Abandoned
  <2>4. CASE JobExists(j) /\ j \notin stale[w].retry
    <3>1. j \in stale[w].expire
      BY <2>4 DEF Listed
    <3>2. job'[j] = Ended(j, "FAILED") /\ job[j].attempts >= MaxAttempts
      BY <2>1, <2>4, <3>1, StaleJobsWritten DEF Owned, ReclaimOwnsItsRows
    <3>3. Ended(j, "FAILED").status = "FAILED" /\ Ended(j, "FAILED").attempts = job[j].attempts
      BY <2>1, StatusOfEnded
    <3> QED
      BY <1>1, <2>1, <3>2, <3>3 DEF Abandoned
  <2> QED
    BY <2>2, <2>3, <2>4
<1>5. ExclusiveJob'
  BY <1>1 DEF Owned, ExclusiveJob
<1>6. RunOwnsItsJob'
  <2>1. \A v \in Worker, j \in Job : run'[v][j].stage # "none" => j \notin Listed(w)
    BY <1>1, ListedAreIdle DEF Abandoned
  <2> QED
    BY <1>1, <1>3, <2>1 DEF Owned, RunOwnsItsJob
<1>7. \A j \in Job : /\ Abandoned(j) => Abandoned(j)'
                     /\ job'[j].attempts = job[j].attempts
  <2>1. \A j \in Job : j \notin Listed(w) /\ Abandoned(j) => Abandoned(j)'
    BY <1>1, <1>3 DEF Abandoned
  <2> QED
    BY <1>3, <1>4, <2>1
<1>8. ReclaimOwnsItsRows'
  BY <1>1, <1>2, <1>7, StaleTyped DEF Owned, ReclaimOwnsItsRows
<1> QED
  BY <1>5, <1>6, <1>8 DEF Owned

LEMMA OwnedStep ==
  ASSUME TypeOK, Owned, Timely = TRUE, RedisEnabled = FALSE, [Next]_vars
  PROVE  Owned'
<1>1. ASSUME NEW w \in Worker, LoopStep(w) \/ LoopFault(w)
      PROVE  Owned'
  BY <1>1, LoopQuiet, OwnedByQuietLoop, OwnedByClaim, OwnedByListing, OwnedByReclaim
<1>2. CASE UNCHANGED vars
  <2>1. UNCHANGED <<job, run, stale>>
    BY <1>2 DEF vars
  <2> QED
    BY <2>1 DEF Owned, ExclusiveJob, RunOwnsItsJob, ReclaimOwnsItsRows, Abandoned
<1> QED
  BY <1>1, <1>2, OwnedByPipeline, OwnedByRequest, OwnedByClock DEF Next

LEMMA OwnedInit == Init => Owned
<1>1. NotRunning.stage = "none" /\ NoStale.retry = {} /\ NoStale.expire = {}
  BY DEF NotRunning, NoStale
<1> QED
  BY <1>1 DEF Init, Owned, ExclusiveJob, RunOwnsItsJob, ReclaimOwnsItsRows

(* With the poll alone and a stale timeout that outlasts a run, at every    *)
(* moment at most one worker processes a job: claim_pending's SKIP LOCKED,  *)
(* the retry back-off, the stale reclaim and crashes never give it to two.  *)
THEOREM JobsAreExclusive ==
  ASSUME Timely = TRUE, RedisEnabled = FALSE
  PROVE  Spec => []ExclusiveJob
<1>1. TypeOK /\ Owned /\ [Next]_vars => Owned'
  BY OwnedStep
<1>2. Owned => ExclusiveJob
  BY DEF Owned
<1> QED
  BY <1>1, <1>2, OwnedInit, TypeCorrect, PTL DEF Spec

-----------------------------------------------------------------------------
LEMMA FinishedStep ==
  ASSUME TypeOK, Owned, RedisEnabled = FALSE, [Next]_vars, NEW j \in Job,
         job[j].status \in {"SUCCEEDED", "FAILED"}
  PROVE  job'[j].status \in {job[j].status, "purged"}
<1>1. \A w \in Worker : run[w][j].stage = "none"
  BY DEF Owned, RunOwnsItsJob
<1>2. ASSUME NEW w \in Worker, NEW i \in Job, PipelineStep(w, i)
      PROVE  job'[j] = job[j]
  BY <1>1, <1>2, PipelineRuns, PipelineJobs
<1>3. ASSUME NEW k \in Client, RequestStep(k)
      PROVE  job'[j] = job[j]
  BY <1>3, RequestJobs
<1>4. ASSUME NEW w \in Worker, WriteStale(w)
      PROVE  job'[j].status = job[j].status
  <2>1. CASE j \in Listed(w)
    <3>1. Abandoned(j)
      BY <2>1, ListedAreIdle
    <3>2. job[j].attempts \in Nat /\ MaxAttempts \in Nat
      BY RowsTyped, StoreAssumption DEF JobRow, StoreAssumption
    <3>3. job[j].status = "FAILED" /\ job[j].attempts >= MaxAttempts
      BY <3>1 DEF Abandoned
    <3>4. j \notin stale[w].retry
      BY <3>2, <3>3 DEF Owned, ReclaimOwnsItsRows
    <3>5. j \in stale[w].expire
      BY <2>1, <3>4 DEF Listed
    <3>6. Ended(j, "FAILED").status = "FAILED"
      BY StatusOfEnded
    <3>7. job'[j] = Ended(j, "FAILED")
      BY <1>4, <3>3, <3>4, <3>5, StaleJobsWritten DEF JobExists, JobStatus
    <3> QED
      BY <3>3, <3>6, <3>7
  <2>2. CASE j \notin Listed(w)
    BY <1>4, <2>2, StaleJobsWritten DEF Listed
  <2> QED
    BY <2>1, <2>2
<1>5. ASSUME NEW w \in Worker, ClaimDue(w)
      PROVE  job'[j] = job[j]
  BY <1>5, ClaimJobs DEF DueJobs
<1>6. ASSUME NEW w \in Worker, LoopStep(w) \/ LoopFault(w)
      PROVE  job'[j].status \in {job[j].status, "purged"}
  BY <1>4, <1>5, <1>6, LoopJobs, DropDocumentsJobs
<1>7. ASSUME NEW i \in Job, JobTimesOut(i) \/ BackoffEnds(i)
      PROVE  job'[j] = job[j]
  BY <1>7, ClockJobs DEF JobTimesOut, BackoffEnds
<1>8. CASE UNCHANGED vars
  BY <1>8 DEF vars
<1> QED
  BY <1>2, <1>3, <1>6, <1>7, <1>8 DEF Next

(* A job that SUCCEEDED or FAILED keeps its status until its row is purged: *)
(* no late worker and no late reclaim pass writes to it.                    *)
THEOREM FinishedJobsAreFinal ==
  ASSUME Timely = TRUE, RedisEnabled = FALSE
  PROVE  Spec => FinishedJobsStay
<1>1. TypeOK /\ Owned /\ [Next]_vars => Owned'
  BY OwnedStep
<1>2. TypeOK /\ Owned /\ [Next]_vars
        => [\A j \in Job : job[j].status \in {"SUCCEEDED", "FAILED"}
                             => job'[j].status \in {job[j].status, "purged"}]_vars
  BY FinishedStep
<1> QED
  BY <1>1, <1>2, OwnedInit, TypeCorrect, PTL DEF Spec, FinishedJobsStay

-----------------------------------------------------------------------------
(* Counting attempts.                                                       *)

LEMMA RunsKeepAttempts ==
  ASSUME TypeOK, Owned, AttemptLeft, AttemptsBounded,
         NEW w \in Worker, NEW j \in Job, PipelineStep(w, j)
  PROVE  /\ AttemptFits(w, j)'
         /\ job'[j].attempts <= MaxAttempts
         /\ job'[j].status = "PENDING" => job'[j].attempts < MaxAttempts
<1> DEFINE r == run[w][j]
           n == job[j].attempts
<1>1. /\ n \in Nat /\ r.attempt \in Nat /\ MaxAttempts \in Nat
      /\ r \in RunRecord /\ job[j] \in JobRow
      /\ n <= MaxAttempts
      /\ job[j].status \in {"RUNNING", "purged"}
  BY RowsTyped, RunRowTyped, PipelineRuns, StoreAssumption
     DEF RunRecord, JobRow, StoreAssumption, AttemptsBounded, Owned, RunOwnsItsJob
<1>2. AttemptFits(w, j)
  BY DEF AttemptLeft
<1>3. \A row : Becomes(w, j, row) => run'[w][j] = row
  BY DEF Becomes, TypeOK
<1>4. ASSUME Leave(w, j)
      PROVE  AttemptFits(w, j)'
  BY <1>3, <1>4 DEF Leave, NotRunning, AttemptFits
<1>5. \A row : job' = WithJob(j, row) => job'[j] = row \/ job'[j] = job[j]
  BY DEF WithJob, TypeOK
<1>6. CASE Load(w, j)
  <2>1. UNCHANGED job /\ At(w, j, "load")
    BY <1>6 DEF Load, pgVars
  <2>2. /\ run'[w][j].stage \in {"skip", "mark"}
        /\ run'[w][j].attempt = n + 1
    BY <1>1, <1>3, <1>6 DEF Load, RunRecord
  <2> QED
    BY <1>1, <1>2, <2>1, <2>2 DEF AttemptFits, At
<1>7. CASE Mark(w, j)
  <2>1. At(w, j, "mark") /\ job' = WithJob(j, [Running(j) EXCEPT !.attempts = r.attempt])
    BY <1>7 DEF Mark
  <2>2. [Running(j) EXCEPT !.attempts = r.attempt].attempts = r.attempt
    BY <1>1 DEF Running, JobRow
  <2>3. job'[j].attempts \in {n, r.attempt}
    BY <1>5, <2>1, <2>2
  <2>4. job'[j].status \in {"RUNNING", "purged"}
    <3>1. [Running(j) EXCEPT !.attempts = r.attempt].status = "RUNNING"
      BY StatusOfMarked
    <3> QED
      BY <1>1, <1>5, <2>1, <3>1
  <2>5. run'[w][j].stage = "build" /\ run'[w][j].attempt = r.attempt
    BY <1>1, <1>3, <1>7 DEF Mark, Goto, RunRecord
  <2> QED
    BY <1>1, <1>2, <2>1, <2>3, <2>4, <2>5 DEF AttemptFits, At
<1>8. CASE Skip(w, j) \/ Finish(w, j) \/ HandleFinal(w, j)
  <2>1. PICK st \in {"SUCCEEDED", "FAILED"} : job' = WithJob(j, Ended(j, st)) /\ Leave(w, j)
    BY <1>8 DEF Skip, Finish, HandleFinal
  <2>2. Ended(j, st).status = st /\ Ended(j, st).attempts = n
    BY StatusOfEnded
  <2> QED
    BY <1>1, <1>4, <1>5, <2>1, <2>2
<1>9. CASE HandleRetry(w, j)
  <2>1. Requeued(j).status = "PENDING" /\ Requeued(j).attempts = n
    BY StatusOfRequeued
  <2>2. n < MaxAttempts
    BY <1>2, <1>9 DEF HandleRetry, AttemptFits, At
  <2> QED
    BY <1>1, <1>4, <1>5, <1>9, <2>1, <2>2 DEF HandleRetry
<1>10. CASE HandleLost(w, j)
  BY <1>1, <1>4, <1>10 DEF HandleLost, pgVars
<1>11. ASSUME UNCHANGED job, run'[w][j].stage = "fail",
              \/ run'[w][j].failure = "terminal" \/ run'[w][j].failure = "conflict"
              \/ r.stage = "load"
              \/ run'[w][j].attempt = r.attempt /\ r.stage \notin {"none", "load", "fail"}
       PROVE  AttemptFits(w, j)'
  <2>1. Retryable(w, j)' => n < MaxAttempts
    BY <1>1, <1>2, <1>11 DEF AttemptFits, Retryable, RunRecord, Stage
  <2> QED
    BY <1>11, <2>1 DEF AttemptFits
<1>12. CASE LoadMissing(w, j) \/ BuildRefused(w, j) \/ UpsertReplyLost(w, j) \/ StageFails(w, j)
  <2>1. UNCHANGED job
    BY <1>12 DEF LoadMissing, BuildRefused, UpsertReplyLost, StageFails, pgVars
  <2>2. run'[w][j].stage = "fail"
    BY <1>1, <1>3, <1>12 DEF LoadMissing, BuildRefused, UpsertReplyLost, StageFails, Fails,
       FailsUncounted, RunRecord
  <2>3. ASSUME LoadMissing(w, j)
        PROVE  r.stage = "load"
    BY <2>3 DEF LoadMissing, At
  <2>4. ASSUME UpsertReplyLost(w, j)
        PROVE  run'[w][j].attempt = r.attempt /\ r.stage = "upsert"
    BY <1>1, <1>3, <2>4 DEF UpsertReplyLost, Fails, At, RunRecord
  <2>5. ASSUME BuildRefused(w, j)
        PROVE  run'[w][j].failure = "terminal"
    BY <1>1, <1>3, <2>5 DEF BuildRefused, Fails, RunRecord
  <2>6. ASSUME StageFails(w, j)
        PROVE  \/ r.stage = "load"
               \/ run'[w][j].attempt = r.attempt /\ r.stage \notin {"none", "load", "fail"}
    <3>1. r.stage \notin {"none", "fail"}
      BY <2>6, StoreAssumption DEF StageFails, StoreAssumption, FaultPoints
    <3>2. CASE r.stage # "load"
      BY <1>1, <1>3, <2>6, <3>1, <3>2 DEF StageFails, Fails, At, RunRecord
    <3> QED
      BY <3>2
  <2>7. AttemptFits(w, j)'
    BY <1>11, <1>12, <2>1, <2>2, <2>3, <2>4, <2>5, <2>6
  <2> QED
    BY <1>1, <2>1, <2>7
<1>13. CASE Build(w, j) \/ Commit(w, j) \/ Embed(w, j) \/ Upsert(w, j)
  <2>1. r.stage \in {"build", "commit", "embed", "upsert"}
    BY <1>13 DEF Build, Commit, Embed, Upsert, At
  <2>2. run'[w][j].stage \in {"commit", "embed", "upsert", "finish"}
        /\ run'[w][j].attempt = r.attempt
    BY <1>1, <1>3, <1>13 DEF Build, Commit, Embed, Upsert, Goto, RunRecord
  <2>3. Running(j).status = "RUNNING" /\ Running(j).attempts = n
    BY <1>1 DEF Running, JobRow
  <2>4. job'[j].status \in {"RUNNING", "purged"} /\ job'[j].attempts = n
    BY <1>1, <1>5, <1>13, <2>3 DEF Build, Commit, Embed, Upsert, pgVars
  <2> QED
    BY <1>1, <1>2, <2>1, <2>2, <2>4 DEF AttemptFits
<1> QED
  BY <1>6, <1>7, <1>8, <1>9, <1>10, <1>12, <1>13 DEF PipelineStep

LEMMA AttemptsByPipeline ==
  ASSUME TypeOK, Owned, AttemptLeft, AttemptsBounded,
         NEW w \in Worker, NEW j \in Job, PipelineStep(w, j)
  PROVE  AttemptLeft' /\ AttemptsBounded'
<1>1. ASSUME NEW i \in Job
      PROVE  /\ job'[i].status = "PENDING" => job'[i].attempts < MaxAttempts
             /\ job'[i].attempts <= MaxAttempts
  <2>1. CASE i = j
    BY <2>1, RunsKeepAttempts
  <2>2. CASE i # j
    BY <2>2, PipelineJobs DEF AttemptLeft, AttemptsBounded
  <2> QED
    BY <2>1, <2>2
<1>2. ASSUME NEW v \in Worker, NEW i \in Job
      PROVE  AttemptFits(v, i)'
  <2>1. CASE v = w /\ i = j
    BY <2>1, RunsKeepAttempts
  <2>2. CASE i # j
    <3>1. run'[v][i] = run[v][i] /\ job'[i] = job[i]
      BY <2>2, PipelineRuns, PipelineJobs
    <3> QED
      BY <3>1 DEF AttemptLeft, AttemptFits, Retryable
  <2>3. CASE v # w /\ i = j
    <3>1. run'[v][i].stage = "none"
      BY <2>3, PipelineRuns DEF Owned, ExclusiveJob
    <3> QED
      BY <3>1 DEF AttemptFits
  <2> QED
    BY <2>1, <2>2, <2>3
<1> QED
  BY <1>1, <1>2 DEF AttemptLeft, AttemptsBounded

(* Steps that count nothing: a job that becomes PENDING has an attempt left *)
(* and a run that starts works on a job that was PENDING.                   *)
LEMMA AttemptsElsewhere ==
  ASSUME AttemptLeft, AttemptsBounded,
         \A i \in Job : /\ job'[i].attempts = job[i].attempts
                        /\ job'[i].status = "PENDING" => job[i].attempts < MaxAttempts,
         \A v \in Worker, i \in Job :
             \/ run'[v][i] = run[v][i]
             \/ run'[v][i].stage = "none"
             \/ run'[v][i].stage = "load" /\ job[i].status = "PENDING"
  PROVE  AttemptLeft' /\ AttemptsBounded'
<1>1. ASSUME NEW v \in Worker, NEW i \in Job
      PROVE  AttemptFits(v, i)'
  <2>1. CASE run'[v][i] = run[v][i]
    BY <2>1 DEF AttemptLeft, AttemptFits, Retryable
  <2>2. CASE run'[v][i].stage = "none"
    BY <2>2 DEF AttemptFits
  <2>3. CASE run'[v][i].stage = "load" /\ job[i].status = "PENDING"
    BY <2>3 DEF AttemptLeft, AttemptFits
  <2> QED
    BY <2>1, <2>2, <2>3
<1> QED
  BY <1>1 DEF AttemptLeft, AttemptsBounded

LEMMA RequestAttempts ==
  ASSUME TypeOK, NEW k \in Client, RequestStep(k), NEW j \in Job
  PROVE  \/ job'[j] = job[j]
         \/ job[j].status = "absent" /\ job'[j].attempts = 0
<1>1. \A d : NewJob(d).attempts = 0
  BY DEF NewJob
<1>2. ASSUME NEW i \in Job, NEW d, job[i].status = "absent",
             job' = [job EXCEPT ![i] = NewJob(d)]
      PROVE  job'[j] = job[j] \/ (job[j].status = "absent" /\ job'[j].attempts = 0)
  <2>1. job'[j] = IF j = i THEN NewJob(d) ELSE job[j]
    BY <1>2 DEF TypeOK
  <2> QED
    BY <1>1, <1>2, <2>1
<1>3. CASE Upload(k)
  BY <1>2, <1>3 DEF Upload
<1>4. CASE ReindexInsert(k)
  BY <1>2, <1>4 DEF ReindexInsert
<1> QED
  BY <1>3, <1>4 DEF RequestStep, ReindexCheck, Enqueue, EnqueueFails, DeleteRead,
     DeleteCommit, DeleteVectors, Abandon, pgVars

LEMMA AttemptsStep ==
  ASSUME TypeOK, Owned, AttemptLeft, AttemptsBounded, RedisEnabled = FALSE, [Next]_vars
  PROVE  AttemptLeft' /\ AttemptsBounded'
<1>1. ASSUME NEW k \in Client, RequestStep(k)
      PROVE  AttemptLeft' /\ AttemptsBounded'
  <2>1. UNCHANGED run
    BY <1>1, RequestEffect
  <2>2. \A w \in Worker, j \in Job : job[j].status = "absent" => run[w][j].stage = "none"
    BY DEF Owned, RunOwnsItsJob
  <2>3. ASSUME NEW j \in Job
        PROVE  job'[j] = job[j] \/ (job[j].status = "absent" /\ job'[j].attempts = 0)
    BY <1>1, RequestAttempts
  <2>4. 0 < MaxAttempts /\ MaxAttempts \in Nat
    BY StoreAssumption DEF StoreAssumption
  <2>5. \A w \in Worker, j \in Job : AttemptFits(w, j)'
    BY <2>1, <2>2, <2>3 DEF AttemptLeft, AttemptFits, Retryable
  <2> QED
    BY <2>3, <2>4, <2>5 DEF AttemptLeft, AttemptsBounded
<1>2. ASSUME NEW w \in Worker, ClaimDue(w)
      PROVE  AttemptLeft' /\ AttemptsBounded'
  <2>1. PICK S \in SUBSET DueJobs :
           /\ Start(w, S)
           /\ \A j \in Job \ S : job'[j] = job[j]
           /\ \A j \in S : /\ job'[j].status = "RUNNING"
                           /\ job'[j].attempts = job[j].attempts
    BY <1>2, ClaimJobs
  <2>2. \A j \in S : job[j].status = "PENDING"
    BY DEF DueJobs
  <2>3. /\ \A j \in Job : run'[w][j].stage = IF j \in S THEN "load" ELSE "none"
        /\ \A v \in Worker \ {w} : run'[v] = run[v]
    BY <2>1, StartEffect
  <2>4. \A i \in Job : /\ job'[i].attempts = job[i].attempts
                       /\ job'[i].status = "PENDING" => job[i].attempts < MaxAttempts
    BY <2>1 DEF AttemptLeft
  <2>5. \A v \in Worker, i \in Job :
             \/ run'[v][i] = run[v][i]
             \/ run'[v][i].stage = "none"
             \/ run'[v][i].stage = "load" /\ job[i].status = "PENDING"
    BY <2>2, <2>3
  <2> QED
    BY <2>4, <2>5, AttemptsElsewhere
<1>3. ASSUME NEW w \in Worker, WriteStale(w)
      PROVE  AttemptLeft' /\ AttemptsBounded'
  <2>1. UNCHANGED run
    BY <1>3 DEF WriteStale
  <2>2. ASSUME NEW j \in Job
        PROVE  /\ job'[j].attempts = job[j].attempts
               /\ job'[j].status = "PENDING" => job[j].attempts < MaxAttempts
    <3>1. /\ Requeued(j).attempts = job[j].attempts
          /\ Ended(j, "FAILED").attempts = job[j].attempts /\ Ended(j, "FAILED").status = "FAILED"
      BY StatusOfRequeued, StatusOfEnded
    <3>2. CASE job'[j] = job[j]
      BY <3>2 DEF AttemptLeft
    <3>3. CASE j \in stale[w].retry /\ job'[j] = Requeued(j)
      BY <3>1, <3>3 DEF Owned, ReclaimOwnsItsRows
    <3>4. CASE job'[j] = Ended(j, "FAILED")
      BY <3>1, <3>4
    <3> QED
      BY <1>3, <3>2, <3>3, <3>4, StaleJobsWritten
  <2> QED
    BY <2>1, <2>2, AttemptsElsewhere
<1>4. ASSUME NEW w \in Worker, LoopStep(w) \/ LoopFault(w)
      PROVE  AttemptLeft' /\ AttemptsBounded'
  <2>1. CASE ClaimDue(w) \/ WriteStale(w)
    BY <1>2, <1>3, <2>1
  <2>2. CASE ~ClaimDue(w) /\ ~WriteStale(w)
    <3>1. UNCHANGED job \/ DropDocuments(w)
      BY <1>4, <2>2, LoopJobs
    <3>2. \A i \in Job : /\ job'[i].attempts = job[i].attempts
                         /\ job'[i].status = "PENDING" => job[i].attempts < MaxAttempts
      BY <3>1, DropDocumentsJobs DEF AttemptLeft
    <3>3. \A v \in Worker, i \in Job : run'[v][i] = run[v][i] \/ run'[v][i].stage = "none"
      <4>1. CASE Crash(w)
        BY <4>1, StartEffect DEF Crash
      <4> QED
        BY <1>4, <2>2, <4>1, LoopQuiet DEF ListStale, DropDocuments, MaintenanceFails
    <3> QED
      BY <3>2, <3>3, AttemptsElsewhere
  <2> QED
    BY <2>1, <2>2
<1>5. ASSUME NEW j \in Job, JobTimesOut(j) \/ BackoffEnds(j)
      PROVE  AttemptLeft' /\ AttemptsBounded'
  <2>1. UNCHANGED run
    BY <1>5 DEF JobTimesOut, BackoffEnds
  <2>2. \A i \in Job : /\ job'[i].attempts = job[i].attempts
                       /\ job'[i].status = "PENDING" => job[i].attempts < MaxAttempts
    BY <1>5, ClockJobs DEF BackoffEnds, AttemptLeft
  <2> QED
    BY <2>1, <2>2, AttemptsElsewhere
<1>6. CASE UNCHANGED vars
  BY <1>6 DEF vars, AttemptLeft, AttemptFits, Retryable, AttemptsBounded
<1> QED
  BY <1>1, <1>4, <1>5, <1>6, AttemptsByPipeline DEF Next

LEMMA AttemptsInit == Init => AttemptLeft /\ AttemptsBounded
<1>1. NotRunning.stage = "none"
  BY DEF NotRunning
<1>2. 0 <= MaxAttempts
  BY StoreAssumption DEF StoreAssumption
<1> QED
  BY <1>1, <1>2 DEF Init, AttemptLeft, AttemptFits, AttemptsBounded

(* However often a job fails or loses its worker, the attempts counted on   *)
(* its row never exceed ingestion_max_attempts.                             *)
THEOREM AttemptsNeverExceed ==
  ASSUME Timely = TRUE, RedisEnabled = FALSE
  PROVE  Spec => []AttemptsBounded
<1>1. TypeOK /\ Owned /\ [Next]_vars => Owned'
  BY OwnedStep
<1>2. TypeOK /\ Owned /\ AttemptLeft /\ AttemptsBounded /\ [Next]_vars
        => AttemptLeft' /\ AttemptsBounded'
  BY AttemptsStep
<1> QED
  BY <1>1, <1>2, OwnedInit, AttemptsInit, TypeCorrect, PTL DEF Spec

(* The same two inductive invariants as results of their own.  A run owns   *)
(* its job, RUNNING and not stale, until it ends, and what a reclaim pass   *)
(* has listed stays nobody's until the pass writes it.                      *)
THEOREM RunsOwnTheirJobs ==
  ASSUME Timely = TRUE, RedisEnabled = FALSE
  PROVE  Spec => []Owned
<1>1. TypeOK /\ Owned /\ [Next]_vars => Owned'
  BY OwnedStep
<1> QED
  BY <1>1, OwnedInit, TypeCorrect, PTL DEF Spec

(* A job waiting to be claimed always has an attempt left, and so has a run *)
(* that _handle_failure is going to requeue.                                *)
THEOREM WaitingJobsHaveAttempts ==
  ASSUME Timely = TRUE, RedisEnabled = FALSE
  PROVE  Spec => []AttemptLeft
<1>1. TypeOK /\ Owned /\ [Next]_vars => Owned'
  BY OwnedStep
<1>2. TypeOK /\ Owned /\ AttemptLeft /\ AttemptsBounded /\ [Next]_vars
        => AttemptLeft' /\ AttemptsBounded'
  BY AttemptsStep
<1> QED
  BY <1>1, <1>2, OwnedInit, AttemptsInit, TypeCorrect, PTL DEF Spec
=============================================================================
