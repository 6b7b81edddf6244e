----------------------------- MODULE IndexProof -----------------------------
(***************************************************************************)
(* Proofs that a document shown as READY is completely indexed, and that   *)
(* the ingestion side honours the contract of DocumentIndex, for any       *)
(* number of documents, jobs, chunks, workers and clients and any faults,  *)
(* when jobs come from the database poll (RedisEnabled = FALSE), the stale *)
(* timeout outlasts a run (Timely = TRUE) and reindex requests do not race *)
(* each other (OneEditor): reindex reads find_active and inserts later,    *)
(* without a lock, so two of them can start two jobs for one document.     *)
(* The last part proves the converse, that every vector has its row, when  *)
(* moreover nothing is deleted or there is one worker process.             *)
(***************************************************************************)
EXTENDS IngestionProof

OneEditor ==
    \A k, m \in Client : "reindex" \in Ops[k] /\ "reindex" \in Ops[m] => k = m

\* Stages of a run that has withdrawn its document, and of one that has committed its chunks.
Rebuilding == {"build", "commit", "embed", "upsert", "finish"}
Written    == {"embed", "upsert", "finish"}

Active(j) == job[j].status \in {"PENDING", "RUNNING"}

-----------------------------------------------------------------------------
(* The inductive invariant.  First the references between rows: the foreign *)
(* keys, and find_active, which lets a document have one job at a time.     *)
JobsHaveDocs ==
    \A j \in Job :
        /\ job[j].status = "absent" => job[j].doc = NoDoc
        /\ job[j].status \in JobStatus => job[j].doc \in Doc /\ DocExists(job[j].doc)
        /\ job[j].status = "purged" => job[j].doc \in Doc /\ doc[job[j].doc].row = "purged"
OneActiveJob ==
    \A i, j \in Job : Active(i) /\ Active(j) /\ job[i].doc = job[j].doc => i = j
RowsHaveDocs ==
    \A c \in Chunk : chunk[c].doc # NoDoc => chunk[c].doc \in Doc /\ DocExists(chunk[c].doc)
DeletedRowsHidden ==
    \A c \in Chunk : chunk[c].doc # NoDoc /\ chunk[c].deleted => ~DocLive(chunk[c].doc)
AbsentNotReady == \A d \in Doc : doc[d].row = "absent" => doc[d].status # "READY"
References ==
    JobsHaveDocs /\ OneActiveJob /\ RowsHaveDocs /\ DeletedRowsHidden /\ AbsentNotReady

(* What a request has read and still acts on.                               *)
RequestFits(k) ==
    LET q == client[k] IN
    /\ q.pc = "insert" => /\ "reindex" \in Ops[k]
                          /\ q.doc \in Doc /\ doc[q.doc].row # "absent"
                          /\ \A j \in Job : Active(j) => job[j].doc # q.doc
    /\ q.pc = "delete" => /\ q.doc \in Doc /\ doc[q.doc].row # "absent"
                          /\ \A c \in q.ids : chunk[c].doc \in {q.doc, NoDoc}
    /\ q.pc = "vectors" => \A c \in q.ids : chunk[c].doc # NoDoc => ~DocLive(chunk[c].doc)

(* What a maintenance pass has read and still acts on.                      *)
PurgeFits(w) ==
    /\ loop[w] = "dropChunks" => \A c \in held[w] : chunk[c].doc # NoDoc => chunk[c].deleted
    /\ \A d \in doomed[w] : doc[d].row \in {"deleted", "purged"}

(* A run of a live document: the document is withdrawn while it is rebuilt, *)
(* has the rows of this run alone once they are committed, and their        *)
(* vectors when the run is about to finish.                                 *)
RebuildFits(w, j) ==
    LET r == run[w][j]
        d == job[j].doc
    IN /\ r.stage = "commit" => DocExists(d)
       /\ DocLive(d) => /\ r.stage \in Rebuilding => doc[d].status # "READY"
                        /\ r.stage \in Written => RowsOf(d) = {r.new}
                        /\ r.stage = "finish" => r.new \in points

ReadyFits(d) ==
    DocLive(d) /\ doc[d].status = "READY" => RowsOf(d) # {} /\ RowsOf(d) \subseteq points

Indexed ==
    /\ References
    /\ \A k \in Client : RequestFits(k)
    /\ \A w \in Worker : PurgeFits(w)
    /\ \A w \in Worker, j \in Job : RebuildFits(w, j)
    /\ \A d \in Doc : ReadyFits(d)

-----------------------------------------------------------------------------
(* What the steps do to a job and to a document.                            *)

\* The job keeps its document, and only an active one changes its status.
JobKept(j) ==
    /\ job'[j].doc = job[j].doc
    /\ \/ job'[j].status = job[j].status
       \/ Active(j) /\ job'[j].status \in JobStatus

\* If the document is live after the step it was before, and what is shown of it is the same.
DocKept(d) ==
    DocLive(d)' => /\ DocLive(d)
                   /\ doc'[d].status = doc[d].status
                   /\ RowsOf(d)' = RowsOf(d)
                   /\ RowsOf(d) \cap points \subseteq points'

LEMMA JobRowDocs ==
  ASSUME TypeOK, NEW j \in Job
  PROVE  /\ Running(j).doc = job[j].doc
         /\ \A n : [Running(j) EXCEPT !.attempts = n].doc = job[j].doc
  BY RowsTyped DEF Running, JobRow

LEMMA PipelineKeepsJobs ==
  ASSUME TypeOK, Owned, NEW w \in Worker, NEW j \in Job, PipelineStep(w, j), NEW i \in Job
  PROVE  JobKept(i)
<1>1. CASE i # j \/ ~JobExists(j)
  <2>1. job'[i] = job[i]
    BY <1>1, PipelineJobs
  <2> QED
    BY <2>1 DEF JobKept
<1>2. CASE i = j /\ JobExists(j)
  <2>1. Active(j)
    BY <1>2, PipelineRuns DEF Owned, RunOwnsItsJob, JobExists, JobStatus, Active
  <2>2. job[j].status \in JobStatus
    BY <1>2 DEF JobExists
  <2>3. job'[j].status \in JobStatus
    <3>1. CASE job'[j] = job[j]
      BY <2>2, <3>1
    <3>2. CASE job'[j].status \in {"RUNNING", "PENDING", "SUCCEEDED", "FAILED"}
      BY <3>2 DEF JobStatus
    <3> QED
      BY <3>1, <3>2, PipelineJobs
  <2>4. ASSUME NEW row, job' = WithJob(j, row), row.doc = job[j].doc
        PROVE  job'[j].doc = job[j].doc
    BY <2>4 DEF WithJob, TypeOK
  <2>5. job'[j].doc = job[j].doc
    <3>1. CASE \E n : job' = WithJob(j, [Running(j) EXCEPT !.attempts = n])
      BY <2>4, <3>1, JobRowDocs
    <3>2. CASE job' = WithJob(j, Running(j))
      BY <2>4, <3>2, JobRowDocs
    <3>3. CASE job' = WithJob(j, Requeued(j))
      BY <2>4, <3>3, StatusOfRequeued
    <3>4. CASE \E st \in {"SUCCEEDED", "FAILED"} : job' = WithJob(j, Ended(j, st))
      BY <2>4, <3>4, StatusOfEnded
    <3> QED
      BY <3>1, <3>2, <3>3, <3>4, PipelineEffect
  <2> QED
    BY <1>2, <2>1, <2>3, <2>5 DEF JobKept
<1> QED
  BY <1>1, <1>2

LEMMA LoopKeepsJobs ==
  ASSUME TypeOK, Owned, NEW w \in Worker, LoopStep(w) \/ LoopFault(w), ~DropDocuments(w),
         NEW j \in Job
  PROVE  JobKept(j)
<1>1. CASE UNCHANGED job
  BY <1>1 DEF JobKept
<1>2. CASE WriteStale(w)
  <2>1. CASE j \notin Listed(w) \/ ~JobExists(j)
    <3>1. job'[j] = job[j]
      BY <1>2, <2>1, StaleJobsWritten DEF Listed
    <3> QED
      BY <3>1 DEF JobKept
  <2>2. CASE j \in stale[w].retry /\ JobExists(j)
    <3>1. job[j].attempts < MaxAttempts /\ Abandoned(j)
      BY <2>2 DEF Owned, ReclaimOwnsItsRows
    <3>2. job[j].attempts \in Nat /\ MaxAttempts \in Nat
      BY RowsTyped, StoreAssumption DEF JobRow, StoreAssumption
    <3>3. Active(j)
      BY <2>2, <3>1, <3>2 DEF Abandoned, Active, JobExists, JobStatus
    <3>4. job'[j] = Requeued(j)
      BY <1>2, <2>2, StaleJobsWritten
    <3>5. Requeued(j).status \in JobStatus /\ Requeued(j).doc = job[j].doc
      BY StatusOfRequeued DEF JobStatus
    <3> QED
      BY <3>3, <3>4, <3>5 DEF JobKept
  <2>3. CASE j \in stale[w].expire /\ j \notin stale[w].retry /\ JobExists(j)
    <3>1. Abandoned(j)
      BY <2>3 DEF Owned, ReclaimOwnsItsRows
    <3>2. Active(j) \/ job[j].status = "FAILED"
      BY <2>3, <3>1 DEF Abandoned, Active, JobExists, JobStatus
    <3>3. job'[j] = Ended(j, "FAILED")
      BY <1>2, <2>3, StaleJobsWritten
    <3>4. Ended(j, "FAILED").status = "FAILED" /\ Ended(j, "FAILED").doc = job[j].doc
      BY StatusOfEnded
    <3>5. "FAILED" \in JobStatus
      BY DEF JobStatus
    <3> QED
      BY <3>2, <3>3, <3>4, <3>5 DEF JobKept
  <2> QED
    BY <2>1, <2>2, <2>3 DEF Listed
<1>3. CASE ClaimDue(w)
  <2>1. \/ job'[j] = job[j]
        \/ j \in DueJobs /\ job'[j] = [job[j] EXCEPT !.status = "RUNNING", !.started = "fresh"]
    BY <1>3 DEF ClaimDue
  <2>2. /\ [job[j] EXCEPT !.status = "RUNNING", !.started = "fresh"].status = "RUNNING"
        /\ [job[j] EXCEPT !.status = "RUNNING", !.started = "fresh"].doc = job[j].doc
    BY RowsTyped DEF JobRow
  <2>3. j \in DueJobs => Active(j)
    BY DEF DueJobs, Active
  <2>4. "RUNNING" \in JobStatus
    BY DEF JobStatus
  <2> QED
    BY <2>1, <2>2, <2>3, <2>4 DEF JobKept
<1> QED
  BY <1>1, <1>2, <1>3, LoopJobs

LEMMA ClockKeepsJobs ==
  ASSUME TypeOK, NEW i \in Job, JobTimesOut(i) \/ BackoffEnds(i), NEW j \in Job
  PROVE  JobKept(j)
<1>1. CASE j # i
  BY <1>1, ClockJobs DEF JobKept
<1>2. CASE j = i /\ JobTimesOut(i)
  <2>1. job'[j] = [job[j] EXCEPT !.started = "stale"]
    BY <1>2 DEF JobTimesOut, TypeOK
  <2> QED
    BY <2>1, RowsTyped DEF JobKept, JobRow
<1>3. CASE j = i /\ BackoffEnds(i)
  <2>1. job'[j] = [job[j] EXCEPT !.due = TRUE]
    BY <1>3 DEF BackoffEnds, TypeOK
  <2> QED
    BY <2>1, RowsTyped DEF JobKept, JobRow
<1> QED
  BY <1>1, <1>2, <1>3

-----------------------------------------------------------------------------
(* The parts of the invariant under steps that leave their subject alone.   *)

LEMMA ReferencesKept ==
  ASSUME References,
         \A j \in Job : JobKept(j),
         \A d \in Doc : /\ doc'[d].row = doc[d].row
                        /\ doc[d].row = "absent" => doc'[d].status = doc[d].status,
         \A c \in Chunk : \/ chunk'[c] = chunk[c]
                          \/ chunk'[c].doc = NoDoc
                          \/ /\ ~chunk'[c].deleted
                             /\ chunk'[c].doc \in Doc /\ DocExists(chunk'[c].doc)
  PROVE  References'
<1>1. \A d \in Doc : /\ DocExists(d)' = DocExists(d)
                     /\ DocLive(d)' = DocLive(d)
  BY DEF DocExists, DocLive
<1>2. JobsHaveDocs'
  <2>1. ASSUME NEW j \in Job
        PROVE  /\ job'[j].status = "absent" => job[j].status = "absent"
               /\ job'[j].status \in JobStatus => job[j].status \in JobStatus
               /\ job'[j].status = "purged" => job[j].status = "purged"
    BY DEF JobKept, Active, JobStatus
  <2> QED
    BY <1>1, <2>1 DEF References, JobsHaveDocs, JobKept
<1>3. OneActiveJob'
  <2>1. \A j \in Job : Active(j)' => Active(j)
    BY DEF JobKept, Active
  <2> QED
    BY <2>1 DEF References, OneActiveJob, JobKept
<1>4. RowsHaveDocs'
  <2>1. ASSUME NEW c \in Chunk, chunk'[c].doc # NoDoc
        PROVE  chunk'[c].doc \in Doc /\ DocExists(chunk'[c].doc)
    BY <2>1 DEF References, RowsHaveDocs
  <2> QED
    BY <1>1, <2>1 DEF RowsHaveDocs, DocExists
<1>5. DeletedRowsHidden'
  <2>1. ASSUME NEW c \in Chunk, chunk'[c].doc # NoDoc, chunk'[c].deleted
        PROVE  chunk'[c].doc \in Doc /\ ~DocLive(chunk'[c].doc)
    BY <2>1 DEF References, RowsHaveDocs, DeletedRowsHidden
  <2> QED
    BY <2>1 DEF DeletedRowsHidden, DocLive
<1>6. AbsentNotReady'
  BY DEF References, AbsentNotReady
<1> QED
  BY <1>2, <1>3, <1>4, <1>5, <1>6 DEF References

LEMMA RequestKept ==
  ASSUME References, NEW k \in Client, RequestFits(k), client'[k] = client[k],
         \A j \in Job : Active(j)' => Active(j) /\ job'[j].doc = job[j].doc,
         \A d \in Doc : /\ doc'[d].row = "absent" => doc[d].row = "absent"
                        /\ DocLive(d)' => DocLive(d),
         \A c \in client[k].ids : c \in Chunk /\ chunk'[c].doc \in {chunk[c].doc, NoDoc}
  PROVE  RequestFits(k)'
<1>1. \A c \in client[k].ids : chunk[c].doc # NoDoc => chunk[c].doc \in Doc
  BY DEF References, RowsHaveDocs
<1> QED
  BY <1>1 DEF RequestFits

LEMMA PurgeKept ==
  ASSUME NEW w \in Worker, PurgeFits(w),
         loop'[w] = "dropChunks" => loop[w] = "dropChunks" /\ held'[w] = held[w],
         doomed'[w] \subseteq doomed[w],
         \A c \in held[w] : chunk'[c] = chunk[c] \/ chunk'[c].doc = NoDoc \/ chunk'[c].deleted,
         \A d \in doomed[w] : doc[d].row \in {"deleted", "purged"}
                                => doc'[d].row \in {"deleted", "purged"}
  PROVE  PurgeFits(w)'
  BY DEF PurgeFits

LEMMA RebuildKept ==
  ASSUME NEW w \in Worker, NEW j \in Job, RebuildFits(w, j), run'[w][j] = run[w][j],
         run[w][j].stage # "none"
           => /\ job'[j].doc = job[j].doc
              /\ DocKept(job[j].doc)
              /\ run[w][j].stage = "commit" => DocExists(job[j].doc)',
         run[w][j].stage = "finish" => run[w][j].new \in Chunk
  PROVE  RebuildFits(w, j)'
<1>1. CASE run[w][j].stage = "none"
  BY <1>1 DEF RebuildFits, Rebuilding, Written
<1>2. CASE run[w][j].stage # "none"
  <2> DEFINE r == run[w][j]
             d == job[j].doc
  <2>1. r.stage = "commit" => DocExists(d)'
    BY <1>2
  <2>2. ASSUME DocLive(d)'
        PROVE  /\ r.stage \in Rebuilding => doc'[d].status # "READY"
               /\ r.stage \in Written => RowsOf(d)' = {r.new}
               /\ r.stage = "finish" => r.new \in points'
    <3>1. /\ DocLive(d) /\ doc'[d].status = doc[d].status /\ RowsOf(d)' = RowsOf(d)
          /\ RowsOf(d) \cap points \subseteq points'
      BY <1>2, <2>2 DEF DocKept
    <3>2. /\ r.stage \in Rebuilding => doc[d].status # "READY"
          /\ r.stage \in Written => RowsOf(d) = {r.new}
          /\ r.stage = "finish" => r.new \in points
      BY <3>1 DEF RebuildFits
    <3> QED
      BY <3>1, <3>2 DEF Written
  <2>3. job'[j].doc = d /\ run'[w][j] = r
    BY <1>2
  <2> QED
    BY <2>1, <2>2, <2>3 DEF RebuildFits, DocExists, DocLive, RowsOf
<1> QED
  BY <1>1, <1>2

LEMMA ReadyKept ==
  ASSUME NEW d \in Doc, ReadyFits(d), DocKept(d)
  PROVE  ReadyFits(d)'
  BY DEF ReadyFits, DocKept

-----------------------------------------------------------------------------
(* Whose run it is: one run at a time works on a document that exists.      *)

LEMMA RunDoc ==
  ASSUME TypeOK, Owned, Indexed, NEW w \in Worker, NEW j \in Job, run[w][j].stage # "none"
  PROVE  /\ job[j].doc \in Doc /\ doc[job[j].doc].row # "absent"
         /\ DocExists(job[j].doc) => JobExists(j) /\ Active(j)
         /\ ~DocExists(job[j].doc) => ~JobExists(j)
<1>1. job[j].status = "RUNNING" \/ job[j].status = "purged"
  BY DEF Owned, RunOwnsItsJob
<1>2. CASE job[j].status = "RUNNING"
  <2>1. job[j].doc \in Doc /\ DocExists(job[j].doc)
    BY <1>2 DEF Indexed, References, JobsHaveDocs, JobStatus
  <2> QED
    BY <1>2, <2>1 DEF JobExists, JobStatus, Active, DocExists
<1>3. CASE job[j].status = "purged"
  <2>1. job[j].doc \in Doc /\ doc[job[j].doc].row = "purged"
    BY <1>3 DEF Indexed, References, JobsHaveDocs
  <2> QED
    BY <1>3, <2>1 DEF JobExists, JobStatus, DocExists
<1> QED
  BY <1>1, <1>2, <1>3

LEMMA OneRunPerDoc ==
  ASSUME TypeOK, Owned, Indexed,
         NEW w \in Worker, NEW j \in Job, run[w][j].stage # "none",
         NEW v \in Worker, NEW i \in Job, run[v][i].stage # "none",
         job[i].doc = job[j].doc, DocExists(job[j].doc)
  PROVE  v = w /\ i = j
<1>1. Active(i) /\ Active(j)
  BY RunDoc
<1>2. i = j
  BY <1>1 DEF Indexed, References, OneActiveJob
<1> QED
  BY <1>2 DEF Owned, ExclusiveJob

-----------------------------------------------------------------------------
(* The pipeline.  A step touches the document of its job and no other.      *)

LEMMA WithStatusEffect ==
  ASSUME TypeOK, NEW d, NEW s, doc' = WithStatus(d, s)
  PROVE  /\ \A e \in Doc : doc'[e].row = doc[e].row
         /\ \A e \in Doc : e # d \/ ~DocExists(e) => doc'[e] = doc[e]
         /\ d \in Doc /\ DocExists(d) => doc'[d].status = s
<1>1. CASE ~DocExists(d)
  BY <1>1 DEF WithStatus
<1>2. CASE DocExists(d)
  <2>1. doc' = [doc EXCEPT ![d].status = s]
    BY <1>2 DEF WithStatus
  <2>2. \A e \in Doc : e # d => doc'[e] = doc[e]
    BY <2>1 DEF TypeOK
  <2>3. ASSUME d \in Doc PROVE doc'[d].row = doc[d].row /\ doc'[d].status = s
    <3>1. doc'[d] = [doc[d] EXCEPT !.status = s] /\ doc[d] \in DocRow
      BY <2>1, <2>3 DEF TypeOK
    <3> QED
      BY <3>1 DEF DocRow
  <2> QED
    BY <1>2, <2>2, <2>3
<1> QED
  BY <1>1, <1>2

\* The steps that leave documents, chunks and vectors alone.
QuietRun(w, j) ==
    \/ Load(w, j) \/ LoadMissing(w, j) \/ Skip(w, j) \/ BuildRefused(w, j) \/ Embed(w, j)
    \/ StageFails(w, j) \/ HandleRetry(w, j) \/ HandleLost(w, j)

LEMMA PipelineStores ==
  ASSUME TypeOK, NEW w \in Worker, NEW j \in Job, PipelineStep(w, j)
  PROVE  \/ QuietRun(w, j) /\ UNCHANGED <<doc, chunk, points>>
         \/ /\ Mark(w, j) /\ doc' = WithStatus(job[j].doc, "PROCESSING")
            /\ UNCHANGED <<chunk, points>>
         \/ Build(w, j) /\ points' = points \ RowsOf(job[j].doc) /\ UNCHANGED <<doc, chunk>>
         \/ Commit(w, j) /\ UNCHANGED points
         \/ /\ Upsert(w, j) \/ UpsertReplyLost(w, j)
            /\ points' = points \cup {run[w][j].new} /\ UNCHANGED <<doc, chunk>>
         \/ /\ Finish(w, j) /\ doc' = WithStatus(job[j].doc, "READY")
            /\ UNCHANGED <<chunk, points>>
         \/ /\ HandleFinal(w, j) /\ UNCHANGED <<chunk, points>>
            /\ \/ UNCHANGED doc
               \/ \E s \in {"FAILED", "CONFLICT"} : doc' = WithStatus(job[j].doc, s)
<1> USE DEF pgVars
<1>1. CASE QuietRun(w, j)
  BY <1>1 DEF QuietRun, Load, LoadMissing, Skip, BuildRefused, Embed, StageFails, HandleRetry,
     HandleLost
<1>2. CASE Mark(w, j) \/ Build(w, j) \/ Commit(w, j)
  BY <1>2 DEF Mark, Build, Commit
<1>3. CASE Upsert(w, j) \/ UpsertReplyLost(w, j) \/ Finish(w, j)
  BY <1>3 DEF Upsert, UpsertReplyLost, Finish
<1>4. CASE HandleFinal(w, j)
  BY <1>4 DEF HandleFinal
<1> QED
  BY <1>1, <1>2, <1>3, <1>4 DEF PipelineStep, QuietRun

\* What Commit writes: the rows of the document are replaced by one nobody names.
LEMMA CommitWrites ==
  ASSUME TypeOK, NEW w \in Worker, NEW j \in Job, Commit(w, j), job[j].doc \in Doc
  PROVE  \E c \in Chunk :
            /\ Fresh(c)
            /\ chunk'[c].doc = job[j].doc /\ ~chunk'[c].deleted
            /\ \A e \in Chunk \ {c} : IF chunk[e].doc = job[j].doc THEN chunk'[e].doc = NoDoc
                                      ELSE chunk'[e] = chunk[e]
            /\ run'[w][j].stage = "embed" /\ run'[w][j].new = c
<1>1. PICK c \in Chunk :
         /\ Fresh(c)
         /\ chunk' = [DropRows(RowsOf(job[j].doc)) EXCEPT ![c] =
                        [doc |-> job[j].doc, deleted |-> FALSE]]
         /\ Becomes(w, j, [run[w][j] EXCEPT !.stage = "embed", !.new = c])
  BY DEF Commit
<1>2. chunk'[c] = [doc |-> job[j].doc, deleted |-> FALSE]
  BY <1>1 DEF DropRows
<1>3. ASSUME NEW e \in Chunk \ {c}
      PROVE  IF chunk[e].doc = job[j].doc THEN chunk'[e].doc = NoDoc
             ELSE chunk'[e] = chunk[e]
  BY <1>1 DEF DropRows, RowsOf, NoRow
<1>4. run'[w][j] = [run[w][j] EXCEPT !.stage = "embed", !.new = c]
  BY <1>1 DEF Becomes, TypeOK
<1>5. run[w][j] \in RunRecord
  BY RunRowTyped
<1>6. run'[w][j].stage = "embed" /\ run'[w][j].new = c
  BY <1>4, <1>5 DEF RunRecord
<1> QED
  BY <1>1, <1>2, <1>3, <1>6

LEMMA PipelineDocRows ==
  ASSUME TypeOK, NEW w \in Worker, NEW j \in Job, PipelineStep(w, j), NEW d \in Doc
  PROVE  /\ doc'[d].row = doc[d].row
         /\ d # job[j].doc \/ ~DocExists(d) => doc'[d].status = doc[d].status
<1>1. CASE UNCHANGED doc
  BY <1>1
<1>2. CASE \E s : doc' = WithStatus(job[j].doc, s)
  BY <1>2, WithStatusEffect
<1>3. CASE Commit(w, j)
  <2>1. doc' = [doc EXCEPT ![job[j].doc].print = run[w][j].print]
    BY <1>3 DEF Commit
  <2>2. CASE d # job[j].doc
    BY <2>1, <2>2 DEF TypeOK
  <2>3. CASE d = job[j].doc
    <3>1. doc'[d] = [doc[d] EXCEPT !.print = run[w][j].print] /\ doc[d] \in DocRow
      BY <2>1, <2>3 DEF TypeOK
    <3> QED
      BY <3>1 DEF DocRow
  <2> QED
    BY <2>2, <2>3
<1> QED
  BY <1>1, <1>2, <1>3, PipelineStores

LEMMA PipelineChunks ==
  ASSUME TypeOK, NEW w \in Worker, NEW j \in Job, PipelineStep(w, j), job[j].doc \in Doc,
         NEW d \in Doc, d # job[j].doc
  PROVE  RowsOf(d)' = RowsOf(d)
<1>1. CASE UNCHANGED chunk
  BY <1>1 DEF RowsOf
<1>2. CASE Commit(w, j)
  <2>1. PICK c \in Chunk :
           /\ Fresh(c)
           /\ chunk'[c].doc = job[j].doc
           /\ \A e \in Chunk \ {c} : IF chunk[e].doc = job[j].doc THEN chunk'[e].doc = NoDoc
                                     ELSE chunk'[e] = chunk[e]
    BY <1>2, CommitWrites
  <2>2. chunk[c].doc # d /\ d # NoDoc
    BY <2>1, StoreAssumption DEF Fresh, Rows, StoreAssumption
  <2>3. \A e \in Chunk : chunk'[e].doc = d <=> chunk[e].doc = d
    BY <2>1, <2>2
  <2> QED
    BY <2>3 DEF RowsOf
<1> QED
  BY <1>1, <1>2, PipelineStores

LEMMA PipelineKeepsDocs ==
  ASSUME TypeOK, NEW w \in Worker, NEW j \in Job, PipelineStep(w, j), job[j].doc \in Doc,
         NEW d \in Doc, d # job[j].doc
  PROVE  DocKept(d)
<1>1. RowsOf(d) \cap points \subseteq points'
  <2>1. RowsOf(d) \cap RowsOf(job[j].doc) = {}
    BY DEF RowsOf
  <2> QED
    BY <2>1, PipelineStores
<1> QED
  BY <1>1, PipelineChunks, PipelineDocRows DEF DocKept, DocLive

\* The parts of the invariant that concern other actors, and the runs of other documents.
LEMMA PipelineFrame ==
  ASSUME TypeOK, Committed, Owned, Indexed, NEW w \in Worker, NEW j \in Job, PipelineStep(w, j)
  PROVE  /\ run[w][j].stage # "none" /\ job[j].doc \in Doc
         /\ \A k \in Client : RequestFits(k)'
         /\ \A v \in Worker : PurgeFits(v)'
         /\ \A v \in Worker, i \in Job : v # w \/ i # j => RebuildFits(v, i)'
         /\ \A d \in Doc : d # job[j].doc => ReadyFits(d)'
<1>1. run[w][j].stage # "none" /\ job[j].doc \in Doc
  BY PipelineRuns, RunDoc
<1>2. \A i \in Job : Active(i)' => Active(i) /\ job'[i].doc = job[i].doc
  BY PipelineKeepsJobs DEF JobKept, Active
<1>3. \A d \in Doc : doc'[d].row = doc[d].row
  BY PipelineDocRows
<1>4. UNCHANGED <<loop, held, doomed, client>>
  BY PipelineEffect DEF sweepVars
<1>5. \/ UNCHANGED chunk
      \/ \E c \in Chunk : Fresh(c) /\ \A e \in Chunk \ {c} : chunk'[e] = chunk[e] \/ chunk'[e].doc = NoDoc
  BY <1>1, PipelineStores, CommitWrites
<1>6. ASSUME NEW k \in Client
      PROVE  RequestFits(k)'
  <2>1. client[k].ids \subseteq Chunk
    BY DEF TypeOK, Request
  <2>2. \A c \in client[k].ids : c \in Chunk /\ chunk'[c].doc \in {chunk[c].doc, NoDoc}
    BY <1>5, <2>1 DEF Fresh
  <2> QED
    BY <1>2, <1>3, <1>4, <2>2, RequestKept DEF Indexed, DocLive
<1>7. ASSUME NEW v \in Worker
      PROVE  PurgeFits(v)'
  <2>1. held[v] \subseteq Chunk /\ doomed[v] \subseteq Doc
    BY DEF TypeOK
  <2>2. \A c \in held[v] : chunk'[c] = chunk[c] \/ chunk'[c].doc = NoDoc
    BY <1>5, <2>1 DEF Fresh
  <2> QED
    BY <1>3, <1>4, <2>1, <2>2, PurgeKept DEF Indexed
<1>8. ASSUME NEW v \in Worker, NEW i \in Job, v # w \/ i # j
      PROVE  RebuildFits(v, i)'
  <2>1. run'[v][i] = run[v][i]
    BY <1>8, PipelineRuns
  <2>2. run[v][i].stage = "finish" => run[v][i].new \in Chunk
    BY DEF Committed
  <2>3. ASSUME run[v][i].stage # "none"
        PROVE  /\ job'[i].doc = job[i].doc
               /\ DocKept(job[i].doc)
               /\ run[v][i].stage = "commit" => DocExists(job[i].doc)'
    <3>1. job[i].doc \in Doc /\ job'[i].doc = job[i].doc
      BY <2>3, RunDoc, PipelineKeepsJobs DEF JobKept
    <3>2. DocExists(job[i].doc) => job[i].doc # job[j].doc
      BY <1>1, <1>8, <2>3, OneRunPerDoc
    <3>3. DocKept(job[i].doc)
      <4>1. CASE DocExists(job[i].doc)
        BY <1>1, <3>1, <3>2, <4>1, PipelineKeepsDocs
      <4>2. CASE ~DocExists(job[i].doc)
        BY <1>3, <3>1, <4>2 DEF DocKept, DocLive, DocExists
      <4> QED
        BY <4>1, <4>2
    <3>4. run[v][i].stage = "commit" => DocExists(job[i].doc)'
      BY <1>3, <3>1 DEF Indexed, RebuildFits, DocExists
    <3> QED
      BY <3>1, <3>3, <3>4
  <2> QED
    BY <2>1, <2>2, <2>3, RebuildKept DEF Indexed
<1>9. \A d \in Doc : d # job[j].doc => ReadyFits(d)'
  BY <1>1, PipelineKeepsDocs, ReadyKept DEF Indexed
<1> QED
  BY <1>1, <1>6, <1>7, <1>8, <1>9

LEMMA PipelineReferences ==
  ASSUME TypeOK, Owned, Indexed, NEW w \in Worker, NEW j \in Job, PipelineStep(w, j)
  PROVE  References'
<1>1. run[w][j].stage # "none" /\ job[j].doc \in Doc
  BY PipelineRuns, RunDoc
<1>2. \A i \in Job : JobKept(i)
  BY PipelineKeepsJobs
<1>3. \A d \in Doc : /\ doc'[d].row = doc[d].row
                     /\ doc[d].row = "absent" => doc'[d].status = doc[d].status
  BY PipelineDocRows DEF DocExists
<1>4. \A c \in Chunk : \/ chunk'[c] = chunk[c]
                       \/ chunk'[c].doc = NoDoc
                       \/ /\ ~chunk'[c].deleted
                          /\ chunk'[c].doc \in Doc /\ DocExists(chunk'[c].doc)
  <2>1. CASE UNCHANGED chunk
    BY <2>1
  <2>2. CASE Commit(w, j)
    <3>1. DocExists(job[j].doc)
      BY <2>2 DEF Commit, At, Indexed, RebuildFits
    <3> QED
      BY <1>1, <2>2, <3>1, CommitWrites
  <2> QED
    BY <2>1, <2>2, PipelineStores
<1> QED
  BY <1>2, <1>3, <1>4, ReferencesKept DEF Indexed

\* Where a step of the pipeline takes its run.
LEMMA PipelineMoves ==
  ASSUME TypeOK, NEW w \in Worker, NEW j \in Job, PipelineStep(w, j)
  PROVE  /\ Build(w, j) => run[w][j].stage = "build" /\ run'[w][j].stage = "commit"
         /\ Commit(w, j) => run[w][j].stage = "commit"
         /\ Upsert(w, j) => run[w][j].stage = "upsert" /\ run'[w][j].stage = "finish"
                            /\ run'[w][j].new = run[w][j].new
         /\ UpsertReplyLost(w, j) => run'[w][j].stage = "fail"
         /\ Finish(w, j) => run[w][j].stage = "finish" /\ run'[w][j].stage = "none"
         /\ Mark(w, j) => run'[w][j].stage = "build"
         /\ HandleFinal(w, j) => run'[w][j].stage = "none"
         /\ Embed(w, j) => run[w][j].stage = "embed" /\ run'[w][j].stage = "upsert"
                           /\ run'[w][j].new = run[w][j].new
         /\ QuietRun(w, j) => Embed(w, j) \/ run'[w][j].stage \in {"none", "skip", "mark", "fail"}
<1> DEFINE r == run[w][j]
<1>1. /\ r \in RunRecord /\ NotRunning.stage = "none"
      /\ \A row : Becomes(w, j, row) => run'[w][j] = row
  BY RunRowTyped DEF NotRunning, Becomes, TypeOK
<1>2. [r EXCEPT !.stage = "fail", !.failure = "transient", !.attempt = 1].stage = "fail"
  BY <1>1 DEF RunRecord
<1>3. /\ \A s : Goto(w, j, s) => run'[w][j].stage = s /\ run'[w][j].new = r.new
      /\ \A kind : Fails(w, j, kind) => run'[w][j].stage = "fail"
      /\ FailsUncounted(w, j) => run'[w][j].stage = "fail"
      /\ Leave(w, j) => run'[w][j].stage = "none"
  <2>1. ASSUME NEW s, Goto(w, j, s)
        PROVE  run'[w][j].stage = s /\ run'[w][j].new = r.new
    <3> DEFINE x == [r EXCEPT !.stage = s]
    <3>1. x.stage = s /\ x.new = r.new
      BY <1>1 DEF RunRecord
    <3>2. Becomes(w, j, x)
      BY <2>1 DEF Goto
    <3> HIDE DEF x
    <3> QED
      BY <1>1, <3>1, <3>2
  <2>2. ASSUME NEW kind, Fails(w, j, kind)
        PROVE  run'[w][j].stage = "fail"
    <3> DEFINE x == [r EXCEPT !.stage = "fail", !.failure = kind]
    <3>1. x.stage = "fail"
      BY <1>1 DEF RunRecord
    <3>2. Becomes(w, j, x)
      BY <2>2 DEF Fails
    <3> HIDE DEF x
    <3> QED
      BY <1>1, <3>1, <3>2
  <2>3. FailsUncounted(w, j) => run'[w][j].stage = "fail"
    BY <1>1, <1>2 DEF FailsUncounted
  <2>4. Leave(w, j) => run'[w][j].stage = "none"
    BY <1>1 DEF Leave
  <2> QED
    BY <2>1, <2>2, <2>3, <2>4
<1>4. Load(w, j) => run'[w][j].stage \in {"skip", "mark"}
  <2>1. ASSUME NEW s \in {"skip", "mark"}, NEW n, NEW p,
               Becomes(w, j, [r EXCEPT !.stage = s, !.attempt = n, !.print = p])
        PROVE  run'[w][j].stage \in {"skip", "mark"}
    <3>1. [r EXCEPT !.stage = s, !.attempt = n, !.print = p].stage = s
      BY <1>1 DEF RunRecord
    <3> QED
      BY <1>1, <2>1, <3>1
  <2>2. Load(w, j) => \E s \in {"skip", "mark"} :
          Becomes(w, j, [r EXCEPT !.stage = s, !.attempt = job[j].attempts + 1, !.print = version[w]])
    BY DEF Load
  <2> QED
    BY <2>1, <2>2
<1>5. \/ ~QuietRun(w, j) \/ Embed(w, j)
      \/ run'[w][j].stage \in {"none", "skip", "mark", "fail"}
  BY <1>3, <1>4 DEF QuietRun, LoadMissing, Skip, BuildRefused, StageFails, HandleRetry, HandleLost
<1> QED
  BY <1>3, <1>5 DEF Mark, Build, Commit, Embed, Upsert, UpsertReplyLost, Finish, HandleFinal, At

\* The document of a run that is committed: no vector of it is gone, and it shows nothing yet.
LEMMA PipelineOwnDoc ==
  ASSUME TypeOK, Committed, Owned, Indexed, NEW w \in Worker, NEW j \in Job, PipelineStep(w, j),
         NEW d \in Doc, d = job[j].doc
  PROVE  RebuildFits(w, j)' /\ ReadyFits(d)'
<1>1. run[w][j].stage # "none"
  BY PipelineFrame
<1>2. /\ job'[j].doc = d
      /\ doc'[d].row = doc[d].row
  BY <1>1, PipelineKeepsJobs, PipelineDocRows DEF JobKept
<1>3. RebuildFits(w, j) /\ ReadyFits(d)
  BY <1>1 DEF Indexed
<1>4. ASSUME run'[w][j].stage \notin Rebuilding
      PROVE  RebuildFits(w, j)'
  BY <1>4 DEF RebuildFits, Rebuilding, Written
<1>5. ASSUME UNCHANGED <<doc, chunk>>, RowsOf(d) \cap points \subseteq points'
      PROVE  ReadyFits(d)'
  BY <1>3, <1>5 DEF ReadyFits, DocLive, RowsOf
<1>6. {"none", "skip", "mark", "fail"} \cap Rebuilding = {}
  BY DEF Rebuilding
<1>7. CASE QuietRun(w, j) /\ ~Embed(w, j) /\ UNCHANGED <<doc, chunk, points>>
  BY <1>4, <1>5, <1>6, <1>7, PipelineMoves
<1>8. CASE Embed(w, j) /\ UNCHANGED <<doc, chunk, points>>
  <2>1. /\ run[w][j].stage = "embed" /\ run'[w][j].stage = "upsert"
        /\ run'[w][j].new = run[w][j].new
    BY <1>8, PipelineMoves
  <2>2. RebuildFits(w, j)'
    BY <1>2, <1>3, <1>8, <2>1 DEF RebuildFits, Rebuilding, Written, DocLive, RowsOf
  <2> QED
    BY <1>5, <1>8, <2>2
<1>9. CASE Mark(w, j) /\ doc' = WithStatus(d, "PROCESSING") /\ UNCHANGED <<chunk, points>>
  <2>1. run'[w][j].stage = "build"
    BY <1>9, PipelineMoves
  <2>2. DocLive(d)' => doc'[d].status = "PROCESSING"
    BY <1>1, <1>2, <1>9, WithStatusEffect DEF DocLive, DocExists
  <2> QED
    BY <1>2, <2>1, <2>2 DEF RebuildFits, Rebuilding, Written, ReadyFits, DocLive
<1>10. CASE Build(w, j) /\ UNCHANGED <<doc, chunk>>
  <2>1. run[w][j].stage = "build" /\ run'[w][j].stage = "commit"
    BY <1>10, PipelineMoves
  <2>2. DocExists(d)
    BY <1>10 DEF Build, SectionRefused
  <2>3. DocLive(d) => doc[d].status # "READY"
    BY <1>3, <2>1 DEF RebuildFits, Rebuilding
  <2> QED
    BY <1>2, <1>10, <2>1, <2>2, <2>3
       DEF RebuildFits, Rebuilding, Written, ReadyFits, DocLive, DocExists
<1>11. CASE Commit(w, j) /\ UNCHANGED points
  <2>1. run[w][j].stage = "commit"
    BY <1>11, PipelineMoves
  <2>2. PICK c \in Chunk :
           /\ chunk'[c].doc = d
           /\ \A e \in Chunk \ {c} : IF chunk[e].doc = d THEN chunk'[e].doc = NoDoc
                                     ELSE chunk'[e] = chunk[e]
           /\ run'[w][j].stage = "embed" /\ run'[w][j].new = c
    BY <1>1, <1>11, CommitWrites
  <2>3. NoDoc # d
    BY <1>1, StoreAssumption DEF StoreAssumption
  <2>4. RowsOf(d)' = {c}
    BY <2>2, <2>3 DEF RowsOf
  <2>5. doc'[d].status = doc[d].status
    <3>1. doc' = [doc EXCEPT ![d].print = run[w][j].print] /\ doc[d] \in DocRow
      BY <1>1, <1>11, RowsTyped DEF Commit
    <3>2. doc'[d] = [doc[d] EXCEPT !.print = run[w][j].print]
      BY <1>1, <3>1 DEF TypeOK
    <3> QED
      BY <3>1, <3>2 DEF DocRow
  <2>6. DocLive(d) => doc[d].status # "READY"
    BY <1>3, <2>1 DEF RebuildFits, Rebuilding
  <2> QED
    BY <1>2, <2>2, <2>4, <2>5, <2>6 DEF RebuildFits, Rebuilding, Written, ReadyFits, DocLive, RowsOf
<1>12. CASE Upsert(w, j) /\ points' = points \cup {run[w][j].new} /\ UNCHANGED <<doc, chunk>>
  <2>1. /\ run[w][j].stage = "upsert" /\ run'[w][j].stage = "finish"
        /\ run'[w][j].new = run[w][j].new
    BY <1>12, PipelineMoves
  <2>2. RebuildFits(w, j)'
    BY <1>2, <1>3, <1>12, <2>1 DEF RebuildFits, Rebuilding, Written, DocLive, RowsOf
  <2> QED
    BY <1>5, <1>12, <2>2
<1>13. CASE UpsertReplyLost(w, j) /\ points' = points \cup {run[w][j].new} /\ UNCHANGED <<doc, chunk>>
  BY <1>4, <1>5, <1>6, <1>13, PipelineMoves
<1>14. CASE Finish(w, j) /\ UNCHANGED <<chunk, points>>
  <2>1. run[w][j].stage = "finish" /\ run'[w][j].stage = "none"
    BY <1>14, PipelineMoves
  <2>2. DocLive(d) => RowsOf(d) = {run[w][j].new} /\ run[w][j].new \in points
    BY <1>3, <2>1 DEF RebuildFits, Written
  <2> QED
    BY <1>2, <1>4, <1>6, <1>14, <2>1, <2>2 DEF ReadyFits, DocLive, RowsOf
<1>15. CASE /\ HandleFinal(w, j) /\ UNCHANGED <<chunk, points>>
            /\ \/ UNCHANGED doc
               \/ \E s \in {"FAILED", "CONFLICT"} : doc' = WithStatus(d, s)
  <2>1. run'[w][j].stage = "none"
    BY <1>15, PipelineMoves
  <2>2. CASE UNCHANGED doc
    BY <1>4, <1>5, <1>6, <1>15, <2>1, <2>2
  <2>3. CASE \E s \in {"FAILED", "CONFLICT"} : doc' = WithStatus(d, s)
    <3>1. DocLive(d)' => doc'[d].status \in {"FAILED", "CONFLICT"}
      BY <1>1, <1>2, <2>3, WithStatusEffect DEF DocLive, DocExists
    <3> QED
      BY <1>4, <1>6, <2>1, <3>1 DEF ReadyFits
  <2> QED
    BY <1>15, <2>2, <2>3
<1> QED
  BY <1>7, <1>8, <1>9, <1>10, <1>11, <1>12, <1>13, <1>14, <1>15, PipelineStores

LEMMA IndexedByPipeline ==
  ASSUME TypeOK, Committed, Owned, Indexed, NEW w \in Worker, NEW j \in Job, PipelineStep(w, j)
  PROVE  Indexed'
<1>1. \A v \in Worker, i \in Job : RebuildFits(v, i)'
  <2>1. job[j].doc \in Doc
    BY PipelineFrame
  <2> QED
    BY <2>1, PipelineFrame, PipelineOwnDoc
<1>2. \A d \in Doc : ReadyFits(d)'
  BY PipelineFrame, PipelineOwnDoc
<1> QED
  BY <1>1, <1>2, PipelineFrame, PipelineReferences DEF Indexed

-----------------------------------------------------------------------------
(* The loop of a worker: sweeps, purges, claims, crashes.                   *)

LEMMA LoopStores ==
  ASSUME NEW w \in Worker, LoopStep(w) \/ LoopFault(w)
  PROVE  /\ UNCHANGED client
         /\ \/ UNCHANGED <<doc, chunk, points>>
            \/ SweepOrphans(w) /\ UNCHANGED <<doc, chunk>>
            \/ PurgeVectors(w) /\ UNCHANGED <<doc, chunk>>
            \/ PurgeRows(w) /\ UNCHANGED <<doc, points>>
            \/ DropDocuments(w) /\ UNCHANGED points
  BY DEF LoopStep, LoopFault, Maintain, ListPoints, ScanRows, SweepOrphans, Dequeue,
         DequeueNothing, ListStale, WriteStale, PurgeVectors, PurgeRows, ListPurgeable,
         DropDocuments, ClaimDue, ClaimNothing, BatchDone, Restart, ReconcileFails, DequeueFails,
         DequeuePartly, MaintenanceFails, Crash, pgVars

LEMMA LoopLists ==
  ASSUME TypeOK, NEW w \in Worker, LoopStep(w) \/ LoopFault(w), NEW v \in Worker
  PROVE  /\ loop'[v] = "dropChunks"
              => \/ loop[v] = "dropChunks" /\ held'[v] = held[v]
                 \/ held'[v] = DeletedRows /\ points' = points \ DeletedRows /\ UNCHANGED chunk
         /\ \/ doomed'[v] \subseteq doomed[v]
            \/ doomed'[v] = Purgeable /\ UNCHANGED doc
<1> USE DEF Move, Hold, TypeOK, pgVars, sweepVars
<1>1. CASE ListPoints(w) \/ ScanRows(w) \/ SweepOrphans(w)
  BY <1>1 DEF ListPoints, ScanRows, SweepOrphans
<1>2. CASE Dequeue(w) \/ DequeueNothing(w) \/ DequeueFails(w) \/ DequeuePartly(w)
  BY <1>2 DEF Dequeue, DequeueNothing, DequeueFails, DequeuePartly
<1>3. CASE ClaimDue(w) \/ ClaimNothing(w) \/ BatchDone(w) \/ Restart(w)
  BY <1>3 DEF ClaimDue, ClaimNothing, BatchDone, Restart
<1>4. CASE ListStale(w) \/ WriteStale(w)
  BY <1>4 DEF ListStale, WriteStale
<1>5. CASE PurgeVectors(w) \/ PurgeRows(w)
  BY <1>5 DEF PurgeVectors, PurgeRows
<1>6. CASE ListPurgeable(w) \/ DropDocuments(w)
  BY <1>6 DEF ListPurgeable, DropDocuments
<1>7. CASE ReconcileFails(w) \/ MaintenanceFails(w) \/ Crash(w)
  BY <1>7 DEF ReconcileFails, MaintenanceFails, Crash
<1> QED
  BY <1>1, <1>2, <1>3, <1>4, <1>5, <1>6, <1>7 DEF LoopStep, LoopFault, Maintain

\* What the purge of documents does: the rows, their jobs and their chunks go together.
LEMMA DropDocumentsEffect ==
  ASSUME TypeOK, NEW w \in Worker, DropDocuments(w)
  PROVE  /\ \A d \in doomed[w] : ~Locked(d)
         /\ \A d \in Doc : IF d \in doomed[w]
                           THEN doc'[d].row = "purged" /\ doc'[d].status = doc[d].status
                           ELSE doc'[d] = doc[d]
         /\ \A j \in Job : /\ job'[j].doc = job[j].doc
                           /\ job'[j].status = IF job[j].doc \in doomed[w] THEN "purged"
                                               ELSE job[j].status
         /\ \A c \in Chunk : chunk'[c] = IF chunk[c].doc \in doomed[w] THEN NoRow ELSE chunk[c]
<1>1. \A d \in Doc : IF d \in doomed[w]
                     THEN doc'[d].row = "purged" /\ doc'[d].status = doc[d].status
                     ELSE doc'[d] = doc[d]
  BY RowsTyped DEF DropDocuments, DocRow
<1>2. \A j \in Job : /\ job'[j].doc = job[j].doc
                     /\ job'[j].status = IF job[j].doc \in doomed[w] THEN "purged"
                                         ELSE job[j].status
  BY RowsTyped DEF DropDocuments, JobRow
<1>3. \A c \in Chunk : chunk'[c] = IF chunk[c].doc \in doomed[w] THEN NoRow ELSE chunk[c]
  BY DEF DropDocuments, DropRows
<1> QED
  BY <1>1, <1>2, <1>3 DEF DropDocuments

LEMMA LoopKeepsDocs ==
  ASSUME TypeOK, Indexed, SweepSparesRows, NEW w \in Worker, LoopStep(w) \/ LoopFault(w),
         NEW d \in Doc
  PROVE  /\ DocKept(d)
         /\ DropDocuments(w) \/ doc'[d] = doc[d]
<1>1. \A c \in Chunk : chunk[c].doc = d /\ DocLive(d) => ~chunk[c].deleted
  BY StoreAssumption DEF Indexed, References, DeletedRowsHidden, StoreAssumption
<1>2. CASE UNCHANGED <<doc, chunk, points>>
  BY <1>2 DEF DocKept, DocLive, RowsOf
<1>3. CASE SweepOrphans(w) /\ UNCHANGED <<doc, chunk>>
  <2>1. points' = points \ held[w] /\ held[w] \cap Rows = {}
    BY <1>3 DEF SweepOrphans, Move, SweepSparesRows
  <2>2. RowsOf(d) \subseteq Rows
    BY StoreAssumption DEF RowsOf, Rows, StoreAssumption
  <2> QED
    BY <1>3, <2>1, <2>2 DEF DocKept, DocLive, RowsOf
<1>4. CASE PurgeVectors(w) /\ UNCHANGED <<doc, chunk>>
  <2>1. points' = points \ DeletedRows
    BY <1>4 DEF PurgeVectors
  <2> QED
    BY <1>1, <1>4, <2>1 DEF DocKept, DocLive, RowsOf, DeletedRows
<1>5. CASE PurgeRows(w) /\ UNCHANGED <<doc, points>>
  <2>1. chunk' = DropRows(held[w])
    BY <1>5 DEF PurgeRows
  <2>2. \A c \in held[w] : chunk[c].doc # NoDoc => chunk[c].deleted
    BY <1>5 DEF PurgeRows, Move, Indexed, PurgeFits
  <2>3. ASSUME DocLive(d), NEW c \in Chunk
        PROVE  chunk'[c].doc = d <=> chunk[c].doc = d
    BY <1>1, <2>1, <2>2, <2>3, StoreAssumption DEF DropRows, NoRow, StoreAssumption
  <2> QED
    BY <1>5, <2>3 DEF DocKept, DocLive, RowsOf
<1>6. CASE DropDocuments(w) /\ UNCHANGED points
  <2>1. ASSUME DocLive(d)'
        PROVE  doc'[d] = doc[d] /\ d \notin doomed[w]
    BY <1>6, <2>1, DropDocumentsEffect DEF DocLive
  <2>2. ASSUME d \notin doomed[w], NEW c \in Chunk
        PROVE  chunk'[c].doc = d <=> chunk[c].doc = d
    BY <1>6, <2>2, DropDocumentsEffect, StoreAssumption DEF NoRow, StoreAssumption
  <2> QED
    BY <1>6, <2>1, <2>2 DEF DocKept, DocLive, RowsOf
<1> QED
  BY <1>2, <1>3, <1>4, <1>5, <1>6, LoopStores

LEMMA LoopReferences ==
  ASSUME TypeOK, Owned, Indexed, NEW w \in Worker, LoopStep(w) \/ LoopFault(w)
  PROVE  References'
<1>1. CASE ~DropDocuments(w)
  <2>1. \A j \in Job : JobKept(j)
    BY <1>1, LoopKeepsJobs
  <2>2. UNCHANGED doc
    BY <1>1, LoopStores
  <2>3. \A c \in Chunk : chunk'[c] = chunk[c] \/ chunk'[c].doc = NoDoc
    BY <1>1, LoopStores DEF PurgeRows, DropRows, NoRow
  <2> QED
    BY <2>1, <2>2, <2>3, ReferencesKept DEF Indexed
<1>2. CASE DropDocuments(w)
  <2>1. doomed[w] \subseteq Doc /\ NoDoc \notin doomed[w]
    BY StoreAssumption DEF TypeOK, StoreAssumption
  <2>2. \A d \in doomed[w] : doc[d].row \in {"deleted", "purged"}
    BY DEF Indexed, PurgeFits
  <2>3. \A d \in Doc : /\ DocExists(d)' <=> DocExists(d) /\ d \notin doomed[w]
                       /\ DocLive(d)' => DocLive(d)
                       /\ doc'[d].row = "purged" <=> doc[d].row = "purged" \/ d \in doomed[w]
                       /\ doc'[d].row = "absent" => doc[d].row = "absent" /\ doc'[d] = doc[d]
    BY <1>2, DropDocumentsEffect DEF DocExists, DocLive
  <2>4. JobsHaveDocs'
    <3>1. ASSUME NEW j \in Job
          PROVE  /\ job'[j].status = "absent" => job'[j].doc = NoDoc
                 /\ job'[j].status \in JobStatus => job'[j].doc \in Doc /\ DocExists(job[j].doc)'
                 /\ job'[j].status = "purged"
                      => job'[j].doc \in Doc /\ doc'[job[j].doc].row = "purged"
                 /\ job'[j].doc = job[j].doc
      <4>1. /\ job'[j].doc = job[j].doc
            /\ job'[j].status = IF job[j].doc \in doomed[w] THEN "purged" ELSE job[j].status
        BY <1>2, DropDocumentsEffect
      <4>2. /\ job[j].status = "absent" => job[j].doc = NoDoc
            /\ job[j].status \in JobStatus => job[j].doc \in Doc /\ DocExists(job[j].doc)
            /\ job[j].status = "purged" => job[j].doc \in Doc /\ doc[job[j].doc].row = "purged"
        BY DEF Indexed, References, JobsHaveDocs
      <4>3. CASE job[j].doc \in doomed[w]
        BY <2>1, <2>3, <4>1, <4>3 DEF JobStatus
      <4>4. CASE job[j].doc \notin doomed[w]
        BY <2>3, <4>1, <4>2, <4>4
      <4> QED
        BY <4>3, <4>4
    <3> QED
      BY <3>1 DEF JobsHaveDocs, DocExists
  <2>5. OneActiveJob'
    <3>1. \A j \in Job : (Active(j)' => Active(j)) /\ job'[j].doc = job[j].doc
      BY <1>2, DropDocumentsEffect DEF Active
    <3> QED
      BY <3>1 DEF Indexed, References, OneActiveJob
  <2>6. \A c \in Chunk : chunk'[c].doc # NoDoc
                           => chunk'[c] = chunk[c] /\ chunk[c].doc \notin doomed[w]
    BY <1>2, DropDocumentsEffect DEF NoRow
  <2>7. RowsHaveDocs'
    <3>1. ASSUME NEW c \in Chunk, chunk'[c].doc # NoDoc
          PROVE  chunk'[c].doc \in Doc /\ DocExists(chunk[c].doc)' /\ chunk'[c] = chunk[c]
      BY <2>3, <2>6, <3>1 DEF Indexed, References, RowsHaveDocs
    <3> QED
      BY <3>1 DEF RowsHaveDocs, DocExists
  <2>8. DeletedRowsHidden'
    <3>1. ASSUME NEW c \in Chunk, chunk'[c].doc # NoDoc, chunk'[c].deleted
          PROVE  ~DocLive(chunk[c].doc)' /\ chunk'[c] = chunk[c]
      BY <2>3, <2>6, <3>1 DEF Indexed, References, RowsHaveDocs, DeletedRowsHidden
    <3> QED
      BY <3>1 DEF DeletedRowsHidden, DocLive
  <2>9. AbsentNotReady'
    BY <2>3 DEF Indexed, References, AbsentNotReady
  <2> QED
    BY <2>4, <2>5, <2>7, <2>8, <2>9 DEF References
<1> QED
  BY <1>1, <1>2

LEMMA IndexedByLoop ==
  ASSUME TypeOK, Committed, Owned, Indexed, SweepSparesRows, NEW w \in Worker,
         LoopStep(w) \/ LoopFault(w)
  PROVE  Indexed'
<1>1. \A j \in Job : /\ Active(j)' => Active(j)
                     /\ job'[j].doc = job[j].doc
  <2>1. CASE DropDocuments(w)
    BY <2>1, DropDocumentsEffect DEF Active
  <2>2. CASE ~DropDocuments(w)
    BY <2>2, LoopKeepsJobs DEF JobKept, Active
  <2> QED
    BY <2>1, <2>2
<1>2. \A d \in Doc : /\ doc'[d].row = "absent" => doc[d].row = "absent"
                     /\ DocLive(d)' => DocLive(d)
                     /\ doc[d].row \in {"deleted", "purged"} => doc'[d].row \in {"deleted", "purged"}
  BY LoopKeepsDocs, DropDocumentsEffect DEF DocLive
<1>3. \A c \in Chunk : chunk'[c] = chunk[c] \/ chunk'[c].doc = NoDoc
  BY LoopStores, DropDocumentsEffect DEF PurgeRows, DropRows, NoRow
<1>4. UNCHANGED client
  BY LoopStores
<1>5. ASSUME NEW k \in Client
      PROVE  RequestFits(k)'
  <2>1. \A c \in client[k].ids : c \in Chunk /\ chunk'[c].doc \in {chunk[c].doc, NoDoc}
    BY <1>3 DEF TypeOK, Request
  <2> QED
    BY <1>1, <1>2, <1>4, <2>1, RequestKept DEF Indexed
<1>6. ASSUME NEW v \in Worker
      PROVE  PurgeFits(v)'
  <2>1. loop'[v] = "dropChunks"
          => \A c \in held'[v] : chunk'[c].doc # NoDoc => chunk'[c].deleted
    <3>1. held[v] \subseteq Chunk
      BY DEF TypeOK
    <3>2. CASE loop[v] = "dropChunks" /\ held'[v] = held[v]
      BY <1>3, <3>1, <3>2 DEF Indexed, PurgeFits
    <3>3. CASE held'[v] = DeletedRows /\ UNCHANGED chunk
      BY <3>3 DEF DeletedRows
    <3> QED
      BY <3>2, <3>3, LoopLists
  <2>2. \A d \in doomed'[v] : doc'[d].row \in {"deleted", "purged"}
    <3>1. CASE doomed'[v] \subseteq doomed[v]
      BY <1>2, <3>1 DEF Indexed, PurgeFits, TypeOK
    <3>2. CASE doomed'[v] = Purgeable /\ UNCHANGED doc
      BY <3>2 DEF Purgeable
    <3> QED
      BY <3>1, <3>2, LoopLists
  <2> QED
    BY <2>1, <2>2 DEF PurgeFits
<1>7. ASSUME NEW v \in Worker, NEW j \in Job
      PROVE  RebuildFits(v, j)'
  <2>1. CASE run'[v][j] = run[v][j]
    <3>1. run[v][j].stage = "finish" => run[v][j].new \in Chunk
      BY DEF Committed
    <3>2. ASSUME run[v][j].stage # "none"
          PROVE  job[j].doc \in Doc /\ DocKept(job[j].doc)
      BY <3>2, RunDoc, LoopKeepsDocs
    <3>3. ASSUME run[v][j].stage = "commit"
          PROVE  DocExists(job[j].doc)'
      <4>1. Locked(job[j].doc) /\ DocExists(job[j].doc)
        BY <3>3 DEF Locked, Indexed, RebuildFits
      <4>2. job[j].doc \in Doc
        BY <3>2, <3>3
      <4>3. doc'[job[j].doc] = doc[job[j].doc]
        BY <4>1, <4>2, LoopKeepsDocs, DropDocumentsEffect
      <4> QED
        BY <1>1, <4>1, <4>3 DEF DocExists
    <3> QED
      BY <1>1, <2>1, <3>1, <3>2, <3>3, RebuildKept DEF Indexed
  <2>2. CASE run'[v][j].stage \in {"none", "load"}
    BY <2>2 DEF RebuildFits, Rebuilding, Written
  <2>3. run'[v][j] = run[v][j] \/ run'[v][j].stage \in {"none", "load"}
    BY LoopEffect, StartEffect
  <2> QED
    BY <2>1, <2>2, <2>3
<1>8. \A d \in Doc : ReadyFits(d)'
  BY LoopKeepsDocs, ReadyKept DEF Indexed
<1> QED
  BY <1>5, <1>6, <1>7, <1>8, LoopReferences DEF Indexed

-----------------------------------------------------------------------------
(* The requests.                                                            *)

LEMMA RequestFrame ==
  ASSUME TypeOK, NEW k \in Client, RequestStep(k)
  PROVE  /\ UNCHANGED <<loop, run, held, doomed>>
         /\ \A m \in Client \ {k} : client'[m] = client[m]
  BY DEF RequestStep, Upload, ReindexCheck, ReindexInsert, Enqueue, EnqueueFails, DeleteRead,
         DeleteCommit, DeleteVectors, Abandon, Answer, Serve, othersOfClient, sweepVars, TypeOK

LEMMA RequestStores ==
  ASSUME NEW k \in Client, RequestStep(k)
  PROVE  \/ Upload(k) /\ UNCHANGED <<chunk, points>>
         \/ ReindexInsert(k) /\ UNCHANGED <<doc, chunk, points>>
         \/ DeleteCommit(k) /\ UNCHANGED <<job, points>>
         \/ DeleteVectors(k) /\ UNCHANGED <<doc, job, chunk>>
         \/ /\ ReindexCheck(k) \/ DeleteRead(k) \/ Enqueue(k) \/ EnqueueFails(k) \/ Abandon(k)
            /\ UNCHANGED <<doc, job, chunk, points>>
  BY DEF RequestStep, Upload, ReindexCheck, ReindexInsert, Enqueue, EnqueueFails, DeleteRead,
         DeleteCommit, DeleteVectors, Abandon, pgVars

LEMMA JobCreated ==
  ASSUME TypeOK, NEW j \in Job, NEW d, job' = [job EXCEPT ![j] = NewJob(d)]
  PROVE  /\ job'[j].status = "PENDING" /\ job'[j].doc = d
         /\ \A i \in Job \ {j} : job'[i] = job[i]
  BY DEF TypeOK, NewJob

LEMMA UploadEffect ==
  ASSUME TypeOK, NEW k \in Client, Upload(k)
  PROVE  \E d \in Doc, j \in Job :
            /\ doc[d].row = "absent" /\ job[j].status = "absent"
            /\ doc'[d].row = "live" /\ doc'[d].status = doc[d].status
            /\ \A e \in Doc \ {d} : doc'[e] = doc[e]
            /\ job'[j].status = "PENDING" /\ job'[j].doc = d
            /\ \A i \in Job \ {j} : job'[i] = job[i]
            /\ client'[k].pc = "enqueue"
<1>1. PICK d \in Doc, j \in Job :
         /\ doc[d].row = "absent" /\ job[j].status = "absent"
         /\ doc' = [doc EXCEPT ![d].row = "live"]
         /\ job' = [job EXCEPT ![j] = NewJob(d)]
         /\ Serve(k, [NoRequest EXCEPT !.pc = "enqueue", !.job = {j}])
  BY DEF Upload
<1>2. doc'[d] = [doc[d] EXCEPT !.row = "live"] /\ doc[d] \in DocRow
  BY <1>1 DEF TypeOK
<1>3. doc'[d].row = "live" /\ doc'[d].status = doc[d].status
  BY <1>2 DEF DocRow
<1>4. \A e \in Doc \ {d} : doc'[e] = doc[e]
  BY <1>1 DEF TypeOK
<1>5. client'[k].pc = "enqueue"
  BY <1>1 DEF Serve, NoRequest, TypeOK
<1>6. /\ job'[j].status = "PENDING" /\ job'[j].doc = d
      /\ \A i \in Job \ {j} : job'[i] = job[i]
  BY <1>1, JobCreated
<1>7. doc[d].row = "absent" /\ job[j].status = "absent"
  BY <1>1
<1> QED
  BY <1>3, <1>4, <1>5, <1>6, <1>7

LEMMA DeleteCommitEffect ==
  ASSUME TypeOK, NEW k \in Client, DeleteCommit(k), client[k].doc \in Doc
  PROVE  /\ \A d \in Doc : IF d = client[k].doc /\ DocExists(d)
                           THEN doc'[d].row = "deleted" /\ doc'[d].status = doc[d].status
                           ELSE doc'[d] = doc[d]
         /\ \A c \in Chunk : IF chunk[c].doc = client[k].doc
                             THEN chunk'[c].doc = chunk[c].doc /\ chunk'[c].deleted
                             ELSE chunk'[c] = chunk[c]
         /\ client'[k].pc = "vectors" /\ client'[k].ids = client[k].ids
<1>1. ASSUME NEW d \in Doc
      PROVE  IF d = client[k].doc /\ DocExists(d)
             THEN doc'[d].row = "deleted" /\ doc'[d].status = doc[d].status
             ELSE doc'[d] = doc[d]
  <2>1. CASE d = client[k].doc /\ DocExists(d)
    <3>1. doc'[d] = [doc[d] EXCEPT !.row = "deleted"] /\ doc[d] \in DocRow
      BY <2>1 DEF DeleteCommit, TypeOK
    <3>2. doc'[d].row = "deleted" /\ doc'[d].status = doc[d].status
      BY <3>1 DEF DocRow
    <3> QED
      BY <2>1, <3>2
  <2>2. CASE ~(d = client[k].doc /\ DocExists(d))
    BY <2>2 DEF DeleteCommit, TypeOK
  <2> QED
    BY <2>1, <2>2
<1>2. ASSUME NEW c \in Chunk
      PROVE  IF chunk[c].doc = client[k].doc
             THEN chunk'[c].doc = chunk[c].doc /\ chunk'[c].deleted
             ELSE chunk'[c] = chunk[c]
  BY RowsTyped DEF DeleteCommit, ChunkRow
<1>3. client'[k].pc = "vectors" /\ client'[k].ids = client[k].ids
  BY DEF DeleteCommit, Serve, NoRequest, TypeOK
<1> QED
  BY <1>1, <1>2, <1>3

LEMMA RequestDocs ==
  ASSUME TypeOK, Indexed, NEW k \in Client, RequestStep(k), NEW d \in Doc
  PROVE  /\ DocExists(d) => DocExists(d)'
         /\ doc'[d].row = "absent" => doc[d].row = "absent"
         /\ doc[d].row \in {"deleted", "purged"} => doc'[d].row \in {"deleted", "purged"}
         /\ doc'[d].status = doc[d].status
         /\ \/ DocKept(d)
            \/ Upload(k) /\ doc[d].row = "absent" /\ doc'[d].row = "live"
<1>1. CASE Upload(k) /\ UNCHANGED <<chunk, points>>
  <2>1. \/ doc'[d] = doc[d]
        \/ doc[d].row = "absent" /\ doc'[d].row = "live" /\ doc'[d].status = doc[d].status
    BY <1>1, UploadEffect
  <2> QED
    BY <1>1, <2>1 DEF DocExists, DocKept, DocLive, RowsOf
<1>2. CASE UNCHANGED <<doc, chunk, points>>
  BY <1>2 DEF DocExists, DocKept, DocLive, RowsOf
<1>3. CASE DeleteCommit(k) /\ UNCHANGED points
  <2>1. client[k].doc \in Doc
    BY <1>3 DEF DeleteCommit, Indexed, RequestFits
  <2>2. RowsOf(d)' = RowsOf(d)
    BY <1>3, <2>1, DeleteCommitEffect DEF RowsOf
  <2>3. /\ doc'[d].status = doc[d].status
        /\ \/ doc'[d] = doc[d]
           \/ DocExists(d) /\ doc'[d].row = "deleted"
    BY <1>3, <2>1, DeleteCommitEffect
  <2> QED
    BY <1>3, <2>2, <2>3 DEF DocExists, DocKept, DocLive
<1>4. CASE DeleteVectors(k) /\ UNCHANGED <<doc, chunk>>
  <2>1. /\ points' = points \ client[k].ids
        /\ \A c \in client[k].ids : chunk[c].doc # NoDoc => ~DocLive(chunk[c].doc)
    BY <1>4 DEF DeleteVectors, Indexed, RequestFits
  <2>2. d # NoDoc
    BY StoreAssumption DEF StoreAssumption
  <2>3. DocLive(d) => RowsOf(d) \cap client[k].ids = {}
    BY <2>1, <2>2 DEF RowsOf
  <2> QED
    BY <1>4, <2>1, <2>3 DEF DocExists, DocKept, DocLive, RowsOf
<1> QED
  BY <1>1, <1>2, <1>3, <1>4, RequestStores

LEMMA RequestReferences ==
  ASSUME TypeOK, Owned, Indexed, NEW k \in Client, RequestStep(k)
  PROVE  References'
<1> USE DEF Indexed, References
<1>1. CASE UNCHANGED <<doc, job, chunk>>
  BY <1>1 DEF JobsHaveDocs, OneActiveJob, RowsHaveDocs, DeletedRowsHidden, AbsentNotReady,
     Active, DocExists, DocLive
<1>2. CASE Upload(k) /\ UNCHANGED chunk
  <2>1. PICK d \in Doc, j \in Job :
           /\ doc[d].row = "absent" /\ job[j].status = "absent"
           /\ doc'[d].row = "live" /\ doc'[d].status = doc[d].status
           /\ \A e \in Doc \ {d} : doc'[e] = doc[e]
           /\ job'[j].status = "PENDING" /\ job'[j].doc = d
           /\ \A i \in Job \ {j} : job'[i] = job[i]
    BY <1>2, UploadEffect
  <2>2. \A i \in Job : job[i].status \in JobStatus \/ job[i].status = "purged" => job[i].doc # d
    BY <2>1 DEF JobsHaveDocs, DocExists
  <2>3. JobsHaveDocs'
    <3>1. "PENDING" \in JobStatus
      BY DEF JobStatus
    <3> QED
      BY <2>1, <2>2, <3>1 DEF JobsHaveDocs, DocExists
  <2>4. OneActiveJob'
    <3>1. \A i \in Job : Active(i) => job[i].doc # d
      BY <2>2 DEF Active, JobStatus
    <3> QED
      BY <2>1, <3>1 DEF OneActiveJob, Active
  <2>5. \A c \in Chunk : chunk[c].doc # NoDoc => chunk[c].doc \in Doc \ {d} /\ chunk'[c] = chunk[c]
    BY <1>2, <2>1 DEF RowsHaveDocs, DocExists
  <2>6. RowsHaveDocs' /\ DeletedRowsHidden'
    BY <1>2, <2>1, <2>5 DEF RowsHaveDocs, DeletedRowsHidden, DocExists, DocLive
  <2>7. AbsentNotReady'
    BY <2>1 DEF AbsentNotReady
  <2> QED
    BY <2>3, <2>4, <2>6, <2>7
<1>3. CASE ReindexInsert(k) /\ UNCHANGED <<doc, chunk>>
  <2>1. CASE UNCHANGED job
    BY <1>1, <1>3, <2>1
  <2>2. CASE DocExists(client[k].doc)
    <3>1. PICK j \in Job : /\ job[j].status = "absent"
                           /\ job' = [job EXCEPT ![j] = NewJob(client[k].doc)]
      BY <1>3, <2>2 DEF ReindexInsert
    <3>2. /\ client[k].doc \in Doc
          /\ \A i \in Job : Active(i) => job[i].doc # client[k].doc
      BY <1>3 DEF ReindexInsert, RequestFits
    <3>3. /\ job'[j].status = "PENDING" /\ job'[j].doc = client[k].doc
          /\ \A i \in Job \ {j} : job'[i] = job[i]
      BY <3>1, JobCreated
    <3>4. "PENDING" \in JobStatus
      BY DEF JobStatus
    <3>5. JobsHaveDocs'
      BY <1>3, <2>2, <3>2, <3>3, <3>4 DEF JobsHaveDocs, DocExists
    <3>6. OneActiveJob'
      BY <3>2, <3>3 DEF OneActiveJob, Active
    <3> QED
      BY <1>3, <3>5, <3>6 DEF RowsHaveDocs, DeletedRowsHidden, AbsentNotReady, DocExists, DocLive
  <2> QED
    BY <1>3, <2>1, <2>2 DEF ReindexInsert
<1>4. CASE DeleteCommit(k) /\ UNCHANGED job
  <2>1. client[k].doc \in Doc
    BY <1>4 DEF DeleteCommit, RequestFits
  <2>2. \A d \in Doc : /\ DocExists(d)' = DocExists(d)
                       /\ DocLive(d)' => DocLive(d) /\ d # client[k].doc
                       /\ doc'[d].row \in {"absent", "purged"} => doc'[d] = doc[d]
                       /\ doc[d].row = "purged" => doc'[d].row = "purged"
    BY <1>4, <2>1, DeleteCommitEffect DEF DocExists, DocLive
  <2>3. JobsHaveDocs' /\ OneActiveJob'
    BY <1>4, <2>2 DEF JobsHaveDocs, OneActiveJob, Active, DocExists
  <2>4. \A c \in Chunk : /\ chunk'[c].doc = chunk[c].doc
                         /\ chunk[c].doc # client[k].doc => chunk'[c] = chunk[c]
    BY <1>4, <2>1, DeleteCommitEffect
  <2>5. RowsHaveDocs'
    BY <2>2, <2>4 DEF RowsHaveDocs, DocExists
  <2>6. DeletedRowsHidden'
    BY <2>2, <2>4 DEF RowsHaveDocs, DeletedRowsHidden, DocLive
  <2>7. AbsentNotReady'
    BY <2>2 DEF AbsentNotReady
  <2> QED
    BY <2>3, <2>5, <2>6, <2>7
<1> QED
  BY <1>1, <1>2, <1>3, <1>4, RequestStores

LEMMA RequestsFit ==
  ASSUME TypeOK, Indexed, OneEditor, NEW k \in Client, RequestStep(k), NEW m \in Client
  PROVE  RequestFits(m)'
<1>a. \A c \in Chunk : chunk[c].doc # NoDoc => chunk[c].doc \in Doc /\ DocExists(chunk[c].doc)
  BY DEF Indexed, References, RowsHaveDocs
<1>b. /\ client[m].ids \subseteq Chunk
      /\ m # k => client'[m] = client[m]
  BY RequestFrame DEF TypeOK, Request
<1>c. \A c \in Chunk : chunk'[c].doc = chunk[c].doc
  <2>1. DeleteCommit(k) => client[k].doc \in Doc
    BY DEF DeleteCommit, Indexed, RequestFits
  <2> QED
    BY <2>1, RequestStores, DeleteCommitEffect
<1>d. \A d \in Doc : /\ doc'[d].row = "absent" => doc[d].row = "absent"
                     /\ DocLive(d)' => DocLive(d) \/ doc[d].row = "absent"
  BY RequestDocs DEF DocKept
<1>1. CASE m # k /\ client[m].pc = "insert"
  <2> DEFINE d == client[m].doc
  <2>1. /\ "reindex" \in Ops[m] /\ d \in Doc /\ doc[d].row # "absent"
        /\ \A j \in Job : Active(j) => job[j].doc # d
    BY <1>1 DEF Indexed, RequestFits
  <2>2. \A j \in Job : Active(j)' => job'[j].doc # d
    <3>1. CASE UNCHANGED job
      BY <2>1, <3>1 DEF Active
    <3>2. CASE Upload(k)
      BY <2>1, <3>2, UploadEffect DEF Active
    <3>3. CASE ReindexInsert(k)
      <4>1. "reindex" \in Ops[k]
        BY <3>3 DEF ReindexInsert, Indexed, RequestFits
      <4> QED
        BY <1>1, <2>1, <4>1 DEF OneEditor
    <3> QED
      BY <3>1, <3>2, <3>3, RequestStores
  <2>3. client'[m].pc = "insert" /\ client'[m].doc = d
    BY <1>1, <1>b
  <2> QED
    BY <1>d, <2>1, <2>2, <2>3 DEF RequestFits, Active
<1>2. CASE m # k /\ client[m].pc = "delete"
  <2>1. RequestFits(m)
    BY DEF Indexed
  <2> QED
    BY <1>2, <1>b, <1>c, <1>d, <2>1 DEF RequestFits
<1>3. CASE m # k /\ client[m].pc = "vectors"
  <2>1. \A c \in client[m].ids : chunk[c].doc # NoDoc => ~DocLive(chunk[c].doc)
    BY <1>3 DEF Indexed, RequestFits
  <2>2. ASSUME NEW c \in client[m].ids, chunk'[c].doc # NoDoc
        PROVE  doc'[chunk'[c].doc].row # "live"
    <3>1. c \in Chunk /\ chunk'[c].doc = chunk[c].doc
      BY <1>b, <1>c
    <3>2. chunk[c].doc \in Doc /\ doc[chunk[c].doc].row # "absent" /\ ~DocLive(chunk[c].doc)
      BY <1>a, <2>1, <2>2, <3>1 DEF DocExists
    <3>3. doc'[chunk[c].doc].row # "live"
      BY <1>d, <3>2 DEF DocLive
    <3> QED
      BY <3>1, <3>3
  <2> QED
    BY <1>3, <1>b, <2>2 DEF RequestFits, DocLive
<1>4. CASE m # k /\ client[m].pc \notin {"insert", "delete", "vectors"}
  BY <1>4, <1>b DEF RequestFits
<1>5. CASE m = k
  <2>1. CASE Upload(k)
    <3>1. client'[k].pc = "enqueue"
      BY <2>1, UploadEffect
    <3> QED
      BY <1>5, <3>1 DEF RequestFits
  <2>2. CASE ReindexInsert(k) \/ Enqueue(k) \/ EnqueueFails(k) \/ DeleteVectors(k) \/ Abandon(k)
    <3>1. Answer(k) => client'[k].pc = "idle"
      BY DEF Answer, Serve, NoRequest, TypeOK
    <3>2. ASSUME NEW S, Serve(k, [NoRequest EXCEPT !.pc = "enqueue", !.job = S])
          PROVE  client'[k].pc = "enqueue"
      BY <3>2 DEF Serve, NoRequest, TypeOK
    <3>3. \/ Answer(k)
          \/ \E j \in Job : Serve(k, [NoRequest EXCEPT !.pc = "enqueue", !.job = {j}])
      BY <2>2 DEF ReindexInsert, Enqueue, EnqueueFails, DeleteVectors, Abandon
    <3>4. client'[k].pc \in {"idle", "enqueue"}
      BY <3>1, <3>2, <3>3
    <3> QED
      BY <1>5, <3>4 DEF RequestFits
  <2>3. CASE ReindexCheck(k) /\ UNCHANGED <<doc, job>>
    <3>1. PICK d \in Doc :
             /\ DocLive(d) /\ ActiveJobs(d) = {}
             /\ Serve(k, [NoRequest EXCEPT !.pc = "insert", !.doc = d])
      BY <2>3 DEF ReindexCheck
    <3>2. client'[k].pc = "insert" /\ client'[k].doc = d
      BY <3>1 DEF Serve, NoRequest, TypeOK
    <3>3. \A j \in Job : Active(j) => job[j].doc # d
      BY <3>1 DEF ActiveJobs, Active
    <3>4. "reindex" \in Ops[k] /\ doc[d].row # "absent"
      BY <2>3, <3>1 DEF ReindexCheck, DocLive
    <3> QED
      BY <1>5, <2>3, <3>2, <3>3, <3>4 DEF RequestFits, Active
  <2>4. CASE DeleteRead(k) /\ UNCHANGED <<doc, chunk>>
    <3>1. PICK d \in Doc :
             /\ DocLive(d)
             /\ Serve(k, [NoRequest EXCEPT !.pc = "delete", !.doc = d, !.ids = LiveRowsOf(d)])
      BY <2>4 DEF DeleteRead
    <3>2. client'[k].pc = "delete" /\ client'[k].doc = d /\ client'[k].ids = LiveRowsOf(d)
      BY <3>1 DEF Serve, NoRequest, TypeOK
    <3>3. \A c \in LiveRowsOf(d) : chunk[c].doc = d
      BY DEF LiveRowsOf, RowsOf
    <3> QED
      BY <1>5, <2>4, <3>1, <3>2, <3>3 DEF RequestFits, DocLive
  <2>5. CASE DeleteCommit(k)
    <3>1. /\ client[k].doc \in Doc /\ doc[client[k].doc].row # "absent"
          /\ \A c \in client[k].ids : chunk[c].doc \in {client[k].doc, NoDoc}
      BY <2>5 DEF DeleteCommit, Indexed, RequestFits
    <3>2. client'[k].pc = "vectors" /\ client'[k].ids = client[k].ids
      BY <2>5, <3>1, DeleteCommitEffect
    <3>3. doc'[client[k].doc].row # "live"
      BY <2>5, <3>1, DeleteCommitEffect DEF DocExists
    <3>4. \A c \in client[k].ids : chunk'[c].doc # NoDoc => doc'[chunk'[c].doc].row # "live"
      BY <1>5, <1>b, <1>c, <3>1, <3>3
    <3> QED
      BY <1>5, <3>2, <3>4 DEF RequestFits, DocLive
  <2> QED
    BY <2>1, <2>2, <2>3, <2>4, <2>5, RequestStores
<1> QED
  BY <1>1, <1>2, <1>3, <1>4, <1>5

LEMMA IndexedByRequest ==
  ASSUME TypeOK, Committed, Owned, Indexed, OneEditor, NEW k \in Client, RequestStep(k)
  PROVE  Indexed'
<1>1. \A m \in Client : RequestFits(m)'
  BY RequestsFit
<1>2. ASSUME NEW v \in Worker
      PROVE  PurgeFits(v)'
  <2>1. \A c \in Chunk : chunk'[c] = chunk[c] \/ chunk'[c].doc = NoDoc \/ chunk'[c].deleted
    <3>1. DeleteCommit(k) => client[k].doc \in Doc
      BY DEF DeleteCommit, Indexed, RequestFits
    <3> QED
      BY <3>1, RequestStores, DeleteCommitEffect
  <2>2. held[v] \subseteq Chunk /\ doomed[v] \subseteq Doc
    BY DEF TypeOK
  <2> QED
    BY <2>1, <2>2, RequestFrame, RequestDocs, PurgeKept DEF Indexed
<1>3. ASSUME NEW v \in Worker, NEW j \in Job
      PROVE  RebuildFits(v, j)'
  <2>1. run'[v][j] = run[v][j]
    BY RequestFrame
  <2>2. run[v][j].stage = "finish" => run[v][j].new \in Chunk
    BY DEF Committed
  <2>3. ASSUME run[v][j].stage # "none"
        PROVE  /\ job'[j].doc = job[j].doc
               /\ DocKept(job[j].doc)
               /\ run[v][j].stage = "commit" => DocExists(job[j].doc)'
    <3>1. job[j].doc \in Doc /\ doc[job[j].doc].row # "absent"
      BY <2>3, RunDoc
    <3>2. job'[j] = job[j]
      BY <2>3, RequestJobs DEF Owned, RunOwnsItsJob
    <3>3. DocKept(job[j].doc)
      BY <3>1, RequestDocs
    <3>4. DocExists(job[j].doc) => DocExists(job[j].doc)'
      BY <3>1, <3>2, RequestDocs DEF DocExists
    <3> QED
      BY <3>2, <3>3, <3>4 DEF Indexed, RebuildFits
  <2> QED
    BY <2>1, <2>2, <2>3, RebuildKept DEF Indexed
<1>4. ASSUME NEW d \in Doc
      PROVE  ReadyFits(d)'
  <2>1. CASE DocKept(d)
    BY <2>1, ReadyKept DEF Indexed
  <2>2. CASE doc[d].row = "absent"
    <3>1. doc'[d].status # "READY"
      BY <2>2, RequestDocs DEF Indexed, References, AbsentNotReady
    <3> QED
      BY <3>1 DEF ReadyFits
  <2> QED
    BY <2>1, <2>2, RequestDocs
<1> QED
  BY <1>1, <1>2, <1>3, <1>4, RequestReferences DEF Indexed

-----------------------------------------------------------------------------
LEMMA IndexedByClock ==
  ASSUME TypeOK, Committed, Indexed, NEW i \in Job, JobTimesOut(i) \/ BackoffEnds(i)
  PROVE  Indexed'
<1>1. UNCHANGED <<doc, chunk, points, run, client, loop, held, doomed>>
  BY DEF JobTimesOut, BackoffEnds, sweepVars
<1>2. \A j \in Job : JobKept(j)
  BY ClockKeepsJobs
<1>3. References'
  BY <1>1, <1>2, ReferencesKept DEF Indexed
<1>4. \A d \in Doc : DocKept(d)
  BY <1>1 DEF DocKept, DocLive, RowsOf
<1>5. \A j \in Job : /\ job'[j].doc = job[j].doc
                     /\ Active(j)' => Active(j)
  BY <1>2 DEF JobKept, Active
<1>6. \A k \in Client : RequestFits(k)'
  BY <1>1, <1>5 DEF Indexed, RequestFits, DocLive, Active
<1>7. \A w \in Worker : PurgeFits(w)'
  BY <1>1 DEF Indexed, PurgeFits
<1>8. \A w \in Worker, j \in Job : RebuildFits(w, j)'
  BY <1>1, <1>5 DEF Indexed, RebuildFits, DocExists, DocLive, RowsOf
<1>9. \A d \in Doc : ReadyFits(d)'
  BY <1>4, ReadyKept DEF Indexed
<1> QED
  BY <1>3, <1>6, <1>7, <1>8, <1>9 DEF Indexed

LEMMA IndexedStutters ==
  ASSUME Indexed, UNCHANGED vars
  PROVE  Indexed'
<1> USE DEF vars
<1>1. References'
  BY DEF Indexed, References, JobsHaveDocs, OneActiveJob, RowsHaveDocs, DeletedRowsHidden,
     AbsentNotReady, Active, DocExists, DocLive
<1>2. \A k \in Client : RequestFits(k)'
  BY DEF Indexed, RequestFits, DocLive, Active
<1>3. \A w \in Worker : PurgeFits(w)'
  BY DEF Indexed, PurgeFits
<1>4. \A w \in Worker, j \in Job : RebuildFits(w, j)'
  BY DEF Indexed, RebuildFits, DocExists, DocLive, RowsOf
<1>5. \A d \in Doc : ReadyFits(d)'
  BY DEF Indexed, ReadyFits, DocLive, RowsOf
<1> QED
  BY <1>1, <1>2, <1>3, <1>4, <1>5 DEF Indexed

LEMMA IndexedStep ==
  ASSUME TypeOK, Committed, Owned, Indexed, SweepSparesRows, OneEditor, [Next]_vars
  PROVE  Indexed'
  BY IndexedByPipeline, IndexedByLoop, IndexedByRequest, IndexedByClock, IndexedStutters DEF Next

LEMMA IndexedInit == Init => Indexed
<1> SUFFICES ASSUME Init PROVE Indexed
  OBVIOUS
<1>1. /\ \A j \in Job : job[j].status = "absent" /\ job[j].doc = NoDoc
      /\ \A d \in Doc : doc[d].row = "absent" /\ doc[d].status = "PENDING"
      /\ \A c \in Chunk : chunk[c].doc = NoDoc
      /\ \A w \in Worker : loop[w] = "boot" /\ doomed[w] = {}
      /\ \A w \in Worker, j \in Job : run[w][j].stage = "none"
      /\ \A k \in Client : client[k].pc = "idle"
  BY DEF Init, NoRow, NotRunning, NoRequest
<1>2. References
  BY <1>1 DEF References, JobsHaveDocs, OneActiveJob, RowsHaveDocs, DeletedRowsHidden,
     AbsentNotReady, Active, JobStatus
<1>3. \A k \in Client : RequestFits(k)
  BY <1>1 DEF RequestFits
<1>4. \A w \in Worker : PurgeFits(w)
  BY <1>1 DEF PurgeFits
<1>5. \A w \in Worker, j \in Job : RebuildFits(w, j)
  BY <1>1 DEF RebuildFits, Rebuilding, Written
<1>6. \A d \in Doc : ReadyFits(d)
  BY <1>1 DEF ReadyFits, DocLive
<1> QED
  BY <1>2, <1>3, <1>4, <1>5, <1>6 DEF Indexed

(* Whatever fails, crashes, is retried, reclaimed, deleted or purged, in    *)
(* whatever order: a live document that says READY has its chunk rows, and  *)
(* every one of them has its vector.                                        *)
THEOREM ReadyAlwaysIndexed ==
  ASSUME Timely = TRUE, RedisEnabled = FALSE, OneEditor
  PROVE  Spec => []ReadyIsIndexed
<1>1. TypeOK /\ Owned /\ [Next]_vars => Owned'
  BY OwnedStep
<1>2. TypeOK /\ Committed /\ Owned /\ Indexed /\ SweepSparesRows /\ [Next]_vars => Indexed'
  BY IndexedStep
<1>3. Indexed => ReadyIsIndexed
  BY DEF Indexed, ReadyFits, ReadyIsIndexed
<1> QED
  BY <1>1, <1>2, <1>3, OwnedInit, IndexedInit, TypeCorrect, SweepSafe, PTL DEF Spec

-----------------------------------------------------------------------------
(* Refinement of DocumentIndex, step by step.                               *)

LifeOf(d) == CASE doc[d].row = "absent" -> "absent"
               [] doc[d].row = "live"   -> "live"
               [] OTHER                 -> "removed"

Mapped == [Index!Next]_Index!indexVars

\* What the mapping shows of one document, before and after a step.
SameLife(d) == LifeOf(d)' = LifeOf(d)
Same(d)     == SameLife(d) /\ Served(d)' = Served(d)
Created(d)  == LifeOf(d) = "absent" /\ LifeOf(d)' = "live" /\ Served(d)' = Served(d)
Hidden(d)   == SameLife(d) /\ Served(d) # {} /\ Served(d)' = {}
Removed(d)  == LifeOf(d) = "live" /\ LifeOf(d)' = "removed" /\ Served(d)' = {}
Published(d) ==
    /\ SameLife(d) /\ LifeOf(d) = "live" /\ Served(d) = {}
    /\ \E c \in Chunk : Served(d)' = {c} /\ \A e \in Doc : c \notin Served(e)

LEMMA MappedStutter ==
  ASSUME \A e \in Doc : Same(e)
  PROVE  Mapped
  BY DEF Same, SameLife, LifeOf, Mapped, Index!indexVars

LEMMA OneDocMapped ==
  ASSUME NEW d \in Doc, \A e \in Doc \ {d} : Same(e),
         Created(d) \/ Hidden(d) \/ Removed(d) \/ Published(d)
  PROVE  Mapped
<1> DEFINE life == [e \in Doc |-> LifeOf(e)]
           view == [e \in Doc |-> Served(e)]
<1>1. ASSUME NEW v, Served(d)' = v
      PROVE  view' = [view EXCEPT ![d] = v]
  BY <1>1 DEF Same
<1>2. ASSUME NEW s, LifeOf(d)' = s
      PROVE  life' = [life EXCEPT ![d] = s]
  BY <1>2 DEF Same, SameLife
<1>3. ASSUME SameLife(d)
      PROVE  life' = life
  BY <1>3 DEF Same, SameLife
<1>4. ASSUME Served(d)' = Served(d)
      PROVE  view' = view
  BY <1>4 DEF Same
<1>5. life[d] = LifeOf(d) /\ \A e \in Doc : view[e] = Served(e)
  OBVIOUS
<1>6. CASE Created(d)
  <2>1. life[d] = "absent" /\ life' = [life EXCEPT ![d] = "live"] /\ view' = view
    BY <1>2, <1>4, <1>5, <1>6 DEF Created
  <2>2. Index!Create(d)
    BY <2>1 DEF Index!Create, LifeOf
  <2> QED
    BY <2>2 DEF Mapped, Index!Next
<1>7. CASE Hidden(d)
  <2>1. view[d] # {} /\ view' = [view EXCEPT ![d] = {}] /\ life' = life
    BY <1>1, <1>3, <1>5, <1>7 DEF Hidden
  <2>2. Index!Withdraw(d)
    BY <2>1 DEF Index!Withdraw, LifeOf
  <2> QED
    BY <2>2 DEF Mapped, Index!Next
<1>8. CASE Removed(d)
  <2>1. life[d] = "live" /\ life' = [life EXCEPT ![d] = "removed"] /\ view' = [view EXCEPT ![d] = {}]
    BY <1>1, <1>2, <1>5, <1>8 DEF Removed
  <2>2. Index!Remove(d)
    BY <2>1 DEF Index!Remove, LifeOf
  <2> QED
    BY <2>2 DEF Mapped, Index!Next
<1>9. CASE Published(d)
  <2>1. PICK c \in Chunk : Served(d)' = {c} /\ \A e \in Doc : c \notin Served(e)
    BY <1>9 DEF Published
  <2>2. /\ life[d] = "live" /\ view[d] = {} /\ \A e \in Doc : c \notin view[e]
        /\ view' = [view EXCEPT ![d] = {c}] /\ life' = life
    BY <1>1, <1>3, <1>5, <1>9, <2>1 DEF Published
  <2>3. Index!Publish(d, c)
    BY <2>2 DEF Index!Publish, LifeOf
  <2> QED
    BY <2>3 DEF Mapped, Index!Next
<1> QED
  BY <1>6, <1>7, <1>8, <1>9

\* Under the invariant a READY document shows all its rows.
LEMMA ServedWhole ==
  ASSUME Indexed, NEW d \in Doc
  PROVE  Served(d) = IF DocLive(d) /\ doc[d].status = "READY" THEN RowsOf(d) ELSE {}
<1>1. CASE ~(DocLive(d) /\ doc[d].status = "READY")
  BY <1>1 DEF Served
<1>2. CASE DocLive(d) /\ doc[d].status = "READY"
  <2>1. RowsOf(d) \subseteq points
    BY <1>2 DEF Indexed, ReadyFits
  <2>2. LiveRowsOf(d) = RowsOf(d)
    BY <1>2, StoreAssumption
       DEF Indexed, References, DeletedRowsHidden, LiveRowsOf, RowsOf, StoreAssumption
  <2> QED
    BY <1>2, <2>1, <2>2 DEF Served
<1> QED
  BY <1>1, <1>2

LEMMA ServedWholeNext ==
  ASSUME Indexed', NEW d \in Doc
  PROVE  Served(d)' = IF DocLive(d)' /\ doc'[d].status = "READY" THEN RowsOf(d)' ELSE {}
<1>1. CASE ~(DocLive(d)' /\ doc'[d].status = "READY")
  BY <1>1 DEF Served, DocLive
<1>2. CASE DocLive(d)' /\ doc'[d].status = "READY"
  <2>1. RowsOf(d)' \subseteq points'
    BY <1>2 DEF Indexed, ReadyFits
  <2>2. LiveRowsOf(d)' = RowsOf(d)'
    BY <1>2, StoreAssumption
       DEF Indexed, References, DeletedRowsHidden, LiveRowsOf, RowsOf, DocLive, StoreAssumption
  <2> QED
    BY <1>2, <2>1, <2>2 DEF Served, DocLive
<1> QED
  BY <1>1, <1>2

LEMMA KeptShowsSame ==
  ASSUME Indexed, Indexed', NEW d \in Doc, DocKept(d), doc'[d].row = doc[d].row
  PROVE  Same(d)
<1>1. Served(d)' = Served(d)
  BY ServedWhole, ServedWholeNext DEF DocKept, DocLive
<1> QED
  BY <1>1 DEF Same, SameLife, LifeOf

LEMMA MappedPipeline ==
  ASSUME TypeOK, Owned, Committed, Indexed, Indexed',
         NEW w \in Worker, NEW j \in Job, PipelineStep(w, j),
         NEW d \in Doc, d = job[j].doc
  PROVE  Mapped
<1>1. \A e \in Doc \ {d} : Same(e)
  BY PipelineKeepsDocs, PipelineDocRows, KeptShowsSame
<1>2. doc'[d].row = doc[d].row
  BY PipelineDocRows
<1>3. SameLife(d)
  BY <1>2 DEF SameLife, LifeOf
<1>4. Served(d) = IF DocLive(d) /\ doc[d].status = "READY" THEN RowsOf(d) ELSE {}
  BY ServedWhole
<1>5. Served(d)' = IF DocLive(d) /\ doc'[d].status = "READY" THEN RowsOf(d)' ELSE {}
  BY <1>2, ServedWholeNext DEF DocLive
<1>6. ASSUME Served(d)' = Served(d) \/ Served(d)' = {}
      PROVE  Mapped
  <2>1. CASE Served(d)' = Served(d)
    <3>1. Same(d)
      BY <1>3, <2>1 DEF Same
    <3> QED
      BY <1>1, <3>1, MappedStutter
  <2>2. CASE Served(d)' = {} /\ Served(d) # {}
    <3>1. Hidden(d)
      BY <1>3, <2>2 DEF Hidden
    <3> QED
      BY <1>1, <3>1, OneDocMapped
  <2> QED
    BY <1>6, <2>1, <2>2
<1>7. CASE UNCHANGED <<doc, chunk>>
  <2>1. RowsOf(d)' = RowsOf(d)
    BY <1>7 DEF RowsOf
  <2> QED
    BY <1>4, <1>5, <1>6, <1>7, <2>1
<1>8. CASE UNCHANGED chunk /\ \E s \in {"PROCESSING", "FAILED", "CONFLICT"} : doc' = WithStatus(d, s)
  <2>1. DocLive(d) => doc'[d].status # "READY"
    BY <1>8, WithStatusEffect DEF DocLive, DocExists
  <2> QED
    BY <1>5, <1>6, <2>1
<1>9. CASE Commit(w, j)
  <2>1. RebuildFits(w, j)' /\ run'[w][j].stage = "embed" /\ job'[j].doc = d
    BY <1>9, CommitWrites, PipelineKeepsJobs DEF Indexed, JobKept
  <2>2. DocLive(d)' => doc'[d].status # "READY"
    BY <2>1 DEF RebuildFits, Rebuilding, DocLive
  <2> QED
    BY <1>2, <1>5, <1>6, <2>2 DEF DocLive
<1>10. CASE Finish(w, j) /\ UNCHANGED <<chunk, points>> /\ doc' = WithStatus(d, "READY")
  <2>1. run[w][j].stage = "finish" /\ run[w][j].new \in Chunk
    BY <1>10, PipelineMoves DEF Committed
  <2>2. CASE ~DocLive(d)
    BY <1>5, <1>6, <2>2
  <2>3. CASE DocLive(d)
    <3>1. doc[d].status # "READY" /\ RowsOf(d) = {run[w][j].new}
      BY <2>1, <2>3 DEF Indexed, RebuildFits, Rebuilding, Written
    <3>2. doc'[d].status = "READY"
      BY <1>10, <2>3, WithStatusEffect DEF DocLive, DocExists
    <3>3. RowsOf(d)' = RowsOf(d)
      BY <1>10 DEF RowsOf
    <3>4. Served(d) = {} /\ Served(d)' = {run[w][j].new}
      BY <1>4, <1>5, <2>3, <3>1, <3>2, <3>3
    <3>5. \A e \in Doc : run[w][j].new \notin Served(e)
      <4>1. \A e \in Doc : Served(e) \subseteq RowsOf(e)
        BY DEF Served, LiveRowsOf
      <4> QED
        BY <3>1, <3>4, <4>1 DEF RowsOf
    <3>6. Published(d)
      BY <1>3, <2>1, <2>3, <3>4, <3>5 DEF Published, LifeOf, DocLive
    <3> QED
      BY <1>1, <3>6, OneDocMapped
  <2> QED
    BY <2>2, <2>3
<1> QED
  BY <1>7, <1>8, <1>9, <1>10, PipelineStores

LEMMA MappedRequest ==
  ASSUME TypeOK, Indexed, Indexed', NEW k \in Client, RequestStep(k)
  PROVE  Mapped
<1>1. CASE UNCHANGED doc
  <2>1. \A e \in Doc : DocKept(e)
    BY <1>1, RequestDocs
  <2> QED
    BY <1>1, <2>1, KeptShowsSame, MappedStutter
<1>2. CASE Upload(k)
  <2>1. PICK d \in Doc : /\ doc[d].row = "absent" /\ doc'[d].row = "live"
                         /\ doc'[d].status = doc[d].status
                         /\ \A e \in Doc \ {d} : doc'[e] = doc[e]
    BY <1>2, UploadEffect
  <2>2. \A e \in Doc \ {d} : DocKept(e)
    BY <2>1, RequestDocs
  <2>3. doc[d].status # "READY"
    BY <2>1 DEF Indexed, References, AbsentNotReady
  <2>4. Served(d) = {} /\ Served(d)' = {}
    BY <2>1, <2>3 DEF Served
  <2>5. Created(d)
    BY <2>1, <2>4 DEF Created, LifeOf
  <2> QED
    BY <2>1, <2>2, <2>5, KeptShowsSame, OneDocMapped
<1>3. CASE DeleteCommit(k)
  <2>1. client[k].doc \in Doc
    BY <1>3 DEF DeleteCommit, Indexed, RequestFits
  <2>2. PICK d \in Doc : d = client[k].doc
    BY <2>1
  <2>3. \A e \in Doc : IF e = d /\ DocExists(e) THEN doc'[e].row = "deleted" ELSE doc'[e] = doc[e]
    BY <1>3, <2>1, <2>2, DeleteCommitEffect
  <2>4. \A e \in Doc : DocKept(e)
    BY <2>3, RequestDocs
  <2>5. \A e \in Doc \ {d} : Same(e)
    BY <2>3, <2>4, KeptShowsSame
  <2>6. CASE DocLive(d)
    <3>1. doc'[d].row = "deleted"
      BY <2>3, <2>6 DEF DocLive, DocExists
    <3>2. Removed(d)
      BY <2>6, <3>1 DEF Removed, LifeOf, Served, DocLive
    <3> QED
      BY <2>5, <3>2, OneDocMapped
  <2>7. CASE ~DocLive(d)
    <3>1. doc'[d].row = doc[d].row
      BY <2>3, <2>7 DEF DocLive, DocExists
    <3>2. Same(d)
      BY <2>4, <3>1, KeptShowsSame
    <3> QED
      BY <2>5, <3>2, MappedStutter
  <2> QED
    BY <2>6, <2>7
<1> QED
  BY <1>1, <1>2, <1>3, RequestStores

LEMMA MappedLoop ==
  ASSUME TypeOK, Indexed, Indexed', SweepSparesRows, NEW w \in Worker,
         LoopStep(w) \/ LoopFault(w)
  PROVE  Mapped
<1>1. ASSUME NEW d \in Doc
      PROVE  Same(d)
  <2>1. DocKept(d)
    BY LoopKeepsDocs
  <2>2. CASE doc'[d] = doc[d]
    BY <2>1, <2>2, KeptShowsSame
  <2>3. CASE DropDocuments(w) /\ d \in doomed[w]
    <3>1. doc'[d].row = "purged" /\ doc[d].row \in {"deleted", "purged"}
      BY <2>3, DropDocumentsEffect DEF Indexed, PurgeFits
    <3>2. Served(d) = {} /\ Served(d)' = {}
      BY <3>1 DEF Served, DocLive
    <3> QED
      BY <3>1, <3>2 DEF Same, SameLife, LifeOf
  <2> QED
    BY <2>2, <2>3, LoopKeepsDocs, DropDocumentsEffect
<1> QED
  BY <1>1, MappedStutter

LEMMA IndexStepMapped ==
  ASSUME TypeOK, Committed, Owned, Indexed, Indexed', SweepSparesRows, [Next]_vars
  PROVE  Mapped
<1>1. ASSUME UNCHANGED <<doc, chunk, points>>
      PROVE  Mapped
  <2>1. \A d \in Doc : DocKept(d)
    BY <1>1 DEF DocKept, DocLive, RowsOf
  <2> QED
    BY <1>1, <2>1, KeptShowsSame, MappedStutter
<1>2. ASSUME NEW w \in Worker, NEW j \in Job, PipelineStep(w, j)
      PROVE  Mapped
  <2>1. job[j].doc \in Doc
    BY <1>2, PipelineFrame
  <2> QED
    BY <1>2, <2>1, MappedPipeline
<1>3. ASSUME NEW i \in Job, JobTimesOut(i) \/ BackoffEnds(i)
      PROVE  Mapped
  BY <1>1, <1>3 DEF JobTimesOut, BackoffEnds
<1>4. CASE UNCHANGED vars
  BY <1>1, <1>4 DEF vars
<1> QED
  BY <1>2, <1>3, <1>4, MappedLoop, MappedRequest DEF Next

(* Readers of the index see whole generations only: a document appears when *)
(* its run finishes, is hidden before it is rebuilt, never shows rows of an *)
(* older run beside the new ones, and never comes back once deleted.        *)
THEOREM IndexHonoured ==
  ASSUME Timely = TRUE, RedisEnabled = FALSE, OneEditor
  PROVE  Spec => ImplementsIndex
<1>1. TypeOK /\ Owned /\ [Next]_vars => Owned'
  BY OwnedStep
<1>2. TypeOK /\ Committed /\ Owned /\ Indexed /\ SweepSparesRows /\ [Next]_vars => Indexed'
  BY IndexedStep
<1>3. Init => Index!Init
  <2>1. ASSUME Init, NEW d \in Doc
        PROVE  doc[d].row = "absent" /\ Served(d) = {}
    BY <2>1 DEF Init, Served, DocLive
  <2> QED
    BY <2>1 DEF Index!Init
<1>4. TypeOK /\ Committed /\ Owned /\ Indexed /\ Indexed' /\ SweepSparesRows /\ [Next]_vars
        => [Index!Next]_Index!indexVars
  BY IndexStepMapped DEF Mapped
<1> QED
  BY <1>1, <1>2, <1>3, <1>4, OwnedInit, IndexedInit, TypeCorrect, SweepSafe, PTL
     DEF Spec, ImplementsIndex, Index!Spec

-----------------------------------------------------------------------------
(* The converse, that a vector never outlives its row, needs one thing      *)
(* more: a maintenance pass must not remove rows under a pipeline run of    *)
(* another process.  It does not if nothing is ever deleted, or if there is *)
(* one worker process, whose loop awaits its batch before it maintains.     *)

NoDeletes == \A k \in Client : "delete" \notin Ops[k]
OneWorker == \A v, w \in Worker : v = w

NoRuns == \A v \in Worker, i \in Job : run[v][i].stage = "none"

\* What a maintenance pass is about to remove: nothing while a run is under way.
Undisturbed ==
    \A w \in Worker :
        (loop[w] = "dropChunks" /\ held[w] # {}) \/ doomed[w] # {} => NoRuns

\* asyncio.gather: a worker is in its batch or in its maintenance pass, never in both.
BatchesAwaited ==
    \A w \in Worker : /\ \A j \in Job : run[w][j].stage # "none" => loop[w] = "busy"
                      /\ doomed[w] # {} => loop[w] = "dropDocs"

NothingDeleted ==
    /\ \A d \in Doc : doc[d].row \in {"absent", "live"}
    /\ \A c \in Chunk : chunk[c].doc # NoDoc => ~chunk[c].deleted
    /\ \A k \in Client : client[k].pc \notin {"delete", "vectors"}
    /\ \A w \in Worker : (loop[w] = "dropChunks" => held[w] = {}) /\ doomed[w] = {}

LEMMA PurgesUndisturbed ==
  ASSUME BatchesAwaited, NoDeletes => NothingDeleted, NoDeletes \/ OneWorker
  PROVE  Undisturbed
<1>1. CASE NoDeletes
  BY <1>1 DEF NothingDeleted, Undisturbed
<1>2. CASE OneWorker
  BY <1>2 DEF OneWorker, BatchesAwaited, Undisturbed, NoRuns
<1> QED
  BY <1>1, <1>2

\* Where a step of the loop leaves the batch and the list of documents to purge.
LEMMA LoopBatches ==
  ASSUME TypeOK, NEW w \in Worker, LoopStep(w) \/ LoopFault(w)
  PROVE  /\ \A v \in Worker \ {w} :
              loop'[v] = loop[v] /\ run'[v] = run[v] /\ doomed'[v] = doomed[v]
         /\ \/ \A j \in Job : run'[w][j].stage = "none"
            \/ loop'[w] = "busy"
            \/ loop[w] # "busy" /\ run'[w] = run[w]
         /\ \/ doomed'[w] = {}
            \/ loop'[w] = "dropDocs"
            \/ loop[w] # "dropDocs" /\ doomed'[w] = doomed[w]
<1> USE DEF Move, TypeOK, sweepVars
<1>1. CASE ListPoints(w) \/ ScanRows(w) \/ SweepOrphans(w) \/ ReconcileFails(w)
  BY <1>1 DEF ListPoints, ScanRows, SweepOrphans, ReconcileFails
<1>2. CASE DequeueNothing(w) \/ DequeueFails(w)
  BY <1>2 DEF DequeueNothing, DequeueFails
<1>3. CASE Dequeue(w) \/ DequeuePartly(w) \/ ClaimDue(w)
  <2>1. \E S : Start(w, S)
    BY <1>3 DEF Dequeue, DequeuePartly, ClaimDue
  <2>2. \A v \in Worker \ {w} : run'[v] = run[v]
    BY <2>1, StartEffect
  <2> QED
    BY <1>3, <2>2 DEF Dequeue, DequeuePartly, ClaimDue
<1>4. CASE ClaimNothing(w) \/ BatchDone(w) \/ Restart(w)
  BY <1>4 DEF ClaimNothing, BatchDone, Restart
<1>5. CASE ListStale(w) \/ WriteStale(w) \/ PurgeVectors(w) \/ PurgeRows(w)
  BY <1>5 DEF ListStale, WriteStale, PurgeVectors, PurgeRows
<1>6. CASE ListPurgeable(w) \/ DropDocuments(w) \/ MaintenanceFails(w)
  BY <1>6 DEF ListPurgeable, DropDocuments, MaintenanceFails
<1>7. CASE Crash(w)
  <2>1. \A j \in Job : run'[w][j].stage = "none"
    BY <1>7, StartEffect DEF Crash
  <2>2. \A v \in Worker \ {w} : run'[v] = run[v]
    BY <1>7, StartEffect DEF Crash
  <2> QED
    BY <1>7, <2>1, <2>2 DEF Crash
<1> QED
  BY <1>1, <1>2, <1>3, <1>4, <1>5, <1>6, <1>7 DEF LoopStep, LoopFault, Maintain

LEMMA AwaitedStep ==
  ASSUME TypeOK, BatchesAwaited, [Next]_vars
  PROVE  BatchesAwaited'
<1>1. ASSUME NEW w \in Worker, LoopStep(w) \/ LoopFault(w)
      PROVE  BatchesAwaited'
  BY <1>1, LoopBatches DEF BatchesAwaited
<1>2. ASSUME NEW w \in Worker, NEW j \in Job, PipelineStep(w, j)
      PROVE  BatchesAwaited'
  <2>1. UNCHANGED <<loop, doomed>>
    BY <1>2, PipelineEffect DEF sweepVars
  <2>2. run[w][j].stage # "none"
    BY <1>2, PipelineRuns
  <2>3. \A v \in Worker, i \in Job : v # w \/ i # j => run'[v][i] = run[v][i]
    BY <1>2, PipelineRuns
  <2> QED
    BY <2>1, <2>2, <2>3 DEF BatchesAwaited
<1>3. ASSUME NEW k \in Client, RequestStep(k)
      PROVE  BatchesAwaited'
  BY <1>3, RequestFrame DEF BatchesAwaited
<1>4. ASSUME NEW j \in Job, JobTimesOut(j) \/ BackoffEnds(j)
      PROVE  BatchesAwaited'
  BY <1>4 DEF JobTimesOut, BackoffEnds, sweepVars, BatchesAwaited
<1>5. CASE UNCHANGED vars
  BY <1>5 DEF vars, BatchesAwaited
<1> QED
  BY <1>1, <1>2, <1>3, <1>4, <1>5 DEF Next

LEMMA UndeletedStep ==
  ASSUME TypeOK, Owned, Indexed, NoDeletes, NothingDeleted, [Next]_vars
  PROVE  NothingDeleted'
<1>1. ASSUME NEW w \in Worker, LoopStep(w) \/ LoopFault(w)
      PROVE  NothingDeleted'
  <2>1. doomed[w] = {} /\ DeletedRows = {} /\ Purgeable = {}
    BY DEF NothingDeleted, DeletedRows, Rows, Purgeable
  <2>2. \A d \in Doc : doc'[d] = doc[d]
    BY <1>1, <2>1, LoopStores, DropDocumentsEffect
  <2>3. \A c \in Chunk : chunk'[c] = chunk[c]
    <3>1. CASE PurgeRows(w)
      <4>1. held[w] = {}
        BY <3>1 DEF PurgeRows, Move, NothingDeleted
      <4> QED
        BY <3>1, <4>1 DEF PurgeRows, DropRows
    <3> QED
      BY <1>1, <2>1, <3>1, LoopStores, DropDocumentsEffect
  <2>4. UNCHANGED client
    BY <1>1, LoopStores
  <2>5. ASSUME NEW v \in Worker
        PROVE  (loop'[v] = "dropChunks" => held'[v] = {}) /\ doomed'[v] = {}
    BY <1>1, <2>1, LoopLists DEF NothingDeleted
  <2> QED
    BY <2>2, <2>3, <2>4, <2>5 DEF NothingDeleted
<1>2. ASSUME NEW w \in Worker, NEW j \in Job, PipelineStep(w, j)
      PROVE  NothingDeleted'
  <2>1. UNCHANGED <<loop, held, doomed, client>>
    BY <1>2, PipelineEffect DEF sweepVars
  <2>2. \A d \in Doc : doc'[d].row = doc[d].row
    BY <1>2, PipelineDocRows
  <2>3. job[j].doc \in Doc
    BY <1>2, PipelineRuns, RunDoc
  <2>4. \A c \in Chunk : chunk'[c] = chunk[c] \/ chunk'[c].doc = NoDoc \/ ~chunk'[c].deleted
    BY <1>2, <2>3, PipelineStores, CommitWrites
  <2> QED
    BY <2>1, <2>2, <2>4 DEF NothingDeleted
<1>3. ASSUME NEW k \in Client, RequestStep(k)
      PROVE  NothingDeleted'
  <2>1. UNCHANGED <<loop, held, doomed>>
    BY <1>3, RequestFrame
  <2>2. ~DeleteCommit(k) /\ ~DeleteRead(k)
    <3>1. ~DeleteRead(k)
      BY DEF NoDeletes, DeleteRead
    <3>2. client[k].pc # "delete"
      BY DEF NothingDeleted
    <3>3. ~DeleteCommit(k)
      BY <3>2 DEF DeleteCommit
    <3> QED
      BY <3>1, <3>3
  <2>3. UNCHANGED chunk
    BY <1>3, <2>2, RequestStores
  <2>4. \A d \in Doc : doc'[d].row \in {"absent", "live"}
    <3>1. CASE Upload(k)
      BY <3>1, UploadEffect DEF NothingDeleted
    <3> QED
      BY <1>3, <2>2, <3>1, RequestStores DEF NothingDeleted
  <2>5. client'[k].pc \notin {"delete", "vectors"}
    <3>1. CASE Upload(k)
      BY <3>1, UploadEffect
    <3>2. CASE ReindexCheck(k)
      BY <3>2 DEF ReindexCheck, Serve, NoRequest, TypeOK
    <3>3. CASE ReindexInsert(k) /\ ~Answer(k)
      <4>1. PICK i \in Job : Serve(k, [NoRequest EXCEPT !.pc = "enqueue", !.job = {i}])
        BY <3>3 DEF ReindexInsert
      <4> DEFINE q == [NoRequest EXCEPT !.pc = "enqueue", !.job = {i}]
      <4>2. q.pc = "enqueue"
        BY DEF NoRequest
      <4>3. client'[k] = q
        BY <4>1 DEF Serve, TypeOK
      <4> QED
        BY <4>2, <4>3
    <3>4. CASE Answer(k)
      BY <3>4 DEF Answer, Serve, NoRequest, TypeOK
    <3>5. Enqueue(k) \/ EnqueueFails(k) \/ DeleteVectors(k) \/ Abandon(k) => Answer(k)
      BY DEF Enqueue, EnqueueFails, DeleteVectors, Abandon
    <3> QED
      BY <1>3, <2>2, <3>1, <3>2, <3>3, <3>4, <3>5 DEF RequestStep
  <2>6. \A m \in Client : client'[m].pc \notin {"delete", "vectors"}
    BY <1>3, <2>5, RequestFrame DEF NothingDeleted
  <2> QED
    BY <2>1, <2>3, <2>4, <2>6 DEF NothingDeleted
<1>4. ASSUME NEW j \in Job, JobTimesOut(j) \/ BackoffEnds(j)
      PROVE  NothingDeleted'
  BY <1>4 DEF JobTimesOut, BackoffEnds, sweepVars, NothingDeleted
<1>5. CASE UNCHANGED vars
  BY <1>5 DEF vars, NothingDeleted
<1> QED
  BY <1>1, <1>2, <1>3, <1>4, <1>5 DEF Next

(* Rows before vectors on the way in, vectors before rows on the way out:   *)
(* where each run and each maintenance pass stands in that order.           *)
VectorFits(w, j) ==
    LET r == run[w][j]
        d == job[j].doc
    IN /\ r.stage # "none" => job[j].status = "RUNNING"
       /\ r.stage = "commit" => RowsOf(d) \cap points = {}
       /\ r.stage \in Written => chunk[r.new].doc = d
DropFits(w) ==
    /\ loop[w] = "dropChunks" => held[w] \cap points = {}
    /\ \A d \in doomed[w] : RowsOf(d) = {}
Ordered ==
    /\ PointsHaveRows
    /\ \A w \in Worker, j \in Job : VectorFits(w, j)
    /\ \A w \in Worker : DropFits(w)

\* The document of a run exists, and no other run works on it.
LEMMA OrderedRun ==
  ASSUME TypeOK, Owned, Indexed, Ordered, NEW w \in Worker, NEW j \in Job, run[w][j].stage # "none"
  PROVE  /\ job[j].doc \in Doc /\ DocExists(job[j].doc)
         /\ \A v \in Worker, i \in Job :
              run[v][i].stage # "none" /\ (v # w \/ i # j) => job[i].doc # job[j].doc
<1>1. JobExists(j)
  BY DEF Ordered, VectorFits, JobExists, JobStatus
<1>2. job[j].doc \in Doc /\ DocExists(job[j].doc)
  BY <1>1, RunDoc
<1> QED
  BY <1>2, OneRunPerDoc

\* While a run is under way no pass holds anything to remove.
LEMMA NothingHeldInRuns ==
  ASSUME Undisturbed, NEW w \in Worker, NEW j \in Job, run[w][j].stage # "none",
         NEW v \in Worker
  PROVE  (loop[v] = "dropChunks" => held[v] = {}) /\ doomed[v] = {}
  BY DEF Undisturbed, NoRuns

\* A run that goes on keeps its job, and the job stays RUNNING.
LEMMA RunGoesOn ==
  ASSUME Owned', Ordered, NEW w \in Worker, NEW j \in Job,
         run[w][j].stage # "none", run'[w][j].stage # "none", JobKept(j)
  PROVE  job'[j].status = "RUNNING" /\ job'[j].doc = job[j].doc
<1>1. job[j].status = "RUNNING"
  BY DEF Ordered, VectorFits
<1>2. job'[j].status # "purged"
  BY <1>1 DEF JobKept, JobStatus
<1> QED
  BY <1>2 DEF Owned, RunOwnsItsJob, JobKept

LEMMA OrderedByPipeline ==
  ASSUME TypeOK, Committed, Owned, Owned', Indexed, Undisturbed, Ordered,
         NEW w \in Worker, NEW j \in Job, PipelineStep(w, j), NEW d, d = job[j].doc
  PROVE  Ordered'
<1>1. run[w][j].stage # "none" /\ d \in Doc /\ DocExists(d) /\ d # NoDoc
  BY PipelineRuns, OrderedRun, StoreAssumption DEF StoreAssumption
<1>2. UNCHANGED <<loop, held, doomed>>
  BY PipelineEffect DEF sweepVars
<1>3. \A w1 \in Worker : DropFits(w1)'
  BY <1>1, <1>2, NothingHeldInRuns DEF DropFits
<1>4. \A i \in Job : job'[i].doc = job[i].doc
  BY PipelineKeepsJobs DEF JobKept
<1>5. PointsHaveRows
  BY DEF Ordered
<1>6. VectorFits(w, j)
  BY DEF Ordered
<1>7. ASSUME NEW v \in Worker, NEW i \in Job, run'[v][i].stage # "none", run[v][i].stage # "none"
      PROVE  job'[i].status = "RUNNING"
  BY <1>7, RunGoesOn, PipelineKeepsJobs
<1>8. run[w][j].stage \in Written => run[w][j].new \in RowsOf(d)
  BY <1>6 DEF VectorFits, Committed, Written, RowsOf
<1>9. points' \subseteq points \cup RowsOf(d)
  <2>1. Upsert(w, j) \/ UpsertReplyLost(w, j) => run[w][j].stage \in Written
    BY DEF Upsert, UpsertReplyLost, At, Written
  <2> QED
    BY <1>8, <2>1, PipelineStores
<1>10. RowsOf(d) \subseteq Rows
  BY <1>1 DEF RowsOf, Rows
<1>11. PointsHaveRows'
  <2>1. CASE UNCHANGED chunk
    BY <1>5, <1>9, <1>10, <2>1 DEF PointsHaveRows, Rows
  <2>2. CASE Commit(w, j) /\ UNCHANGED points
    <3>1. RowsOf(d) \cap points = {}
      BY <1>6, <2>2, PipelineMoves DEF VectorFits
    <3>2. PICK c \in Chunk : /\ Fresh(c)
                             /\ \A e \in Chunk \ {c} : chunk[e].doc # d => chunk'[e] = chunk[e]
      BY <1>1, <2>2, CommitWrites
    <3>3. c \notin points
      BY <3>2 DEF Fresh
    <3> QED
      BY <1>5, <2>2, <3>1, <3>2, <3>3 DEF PointsHaveRows, Rows, RowsOf
  <2> QED
    BY <2>1, <2>2, PipelineStores
<1>12. VectorFits(w, j)'
  <2> DEFINE r == run'[w][j]
  <2>1. CASE r.stage = "none" \/ r.stage \notin Written \cup {"commit"}
    BY <1>1, <1>7, <2>1 DEF VectorFits, Written
  <2>2. CASE Build(w, j)
    <3>1. r.stage = "commit" /\ UNCHANGED chunk /\ points' = points \ RowsOf(d)
      BY <2>2, PipelineMoves, PipelineStores DEF Build, pgVars
    <3>2. RowsOf(d)' = RowsOf(d)
      BY <3>1 DEF RowsOf
    <3> QED
      BY <1>1, <1>4, <1>7, <3>1, <3>2 DEF VectorFits, Written, RowsOf
  <2>3. CASE Commit(w, j)
    <3>1. r.stage = "embed" /\ chunk'[r.new].doc = d
      BY <1>1, <2>3, CommitWrites
    <3> QED
      BY <1>1, <1>4, <1>7, <3>1 DEF VectorFits
  <2>4. CASE Embed(w, j) \/ Upsert(w, j)
    <3>1. /\ r.stage \in {"upsert", "finish"} /\ r.new = run[w][j].new
          /\ run[w][j].stage \in Written
      BY <2>4, PipelineMoves DEF Written
    <3>2. chunk'[r.new].doc = d
      BY <1>6, <2>4, <3>1 DEF VectorFits, Embed, Upsert, pgVars
    <3> QED
      BY <1>1, <1>4, <1>7, <3>1, <3>2 DEF VectorFits
  <2> QED
    BY <2>1, <2>2, <2>3, <2>4, PipelineMoves, PipelineStores DEF Written
<1>13. ASSUME NEW v \in Worker, NEW i \in Job, v # w \/ i # j
       PROVE  VectorFits(v, i)'
  <2>1. run'[v][i] = run[v][i]
    BY <1>13, PipelineRuns
  <2>2. CASE run[v][i].stage = "none"
    BY <2>1, <2>2 DEF VectorFits, Written
  <2>3. CASE run[v][i].stage # "none"
    <3>1. PICK e \in Doc : e = job[i].doc /\ e # d
      BY <1>1, <1>13, <2>3, OrderedRun
    <3>2. RowsOf(e)' = RowsOf(e)
      BY <1>1, <3>1, PipelineChunks
    <3>3. RowsOf(e) \cap RowsOf(d) = {}
      BY <3>1 DEF RowsOf
    <3>4. VectorFits(v, i)
      BY DEF Ordered
    <3>5. run[v][i].stage = "commit" => RowsOf(e)' \cap points' = {}
      BY <1>9, <3>1, <3>2, <3>3, <3>4 DEF VectorFits
    <3>6. run[v][i].stage \in Written => run[v][i].new \in RowsOf(e)'
      BY <3>1, <3>2, <3>4 DEF VectorFits, Committed, Written, RowsOf
    <3>7. job'[i].doc = e
      BY <1>4, <3>1
    <3> QED
      BY <1>7, <2>1, <2>3, <3>5, <3>6, <3>7 DEF VectorFits, RowsOf
  <2> QED
    BY <2>2, <2>3
<1> QED
  BY <1>3, <1>11, <1>12, <1>13 DEF Ordered

LEMMA LoopRemoves ==
  ASSUME TypeOK, NEW w \in Worker, LoopStep(w) \/ LoopFault(w)
  PROVE  /\ points' \subseteq points
         /\ \A c \in Chunk : chunk'[c].doc \in {chunk[c].doc, NoDoc}
<1>1. CASE SweepOrphans(w) \/ PurgeVectors(w)
  BY <1>1 DEF SweepOrphans, PurgeVectors, pgVars
<1>2. CASE PurgeRows(w)
  BY <1>2 DEF PurgeRows, DropRows, NoRow
<1>3. CASE DropDocuments(w) /\ UNCHANGED points
  BY <1>3, DropDocumentsEffect DEF NoRow
<1> QED
  BY <1>1, <1>2, <1>3, LoopStores

\* A step of the loop starts runs of the jobs it has claimed, or ends those it had.
LEMMA LoopRuns ==
  ASSUME TypeOK, RedisEnabled = FALSE, NEW w \in Worker, LoopStep(w) \/ LoopFault(w),
         NEW v \in Worker, NEW i \in Job, run'[v][i].stage # "none"
  PROVE  \/ run'[v][i] = run[v][i]
         \/ run'[v][i].stage = "load" /\ job'[i].status = "RUNNING"
<1>1. CASE UNCHANGED run
  BY <1>1
<1>2. CASE ClaimDue(w)
  <2>1. PICK S \in SUBSET DueJobs :
               /\ Start(w, S)
               /\ \A j \in S : job'[j].status = "RUNNING"
    BY <1>2, ClaimJobs
  <2>2. /\ \A j \in Job : run'[w][j].stage = IF j \in S THEN "load" ELSE "none"
        /\ \A u \in Worker \ {w} : run'[u] = run[u]
    BY <2>1, StartEffect
  <2> QED
    BY <2>1, <2>2
<1>3. CASE Crash(w)
  <2>1. /\ \A j \in Job : run'[w][j].stage = "none"
        /\ \A u \in Worker \ {w} : run'[u] = run[u]
    BY <1>3, StartEffect DEF Crash
  <2> QED
    BY <2>1
<1>4. ListStale(w) \/ WriteStale(w) \/ DropDocuments(w) \/ MaintenanceFails(w) => UNCHANGED run
  BY DEF ListStale, WriteStale, DropDocuments, MaintenanceFails
<1> QED
  BY <1>1, <1>2, <1>3, <1>4, LoopQuiet

\* A pass touches no row and no job's document while it holds nothing.
LEMMA IdlePass ==
  ASSUME TypeOK, Owned, NEW w \in Worker, LoopStep(w) \/ LoopFault(w), doomed[w] = {},
         loop[w] = "dropChunks" => held[w] = {}
  PROVE  /\ \A c \in Chunk : chunk'[c] = chunk[c]
         /\ \A j \in Job : JobKept(j)
<1>1. \A c \in Chunk : chunk'[c] = chunk[c]
  <2>1. CASE PurgeRows(w)
    <3>1. held[w] = {}
      BY <2>1 DEF PurgeRows, Move
    <3> QED
      BY <2>1, <3>1 DEF PurgeRows, DropRows
  <2> QED
    BY <2>1, LoopStores, DropDocumentsEffect
<1>2. ASSUME NEW j \in Job
      PROVE  JobKept(j)
  <2>1. CASE DropDocuments(w)
    BY <2>1, DropDocumentsEffect DEF JobKept
  <2> QED
    BY <2>1, LoopKeepsJobs
<1> QED
  BY <1>1, <1>2

LEMMA VectorKept ==
  ASSUME TypeOK, Committed, Owned', Ordered, NEW w \in Worker, NEW j \in Job,
         run'[w][j] = run[w][j],
         run[w][j].stage # "none"
           => /\ JobKept(j)
              /\ points' \subseteq points
              /\ \A c \in Chunk : chunk'[c].doc = chunk[c].doc
  PROVE  VectorFits(w, j)'
<1>1. CASE run[w][j].stage = "none"
  BY <1>1 DEF VectorFits, Written
<1>2. CASE run[w][j].stage # "none"
  <2>1. job'[j].status = "RUNNING" /\ job'[j].doc = job[j].doc
    BY <1>2, RunGoesOn
  <2>2. VectorFits(w, j)
    BY DEF Ordered
  <2>3. run[w][j].stage \in Written => run[w][j].new \in Chunk
    BY DEF Committed, Written
  <2> QED
    BY <1>2, <2>1, <2>2, <2>3 DEF VectorFits, RowsOf
<1> QED
  BY <1>1, <1>2

LEMMA OrderedByLoop ==
  ASSUME TypeOK, Committed, Owned, Owned', Indexed, Undisturbed, Ordered, RedisEnabled = FALSE,
         NEW w \in Worker, LoopStep(w) \/ LoopFault(w)
  PROVE  Ordered'
<1>1. /\ points' \subseteq points
      /\ \A c \in Chunk : chunk'[c].doc \in {chunk[c].doc, NoDoc}
  BY LoopRemoves
<1>2. PointsHaveRows'
  <2>1. ASSUME NEW c \in points
        PROVE  c \in Chunk /\ chunk[c].doc \in Doc
    BY <2>1 DEF Ordered, PointsHaveRows, Rows, Indexed, References, RowsHaveDocs
  <2>2. CASE UNCHANGED chunk
    BY <1>1, <2>2 DEF Ordered, PointsHaveRows, Rows
  <2>3. CASE PurgeRows(w)
    <3>1. held[w] \cap points = {}
      BY <2>3 DEF PurgeRows, Move, Ordered, DropFits
    <3>2. \A c \in points : chunk'[c] = chunk[c]
      BY <2>1, <2>3, <3>1 DEF PurgeRows, DropRows
    <3> QED
      BY <1>1, <3>2 DEF Ordered, PointsHaveRows, Rows
  <2>4. CASE DropDocuments(w)
    <3>1. \A d \in doomed[w] : RowsOf(d) = {}
      BY DEF Ordered, DropFits
    <3>2. \A c \in points : chunk'[c] = chunk[c]
      BY <2>1, <2>4, <3>1, DropDocumentsEffect DEF RowsOf
    <3> QED
      BY <1>1, <3>2 DEF Ordered, PointsHaveRows, Rows
  <2> QED
    BY <2>2, <2>3, <2>4, LoopStores
<1>3. ASSUME NEW v \in Worker, NEW i \in Job
      PROVE  VectorFits(v, i)'
  <2>1. CASE run'[v][i] = run[v][i]
    <3>1. ASSUME run[v][i].stage # "none"
          PROVE  JobKept(i) /\ \A c \in Chunk : chunk'[c].doc = chunk[c].doc
      BY <3>1, NothingHeldInRuns, IdlePass
    <3> QED
      BY <1>1, <2>1, <3>1, VectorKept
  <2>2. CASE run'[v][i].stage = "none"
    BY <2>2 DEF VectorFits, Written
  <2>3. CASE run'[v][i].stage = "load" /\ job'[i].status = "RUNNING"
    BY <2>3 DEF VectorFits, Written
  <2> QED
    BY <2>1, <2>2, <2>3, LoopRuns
<1>4. ASSUME NEW v \in Worker
      PROVE  DropFits(v)'
  <2>1. loop'[v] = "dropChunks" => held'[v] \cap points' = {}
    <3>1. CASE loop[v] = "dropChunks" /\ held'[v] = held[v]
      BY <1>1, <3>1 DEF Ordered, DropFits
    <3> QED
      BY <3>1, LoopLists
  <2>2. ASSUME NEW d \in doomed'[v]
        PROVE  RowsOf(d)' = {}
    <3>1. d \in Doc /\ d # NoDoc
      <4>1. doomed'[v] \subseteq doomed[v] \/ doomed'[v] = Purgeable
        BY LoopLists
      <4> QED
        BY <4>1, StoreAssumption DEF TypeOK, Purgeable, StoreAssumption
    <3>2. RowsOf(d) = {}
      <4>1. d \in doomed[v] \/ d \in Purgeable
        BY LoopLists
      <4> QED
        BY <4>1 DEF Ordered, DropFits, Purgeable
    <3> QED
      BY <1>1, <3>1, <3>2 DEF RowsOf
  <2> QED
    BY <2>1, <2>2 DEF DropFits, RowsOf
<1> QED
  BY <1>2, <1>3, <1>4 DEF Ordered

LEMMA OrderedByRequest ==
  ASSUME TypeOK, Committed, Owned', Indexed, Ordered, NEW k \in Client, RequestStep(k)
  PROVE  Ordered'
<1>1. UNCHANGED <<loop, run, held, doomed>>
  BY RequestFrame
<1>2. points' \subseteq points
  BY RequestStores DEF DeleteVectors
<1>3. \A c \in Chunk : chunk'[c].doc = chunk[c].doc
  <2>1. DeleteCommit(k) => client[k].doc \in Doc
    BY DEF DeleteCommit, Indexed, RequestFits
  <2> QED
    BY <2>1, RequestStores, DeleteCommitEffect
<1>4. PointsHaveRows'
  BY <1>2, <1>3 DEF Ordered, PointsHaveRows, Rows
<1>5. ASSUME NEW w \in Worker, NEW j \in Job
      PROVE  VectorFits(w, j)'
  <2>1. run[w][j].stage # "none" => JobKept(j)
    BY RequestJobs DEF Ordered, VectorFits, JobKept
  <2> QED
    BY <1>1, <1>2, <1>3, <2>1, VectorKept
<1>6. \A w \in Worker : DropFits(w)'
  BY <1>1, <1>2, <1>3 DEF Ordered, DropFits, RowsOf
<1> QED
  BY <1>4, <1>5, <1>6 DEF Ordered

LEMMA OrderedStep ==
  ASSUME TypeOK, Committed, Owned, Owned', Indexed, Undisturbed, Ordered, RedisEnabled = FALSE,
         [Next]_vars
  PROVE  Ordered'
<1>1. ASSUME UNCHANGED <<chunk, points, run, loop, held, doomed>>, \A j \in Job : JobKept(j)
      PROVE  Ordered'
  <2>1. PointsHaveRows' /\ \A w \in Worker : DropFits(w)'
    BY <1>1 DEF Ordered, PointsHaveRows, Rows, DropFits, RowsOf
  <2>2. \A w \in Worker, j \in Job : VectorFits(w, j)'
    BY <1>1, VectorKept
  <2> QED
    BY <2>1, <2>2 DEF Ordered
<1>2. ASSUME NEW i \in Job, JobTimesOut(i) \/ BackoffEnds(i)
      PROVE  Ordered'
  <2>1. UNCHANGED <<chunk, points, run, loop, held, doomed>>
    BY <1>2 DEF JobTimesOut, BackoffEnds, sweepVars
  <2> QED
    BY <1>1, <1>2, <2>1, ClockKeepsJobs
<1>3. CASE UNCHANGED vars
  BY <1>1, <1>3 DEF vars, JobKept
<1> QED
  BY <1>2, <1>3, OrderedByPipeline, OrderedByLoop, OrderedByRequest DEF Next

LEMMA OrderedInit == Init => Ordered /\ BatchesAwaited /\ NothingDeleted
<1> SUFFICES ASSUME Init PROVE Ordered /\ BatchesAwaited /\ NothingDeleted
  OBVIOUS
<1>1. /\ \A d \in Doc : doc[d].row = "absent"
      /\ \A c \in Chunk : chunk[c].doc = NoDoc
      /\ points = {}
      /\ \A w \in Worker : loop[w] = "boot" /\ doomed[w] = {}
      /\ \A w \in Worker, j \in Job : run[w][j].stage = "none"
      /\ \A k \in Client : client[k].pc = "idle"
  BY DEF Init, NoRow, NotRunning, NoRequest
<1>2. Ordered
  BY <1>1 DEF Ordered, PointsHaveRows, VectorFits, DropFits, Written
<1> QED
  BY <1>1, <1>2 DEF BatchesAwaited, NothingDeleted

(* Every vector has its chunk row, through rebuilds, failures in any stage, *)
(* lost replies, crashes and start-up sweeps, as long as a document cannot  *)
(* be deleted under a run of another process.  Where it can, the purge may  *)
(* take the rows of a run that then writes their vectors.                   *)
THEOREM VectorsAlwaysHaveRows ==
  ASSUME Timely = TRUE, RedisEnabled = FALSE, OneEditor, NoDeletes \/ OneWorker
  PROVE  Spec => []PointsHaveRows
<1>1. TypeOK /\ Owned /\ [Next]_vars => Owned'
  BY OwnedStep
<1>2. TypeOK /\ Committed /\ Owned /\ Indexed /\ SweepSparesRows /\ [Next]_vars => Indexed'
  BY IndexedStep
<1>3. TypeOK /\ BatchesAwaited /\ [Next]_vars => BatchesAwaited'
  BY AwaitedStep
<1>4. /\ TypeOK /\ Owned /\ Indexed /\ (NoDeletes => NothingDeleted) /\ [Next]_vars
      => (NoDeletes => NothingDeleted)'
  BY UndeletedStep
<1>5. BatchesAwaited /\ (NoDeletes => NothingDeleted) => Undisturbed
  BY PurgesUndisturbed
<1>6. /\ TypeOK /\ Committed /\ Owned /\ Owned' /\ Indexed /\ Undisturbed /\ Ordered
      /\ [Next]_vars
      => Ordered'
  BY OrderedStep
<1>7. Ordered => PointsHaveRows
  BY DEF Ordered
<1>8. Init => (NoDeletes => NothingDeleted)
  BY OrderedInit
<1> QED
  BY <1>1, <1>2, <1>3, <1>4, <1>5, <1>6, <1>7, <1>8, OwnedInit, IndexedInit, OrderedInit,
     TypeCorrect, SweepSafe, PTL DEF Spec
=============================================================================
