----------------------------- MODULE Ingestion -----------------------------
(***************************************************************************)
(* The ingestion system as a whole: API requests, worker processes and     *)
(* their pipeline runs over the shared stores, with worker crashes.        *)
(***************************************************************************)
EXTENDS Pipeline, DocumentService, IngestionWorker

Init ==
    /\ doc = [d \in Doc |-> [row |-> "absent", status |-> "PENDING", print |-> 0]]
    /\ job = [j \in Job |-> [status |-> "absent", doc |-> NoDoc, attempts |-> 0,
                             due |-> FALSE, started |-> "null"]]
    /\ chunk = [c \in Chunk |-> NoRow]
    /\ points = {}
    /\ queue = {} /\ apiBroken = FALSE /\ broken = {}
    /\ loop = [w \in Worker |-> "boot"]
    /\ run = [w \in Worker |-> [j \in Job |-> NotRunning]]
    /\ held = [w \in Worker |-> {}]
    /\ stale = [w \in Worker |-> NoStale]
    /\ doomed = [w \in Worker |-> {}]
    /\ version = [w \in Worker |-> 1]
    /\ client = [k \in Client |-> NoRequest]
    /\ crashes = 0

Next ==
    \/ \E w \in Worker, j \in Job : PipelineStep(w, j)
    \/ \E w \in Worker : LoopStep(w) \/ LoopFault(w)
    \/ \E k \in Client : RequestStep(k)
    \/ \E j \in Job : JobTimesOut(j) \/ BackoffEnds(j)

Spec == Init /\ [][Next]_vars

(***************************************************************************)
(* Fairness: a worker that is up keeps running its loop and its pipeline   *)
(* coroutines, a supervisor restarts it, and time passes.  Nothing is      *)
(* assumed of clients, of failures or of crashes.                          *)
(***************************************************************************)
Fairness ==
    /\ \A w \in Worker : WF_vars(LoopStep(w))
    /\ \A w \in Worker, j \in Job : WF_vars(PipelineStep(w, j))
    /\ \A j \in Job : WF_vars(JobTimesOut(j)) /\ WF_vars(BackoffEnds(j))

FairSpec == Spec /\ Fairness

-----------------------------------------------------------------------------
(* A job claimed from the database is processed by one worker at a time:    *)
(* what claim_pending promises with FOR UPDATE SKIP LOCKED, extended over   *)
(* retries, stale reclaim, crashes and restarts.                            *)
ExclusiveJob ==
    \A w1, w2 \in Worker, j \in Job :
        run[w1][j].stage # "none" /\ run[w2][j].stage # "none" => w1 = w2

(* Why: a run owns its job, RUNNING and not stale, until the run ends; and  *)
(* the rows a reclaim pass has listed stay nobody's until it writes them,   *)
(* with the attempts it has seen.                                           *)
RunOwnsItsJob ==
    \A w \in Worker, j \in Job :
        run[w][j].stage # "none"
          => \/ job[j].status = "RUNNING" /\ job[j].started = "fresh"
             \/ job[j].status = "purged"
Abandoned(j) ==
    /\ \A w \in Worker : run[w][j].stage = "none"
    /\ \/ job[j].status = "RUNNING" /\ job[j].started = "stale"
       \/ job[j].status = "purged"
       \/ job[j].status = "PENDING" /\ ~job[j].due /\ job[j].attempts < MaxAttempts
       \/ job[j].status = "FAILED" /\ job[j].attempts >= MaxAttempts
ReclaimOwnsItsRows ==
    \A w \in Worker :
        /\ \A j \in stale[w].retry  : Abandoned(j) /\ job[j].attempts < MaxAttempts
        /\ \A j \in stale[w].expire : Abandoned(j) /\ job[j].attempts >= MaxAttempts
Owned == ExclusiveJob /\ RunOwnsItsJob /\ ReclaimOwnsItsRows

(* A live READY document has its chunk rows, and every one has its vector:  *)
(* 09-database-schema section 11, "READY only when both sides succeeded",   *)
(* kept afterwards through rebuilds, deletes, sweeps and purges.            *)
ReadyIsIndexed ==
    \A d \in Doc : DocLive(d) /\ doc[d].status = "READY"
                     => RowsOf(d) # {} /\ RowsOf(d) \subseteq points

(* A vector never outlives its chunk row (09-database-schema section 11:    *)
(* rows before points on the way in, points before rows on the way out).    *)
PointsHaveRows == points \subseteq Rows

(* Whatever the start-up reconciliation is about to delete has no chunk     *)
(* row, however the pipelines of other workers interleave with its scan.    *)
SweepSparesRows == \A w \in Worker : loop[w] = "sweep" => held[w] \cap Rows = {}

(* A RUNNING job carries started_at, without which list_stale_running would *)
(* never find it again after its worker died.                               *)
RunningIsReclaimable ==
    \A j \in Job : job[j].status = "RUNNING" => job[j].started # "null"

(* The attempts counted on a job never exceed ingestion_max_attempts.       *)
AttemptsBounded == \A j \in Job : job[j].attempts <= MaxAttempts

(* Why: a waiting job has an attempt left, and a run that will be retried   *)
(* has not used the last one.                                               *)
AttemptFits(w, j) ==
    LET r == run[w][j] IN
    /\ r.stage = "load" => job[j].attempts < MaxAttempts
    /\ r.stage \in {"mark", "skip"} => r.attempt <= MaxAttempts
    /\ r.stage \in {"mark", "skip", "build", "commit", "embed", "upsert", "finish"}
         => job[j].attempts <= r.attempt
    /\ r.stage = "fail" /\ Retryable(w, j) => job[j].attempts < MaxAttempts
AttemptLeft ==
    /\ \A j \in Job : job[j].status = "PENDING" => job[j].attempts < MaxAttempts
    /\ \A w \in Worker, j \in Job : AttemptFits(w, j)

(* A job that SUCCEEDED or FAILED is never touched again: neither a slow    *)
(* worker nor a second reclaim pass revives it.                             *)
FinishedJobsStay ==
    [][\A j \in Job : job[j].status \in {"SUCCEEDED", "FAILED"}
                        => job'[j].status \in {job[j].status, "purged"}]_vars

(* Every job of a document nobody deletes ends, SUCCEEDED or FAILED, through *)
(* failures, a worker killed at any point, and stale reclaim, unless its    *)
(* first transaction fails again and again: those attempts are not counted, *)
(* for process() starts with attempt = 1 and writes attempt_count last      *)
(* (pipeline.py:114, 172), and _handle_failure requeues them.               *)
FailsBeforeCounted(j) ==
    \E w \in Worker : run[w][j].stage \in {"load", "mark", "skip"} /\ run'[w][j].stage = "fail"
JobsEnd ==
    \A d \in Doc, j \in Job :
        \/ []<><<FailsBeforeCounted(j)>>_vars
        \/ j \in ActiveJobs(d) ~> j \notin ActiveJobs(d) \/ ~DocLive(d)

(* The worker's docstring: a transient failure is retried at most           *)
(* ingestion_max_attempts times, so every job of a live document ends.      *)
EveryJobEnds ==
    \A d \in Doc, j \in Job :
        j \in ActiveJobs(d) ~> j \notin ActiveJobs(d) \/ ~DocLive(d)

(* A soft-deleted document that no pipeline run works on, and none of whose *)
(* chunk rows is live, is physically purged.                                *)
Settled(d) == /\ doc[d].row = "deleted" /\ LiveRowsOf(d) = {}
              /\ \A w \in Worker, j \in Job :
                     job[j].doc = d => run[w][j].stage \in {"none", "load", "fail"}
DeletedIsPurged == \A d \in Doc : Settled(d) ~> doc[d].row = "purged"

(* Refinement: what users can be shown changes only by whole documents.     *)
Index == INSTANCE DocumentIndex WITH
           life <- [d \in Doc |-> CASE doc[d].row = "absent" -> "absent"
                                    [] doc[d].row = "live"   -> "live"
                                    [] OTHER                 -> "removed"],
           view <- [d \in Doc |-> Served(d)]
ImplementsIndex == Index!Spec

(* The worker's docstring: transient failures are retried, and a job fails  *)
(* for good only when its attempts are used up.  Stated for runs in which   *)
(* only transient faults are injected and nothing is deleted.               *)
TransientIsRetried == \A j \in Job : job[j].status = "FAILED" => job[j].attempts = MaxAttempts

(* cleanup_service.py: physical clean-up finishes what a soft delete began. *)
DeletedGoesAway == \A d \in Doc : doc[d].row = "deleted" ~> doc[d].row = "purged"
=============================================================================
