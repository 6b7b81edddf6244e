# TLA+ verification of the private-knowledge RAG service

Specifications of the concurrent and failure-prone parts of this repository, the
TLC configurations that check them on small instances, and TLAPS proofs of the
properties that matter most. Paths below are relative to the repository root.

- [The system](#the-system) · [Modules](#modules) · [How the model corresponds to the code](#how-the-model-corresponds-to-the-code)
- [Runs](#runs) · [Bounds](#bounds) · [Fairness](#fairness) · [Proofs](#proofs) · [Findings](#findings)
- [What is not modelled](#what-is-not-modelled) · [Plan](#plan)

## The system

A FastAPI application (`app/main.py`, `app/api`) and one or more worker processes
(`workers/ingestion_worker.py`) share PostgreSQL (rows), Qdrant (vectors) and
Redis (an optional fast lane). Nothing else connects them: every interaction is a
row, a point or a list element.

| Component | State it keeps | Operations | Talks to | What is hard | What makes it correct |
|---|---|---|---|---|---|
| Ingestion pipeline (`app/ingestion/pipeline.py`) | none of its own; job, document, section, chunk rows; points | `process(job)`, `_handle_failure` | PostgreSQL, Qdrant, embedding API | four transactions and two remote calls in one run, any of which may fail, or die with the process; deletes and other runs in between | READY only with rows and vectors; a failure that was counted is retried a bounded number of times; no orphan vectors |
| Ingestion worker (`workers/ingestion_worker.py`) | position in its loop, batch in progress | reconcile, dequeue, reclaim, clean up, claim | everything | several replicas, crashes, stale jobs, duplicate delivery | one owner per job; every job ends |
| Document requests (`app/services/ingestion_service.py`) | document and job rows | upload, reindex, delete | PostgreSQL, Qdrant, queue | reads, commit and vector delete are separate steps | a deleted document is never shown again and is finally purged |
| Clean-up (`app/services/cleanup_service.py`) | rows, points | purge chunks, documents, wiki pages, traces, audit; reconcile orphans | PostgreSQL, Qdrant | two stores without a common transaction; scans against concurrent writers | vectors go before rows; live rows keep their vectors |
| Repositories (`app/storage/postgres/repositories`) | all tables | queries and updates | PostgreSQL | `claim_pending` under `SKIP LOCKED`, `coalesce(started_at)` | atomic claims; stale jobs can be found |
| Redis queues (`app/services/queue.py`) | two lists, a sticky `_broken` flag per client | enqueue, dequeue | Redis | ambiguous replies, list cap checked before the push | best effort: the poll makes up for every loss |
| Knowledge bases (`app/services/knowledge_base_service.py`) | knowledge-base rows | create, soft delete with cascade | all stores | the cascade finds its rows in one snapshot per statement and waits for locks in another order than appends and page deletes | nothing of a deleted knowledge base remains visible; the request is answered |
| Wiki (`app/services/wiki_service.py`) | pages, revisions, shadow documents and chunks, vectors | distil, delete a page | LLM, PostgreSQL, Qdrant, the background tasks of queries | read-modify-write across LLM calls and transactions; vectors follow the commit | versions are dense; a live page is indexed once and by its latest text; no increment is lost |
| Query and conversation (`app/services/query_service.py`, `conversation_service.py`, `app/api/routers/query.py`) | permits, messages, traces, background tasks | ask, stream, persist, distil afterwards | retrieval, LLM, wiki | overload, failures, disconnects and the shutdown leave the stream on different paths | permits are conserved; an answer and its trace agree; done means stored |
| Retrieval (`app/retrieval`, `_rag_pipeline`) | none; reads rows in several statements | recall twice, fuse, batch, rerank, build the context | stores, reranker | documents leave service between the steps, rerankers out of contract, ties, budgets | each candidate once; reranking conserves; the context keeps its limits |
| Agent (`app/agent`) and tools (`app/tools`, `app/policy`, `app/tracing`) | graph state of a turn, audit rows, messages | model rounds, tool calls through the gate, suspend and resume | LLM, tools, humans | approvals over several rounds, failing tools, a failing audit store, a budget | a tool runs only when sanctioned, once, and audited; the turn ends |
| Prompts (`app/llm/prompts`) | prompt versions, cache | load, publish | PostgreSQL | publish against cached readers | one active version per name |
| Parsers, chunkers, metadata (`app/ingestion`) | heading stack, pending units | text to blocks to chunks with parents | – | fences, front matter, token budgets, pieces of oversized units | nothing is lost or miscited; limits hold; a parent holds its child |
| Providers and retry (`app/embedding`, `app/llm/providers`, `app/reranker`, `app/core/retry.py`) | none | remote calls | external | timeouts | bounded attempts |
| API, configuration, metrics, evaluation, front end (`app/api`, `app/core`, `app/observability`, `app/evaluation`, `web`) | request state | decoding, mapping errors, display | services | – | – |

The hazards found while reading, each at its line, are in `PROJECT.json`.

## Modules

Ingestion

| Module | Models | State and actions |
|---|---|---|
| `RagStore` | the shared stores and the repositories | all variables, the row types, the queries and updates as operators |
| `Pipeline` | `IngestionPipeline.process` and `_handle_failure` | `run[w][j]`: where worker w stands in job j; one action per stretch of code between two points where other processes can interfere |
| `DocumentService` | `IngestionService.upload / reindex / delete`, `IngestionQueue.enqueue` | `client[k]`: a request, cut into reads, commit and what follows it |
| `IngestionWorker` | `run()` of the worker, `reclaim_stale_jobs`, `claim_due_jobs`, `CleanupService`, dequeuing, crash and restart, the clock | `loop[w]`, `held`, `stale`, `doomed` |
| `Ingestion` | composes the three over `RagStore` | `Init`, `Next`, `Spec`, `FairSpec`, the properties |
| `DocumentIndex` | the promise to the retrieval side | `life`, `view`: the index of a document appears, is withdrawn and removed as a whole |

Wiki and knowledge base

| Module | Models | State and actions |
|---|---|---|
| `WikiStore` | wiki and shadow-document rows, points, transactions and their locks, the deadlock detector, the purges | `page`, `revision`, `shadow`, `points`, `req[r]` (a request with its open transaction) |
| `WikiService` | `distill` with `_append_revision`, `_create_page`, `_apply_vectors`; `delete_page` | one action per statement that another transaction can come before |
| `KnowledgeBase` | `KnowledgeBaseService.soft_delete` | one action per `UPDATE`: it finds its rows, waits, reads again |
| `Wiki` | composes them with crashes and the clean-up | `Init`, `Next`, `Spec`, `FairSpec`, the properties |

Agent

| Module | Models | State and actions |
|---|---|---|
| `ToolGate` | `PolicyEngine.evaluate`, `record_audit`, `execute_with_policy`, guarded handlers | operators: the set of outcomes `[rows, runs]` of a call |
| `AgentTurn` | `AgentRunner.run`: set-up, persistence, trace, errors, cancellation | all variables of a turn |
| `AgentLoop`, `AgentGraph` | the hand-written loop; the LangGraph nodes with suspend and resume | one action per model round, per tool call, per node |
| `AnswerStream` | what a stream promises its client, shared with `/v1/query` | `frame`, `stored` |
| `Agent` | composes both loops | `Next`, the properties, the refinement of `AnswerStream` |

Query

| Module | Models | State and actions |
|---|---|---|
| `QueryState` | the state of the endpoint | permits, streams, traces, rows, background tasks, the server |
| `QueryService` | `ask`: one action per stage between awaits, `_persist`, the error handlers, `_auto_distill` | `pc[t]`, `trace[t]` |
| `QueryRouter` | the endpoint: semaphore, overload, disconnect, release; `aclose` and the lifespan | `free`, `slot`, `server` |
| `Query` | composes them | `Next`, the properties, the refinement of `AnswerStream` |

Content and retrieval

| Module | Models | State and actions |
|---|---|---|
| `Markdown` | the line scanner of `MarkdownParser`, front matter, the heading stack | operators over lines, a line being its kind |
| `Chunking` | `SemanticChunker`: packing, splitting at breaks, parents; `_normalize_table` | each loop that carries something from turn to turn is a recursive function over its turns, with one operator for a turn: `PackSentence`, `GroupSentence`, `AddUnit`, `AddBlock` |
| `Content` | a document from its lines to its chunks | one action per block, then the two passes |
| `Ordering` | sorting, filtering and first occurrences of lists | `InOrder`, `Picked`, `FirstOf` |
| `ContextBuilder` | `ContextBuilder.build` with and without parents: dedup, cap of each product's version, collapse, budget; what `_format` adds | operators over ranked chunks |
| `Retrieval` | `_rag_pipeline`: filters, recall, `rrf_fuse`, `load_rows`, `_rerank_batches` (`Offer` a candidate, `Collect` a sub-query), `rank` | one action per step that documents can leave service in front of |

`MCIngestion`, `MCWiki`, `MCAgent`, `MCQuery`, `MCContent` and `MCRetrieval` are the
instances for TLC. `IngestionProof`, `IndexProof`, `WikiProof`, `AgentProof`, `QueryProof`,
`ContentProof` and `RetrievalProof` hold the [proofs](#proofs), `OrderingProof` the facts about lists and
loops that the last two share.

Three refinements are checked. `Ingestion` implements `DocumentIndex` under `life` = the
row's life cycle and `view[d]` = `Served(d)`, the chunks that pass the filters of
`chunks.get_many(require_ready=True)` and of the keyword SQL and have a vector. `Agent`
and `Query` both implement `AnswerStream`; the agent's tool calls count as steps.

## How the model corresponds to the code

### Ingestion

- **A transaction is cut where others can interfere.** PostgreSQL runs at READ
  COMMITTED: statements of one transaction see what others commit in between.
  `Load` (reads of the first transaction of `process`, pipeline.py 116-147) and
  `Mark` (its writes, 172-176) are therefore two actions, so are `ListStale` and
  `WriteStale`, `ListPurgeable` and `DropDocuments`, `DeleteRead` and
  `DeleteCommit`, `ReindexCheck` and `ReindexInsert`. `claim_pending` is one
  statement and one action (`ClaimDue`).
- **Row locks.** The second transaction of `process` updates the document row
  before anything else and holds its lock until the CHUNK commit. `Locked(d)`
  makes every other update of that row wait. Writes that would wait only for
  chunk rows need no guard: the outcome is the same set of rows.
- **The CHUNK stage** is two actions because the deletion of the old vectors in
  Qdrant (`Build`, pipeline.py:245) takes effect at once while the rows change at
  the commit (`Commit`, 333). If the transaction fails in between, old rows are
  left without vectors.
- **A `Chunk` is one generation**: the set of child chunks one run writes. They
  are inserted in one transaction and upserted in one request, so no reachable
  state separates them; parent chunks carry no vector and are left out.
- **Foreign keys.** `chunks.section_id REFERENCES sections(id)` has no ON DELETE
  (scripts/init_db.sql:114), so deleting the sections of a document that still has
  chunk rows under a section is refused (`SectionRefused`). `Sectioned` is the set
  of documents with at least one heading. Inserting for a purged document is
  refused too. Both end in a terminal error code.
- **Errors.** `KindsOf(stage)` is the composition of `_STAGE_ERROR_CODES` and
  `_TERMINAL_ERROR_CODES`: PARSE to CHUNK are terminal (METADATA_CONFLICT gives a
  CONFLICT document), DB, EMBEDDING and VECTOR_INDEX are transient. A failure
  before the attempt is counted is reported with attempt 1, as in the code. An
  exception of `_handle_failure` itself is swallowed by `process_job` (`HandleLost`).
- **Fingerprint.** Content is fixed per document, so the fingerprint varies with the
  code version of the worker only; `Restart` may bring a later release.
- **Queue.** A job id is pushed once, after its insert, so the Redis list is a set
  of ids; the order of ids is left open. A failing call sets the client's `_broken`
  flag for good; the popped id may be lost, the pushed one may have arrived.
- **Time.** `started` is `fresh` or `stale` relative to the cut-off of
  `reclaim_stale_jobs`, `due` says that `next_attempt_at` has passed. With `Timely`
  a job turns stale only when no worker runs it any more
  (`ingestion_stale_job_timeout_seconds` = 300 outlasts a run) and a back-off
  (30 s) only ends once no reclaim pass still holds that job's row. Without it
  nothing keeps a slow worker and its successor apart.
- Batch limits and paging (`cleanup_batch_size`, `iter_id_batches`) are left out: every
  pass handles all rows. A scan page by page finds every row that a scan at one
  moment finds and that is still there, since ids are listed from Qdrant first.

### Wiki and knowledge base

- **A request holds one short transaction at a time**; the LLM and Qdrant are called while none
  is open. `req[r]` has the rows the open transaction has written (`chunks`, `docs`,
  `pages`), which stay locked until it ends, and an uncommitted revision (`Inserting`),
  visible to the unique constraint only. An action ends before every statement that may
  wait (`Blockers`) and before every read others can overtake. What follows the last wait
  is one action with the commit.
- **Locks and the detector.** `append` locks page, then shadow; `delete_page` shadow, then
  page; `soft_delete` chunks, documents, pages. Circles are possible, so PostgreSQL's
  detector is an action (`DeadlockAbort`); the aborted request answers 500.
- **An `UPDATE ... WHERE deleted_at IS NULL`** finds its rows in its snapshot (`seen`), waits,
  and re-reads each (`seen \cap LiveChunks`): a shadow inserted meanwhile is missed.
- **Content** of a revision is the set of answers merged into it; the merge adds one and keeps
  what it was shown. Nothing else about the text matters to a property.
- **Vectors after the commit** (`_apply_vectors`): drop, then upsert; a failed drop skips the upsert.
  The request is acknowledged either way, since failures are only logged.
- A shadow document and its one chunk are one element with two row states.
- Page deletes and appends may leave a shadow of a deleted page alive: `CommitAppend` inserts it
  after `delete_page` has listed the shadows. The page is not live then, so
  `PublishedIsIndexed` says nothing; the knowledge-base delete does take such a shadow.

### Agent

- **Messages** are kept as the calls the model asked for and those that have their tool
  message. A `Response` is any sequence of up to `MaxCalls` names, unknown ones included.
- **`Modes`**: `loop` is `_loop`; `reject` is the graph as the runner builds it (no
  interrupts, pending calls refused); `ask` is `build_agent_graph` in interrupt mode; `bare` is interrupt
  mode without `policy_ctx`, as the graph's tests build it, where calls bypass the gate.
- **The gate** is a function from a call to a set of outcomes: the audit rows written (a failing
  store gives none) and whether the handler runs. Guarded handlers pass it a second time
  (`Handler`), so they may be audited twice.
- **Suspend and resume**: LangGraph re-runs the approve node from its start; the model re-enters
  `approve` with `decision` set. One decision answers every pending call of the round.
- **Cancellation** is not an `Exception`: `Cut` stores and sends nothing.
- What the model shows and no property states: calls refused by the graph in `reject` mode never reach
  the gate, so they leave no audit row (`gate.py:63` audits denials); a high-risk tool
  approved in `ask` mode is still denied by the gate, which knows nothing of the approval;
  the graph executes tools in at most `MaxIterations - 1` rounds, reports the calls of the last
  round without executing them, and may close with an empty answer.

### Query

- **An action per stage**, each the code between two awaits: `Setup`, `Understand`, `Decompose`,
  `Retrieve`, `CheckEvidence`, `Token`/`Generated`, `Persist`, `Close`; any may raise. The trace
  is kept as grounded, selected chunks, complete answer, error.
- **`Persist`** commits the message and the trace together and then creates the background
  task without an await between.
- **The permit** is returned in the `finally` of `event_stream`: at the end (`Release`) or at once
  when the client leaves (`Disconnect`), while the cancelled `ask` still unwinds
  (`unwinding`, or `storing` when its commit was under way). So a limit bounds streams, not asks.
- **Shutdown**: the server waits for its connections, `aclose` waits for or cancels the tasks, then
  the engine is disposed (`Stop`, `Dispose`).
- A failed `_persist` followed by a successful trace of the failure leaves a row with the complete
  answer and an error but no message; it is never distilled automatically.

### Content and retrieval

- **A line is its kind**, what the regular expressions tell apart, and a text its sequence of
  sentences with their token counts. The order of tests in `_parse_blocks` is the CASE of `BlockAt`.
- **The semantic splitter** decides on a break per pair of neighbours: `low` is any set of sentences unlike the one
  before them. A group over the budget is packed by tokens, and the embedding may be down for any of the units
  (`down`), in which case, as without a splitter, all of the unit is packed.
- **What is searched and what is shown** differ for a table: `content` is what a context shows (`raw_content`, the
  table as written), `NormalizeTable` what is embedded and ranked. Rows of dashes and cells beyond the header are
  shown but never searched, empty values are dropped (a value under an empty header is kept), and a table whose
  further rows have no value under the header is searched by an empty text.
- **`context_expand_to_parent`** off is modelled on both sides: `ChunkAlone` and `expand` in the builder. The setting
  may have changed between the two.
- **Known limits of the parent look-up**: pieces of a unit over the parent budget share its lines, so
  `_find_container` picks the first of them, and list pieces of an oversized list have no
  parent of their type. `ParentHoldsChild` leaves units over the parent budget out.
- **Search** returns any list the store's filter admits (`VectorHits`: top_k of the matching points,
  READY or not; `KeywordHits`: READY ones). `rrf_fuse` is computed with integer weights: a
  reciprocal rank counts in units of 1 / `Scale`, a common multiple of the denominators.
- **A filter** may name a product of its own for each sub-query; the user's version is a hard bound. Two products may
  have versions of the same name, so caps and groups go by `Release`, the pair of both.
- **`_rerank_batches`** is its loop: `owner` is the batch that has a chunk, `seen` its score there, and a better score
  moves the chunk out of the earlier batch while the present one is built.
- **`load_rows`** is two statements: the chunks (READY only), then the parents (not deleted).
- **The reranker** may answer anything; `Accepted` is the contract check, the fallback is the fused order.
- **The budget** is spent by the texts (`Spent`); the headings and labels `_format` puts between them come on top
  (`FormatTokens`). A parent that does not fit falls back to its child, and the first chunk that does not fit
  either way ends the selection.
- The version cap counts children before they collapse into a parent, and the context may select nothing
  although the evidence is grounded. Both are as in the code.

## Runs

| Run | Instance | Shows |
|---|---|---|
| `poll` (IngestPoll.cfg) | 2 workers, 2 jobs, Redis off, one crash, upsert fails, upload + reindex against delete; 272 825 states | `ExclusiveJob`, `Owned` (its inductive form), `AttemptsBounded`, `ReadyIsIndexed`, `SweepSparesRows`, `FinishedJobsStay`, `ImplementsIndex` |
| `queue` (IngestQueue.cfg) | 1 worker, 1 job, Redis on, every fault, one crash, two code versions; 442 085 states | `TypeOK`, `PointsHaveRows`, `RunningIsReclaimable`, `ReadyIsIndexed` |
| `live` (IngestLive.cfg) | 1 worker, 2 jobs, fair, one crash; failures of the first transaction (load, mark, skip), of a terminal stage (commit), of transient ones (upsert, finish), of the handling of a failure and of vector deletes; 387 769 states | `JobsEnd`, `DeletedIsPurged` |
| `wiki` (Wiki.cfg) | 2 distillations, one request that deletes the page or the knowledge base, 2 pages, 3 shadows, one crash, failing vector calls, the clean-up; 85 145 states | `WikiTypeOK`, `HistoryDense`, `PublishedIsIndexed`, `AckedIsRecorded`, `LiveVectorsKept`, `RequestsEnd` |
| `agent` (Agent.cfg) | 4 set-ups, 3 tools and an unknown name, 3 rounds, 2 calls a round, 3 in all; admin or not; 140 611 states | `TypeOK`, `NoUnsanctionedRun`, `HighRiskAudited`, `RunAtMostOnce`, `RepliesComplete`, `HonoursContract`, `TurnEnds` |
| `query` (Query.cfg) | 2 asks for 1 permit, up to 2 chunks, every stage failing, disconnects, shutdown; 35 387 states | `TypeOK`, `PermitsKept`, `TraceAgrees`, `DistilsGrounded`, `NoTaskAfterDispose`, `HonoursContract`, `PermitsReturn` |
| `content` (Content.cfg) | every document of up to 4 lines of 17 kinds, every set of breaks and outages of the splitter, with and without parents; 598 833 states | `BlocksCited`, `ChunksComplete`, `TablesSearched`, `ParentHoldsChild` |
| `retrieval` (Retrieval.cfg) | 2 sub-queries, 3 chunks of 2 documents and 2 products with a version of the same name, 4 scopes, every list of hits, every answer of the reranker, with and without parents; 892 866 states | `CandidatesOnce`, `RerankConserves`, `ContextSound` |
| `retry_sectioned` | a document with a heading, 3 attempts, failing upsert | violation: `TransientIsRetried` |
| `duplicate_pickup` | 2 workers, Redis on, no fault at all | violation: `ReadyIsIndexed` |
| `delete_during_run` | 1 worker, a delete during a run, no fault at all | violation: `DeletedGoesAway` |
| `lost_increment` | 2 distillations of one page, no fault at all | violation: `NoLostIncrement` |

What the passing runs assume, because the code breaks the property otherwise (see
[Findings](#findings)): documents without sections; no two owners of one job
(either one worker or no fast lane); one editing client, since two simultaneous
`reindex` requests both pass `find_active`. `PointsHaveRows` is checked with one
job: a second run of the same document may upsert after a purge. `JobsEnd` leaves out
executions in which the first transaction of a job fails again and again.

`CHECK_DEADLOCK FALSE` stands in the runs whose system comes to rest: a turn, a query, a
document or a set of requests that is over takes no further step.

## Bounds

Ingestion

- 1 document: documents share no row and no vector; they meet only in the batches of
  the worker, and the runs with two jobs already have two batches in progress.
- 2 jobs: the upload's and one reindex, enough for a rebuild over existing rows, a
  skip, and a second owner. 3 generations: the old one, the one being written, one that is
  only a vector any more; with two, `Commit` could find no fresh id.
- 2 attempts: one that may be retried, one that may not. 1 crash: the second would meet
  the same positions. `Concurrency` 1 with two workers gives the same interleavings of
  runs as 2 with one worker, plus those of the loops; `queue` uses 2, so that a batch
  can end with a failing LPOP.
- `MaxVersion` 2 in `queue`: unchanged and changed fingerprint.

Wiki: two distillations are what a lost update, a duplicate version and a circle of locks need;
the request in `PageDelete` and in `KbDelete` is either; three shadows are the initial one and one per
append. Initially nothing or one page is published. `MaxCrashes` 1.

Agent: a second round is needed for an approval to be carried over, a third for a forced finish after
it; two calls a round for a mixed response (one pending, one not, or unknown). The three tools
are a built-in one, the guarded high-risk business tool, and one that needs approval without being
guarded, as in the tests of the graph. Both policy flags at their defaults; the theorems cover the others.

Query: two asks for one permit give overload and a permit reused while the first owner unwinds; two
selected chunks against a threshold of one.

Content: four lines hold front matter with a body line, a fence with its content and close, two headings and
what is under them, a table of four rows, or three units around a budget border. The rows of a table are two cells, a
line of dashes, an empty first cell with one cell too many, and an empty first cell with nothing between its bars. `MaxTokens` 2 and `ParentMaxTokens` 5 put the
borders between one- and two-sentence lines, an oversized sentence (4) and a parent of several units.

Retrieval: three chunks (two of one parent, one of another document and product, all of a version of the same name)
with two hits a list, candidate limit 3, top_n 2, cap 1, budget 4: each limit is met and exceeded. Each scope a user
or a sub-query names is one of `Scopes`: nothing, a product and its version, the other product, a version nothing has.

## Fairness

`FairSpec` assumes weak fairness of each worker's loop (`LoopStep`, which holds the
restart by the supervisor and every step of the `while True`), of each pipeline
coroutine (the event loop resumes it once its await is done) and of the clock. It assumes
nothing of clients, faults or crashes; crashes are bounded by `MaxCrashes`.
Failures after the first transaction need no fairness, their attempts being counted and bounded.
Those of the first transaction are not counted (finding 5), so `JobsEnd` claims nothing of an execution in
which they recur for ever; a finite number of them it covers. `live` leaves the fault "maintain" out: a
maintenance pass that failed every time would never reclaim. It also leaves out "build" and "embed", whose
failures are handled as those of "commit" and "upsert" are, to keep the run short; `queue` has them all.

Wiki: weak fairness of each request's own steps, the detector's abort included: a handler is resumed
when its statement returns, and PostgreSQL grants a lock or breaks the circle. Nothing obliges the
clean-up to run or a request to start.

Agent: weak fairness of `TurnStep`; none of `Resume` (nobody has to answer an approval), hence
`TurnEnds` admits a suspended turn.

Query: weak fairness of an admitted ask's steps and of `Dispose`; none of admission, `Disconnect`
or `Stop`.

## Proofs

Every theorem holds for every value of the constants that the named assumptions of
its modules allow: any number of documents, jobs, workers and clients (`StoreAssumption`), of
distillations, deletes, pages and crashes (`WikiAssumption`), of tools, rounds, calls and every
policy (`ToolAssumption`, `TurnAssumption`), of asks and permits (`QueryAssumption`), of lines and token budgets
(`MarkdownAssumption`, `ChunkAssumption`), of chunks, versions, sub-queries and limits (`RetrievalAssumption`,
`ContextAssumption`). Every safety invariant and every action property a passing run checks is stated by a theorem, `TablesSearched` excepted.

`IngestionProof`
- `TypeCorrect`: `TypeOK` with `Committed` (a run at EMBEDDING or later knows its
  chunks), without which `Upsert` could put NULL into Qdrant.
- `ReclaimableAlways`: `RunningIsReclaimable`, with every fault and with Redis. It is inductive
  with `TypeOK`: each action that writes RUNNING goes through `Coalesce` or the claim.
- `SweepSafe`: `SweepSparesRows`, inductive because `Fresh` ids are in no worker's list
  (random UUIDs) and rows only grow by fresh ids.

The ownership theorems of `IngestionProof` assume `Timely` and no fast lane; with either dropped TLC
finds counterexamples.
- `JobsAreExclusive`: `ExclusiveJob` is not inductive. `Owned` adds that a run owns its job,
  RUNNING and not stale, until it ends (so neither the claim nor the reclaim of another
  worker can take it), and that a job in a reclaim pass's list is nobody's, with
  the attempts the pass has seen (so the pass's late write cannot hit a new owner).
- `FinishedJobsAreFinal`: the action property `FinishedJobsStay`, from `Owned`.
- `AttemptsNeverExceed`: `AttemptsBounded` with `AttemptLeft`, on top of `Owned`: a waiting
  job has an attempt left, a run never carries a count lower than its row's.
- `RunsOwnTheirJobs`, `WaitingJobsHaveAttempts`: the two inductive invariants themselves.

`IndexProof` adds the hypothesis `OneEditor` (at most one client reindexes), on top of `Owned`.
- `ReadyAlwaysIndexed`: `ReadyIsIndexed` with the inductive invariant `Indexed`. Its parts: `References` (foreign
  keys; a document has at most one active job, which is what `find_active` is for); `RequestFits`
  and `PurgeFits`, what a request or a maintenance pass has read and still acts on (the ids a delete has
  collected belong to a document that is no longer live when the vectors go); `RebuildFits`, where a run
  stands between withdrawing the document and finishing it; `ReadyFits` for the documents nobody
  rebuilds. `JobKept` and `DocKept` are the frame: what any step of somebody else leaves a run.
- `IndexHonoured`: the refinement of `DocumentIndex` from the same invariant, one step of the
  contract (or a stutter) per action: the upload creates, `Mark` withdraws, `Finish` publishes, the delete's
  commit removes.
- `VectorsAlwaysHaveRows`: `PointsHaveRows` with `Ordered`: the rows of a run are committed before its
  vectors are written, the vectors of a doomed row are gone before the row is. The purge breaks this when it
  removes the rows of a run that then upserts, so the theorem also assumes `NoDeletes`, or `OneWorker`: one
  process awaits its batch before it maintains (`BatchesAwaited`), however many jobs the batch has.

  None of these hypotheses is for convenience: TLC finds `ReadyIsIndexed` violated with the fast lane
  (`duplicate_pickup`) and with two reindexing clients (in 48 steps: both find no active job, both insert), and
  `PointsHaveRows` violated with two workers and a delete.

`WikiProof`: one inductive invariant, `Inductive`.
- `HistoryAlwaysDense`: `HistoryDense` is not inductive, as a commit writes a number read three
  statements earlier. `RequestsFit` says what each position relies on (an append past its INSERT
  holds exactly `count + 1`), `OneInserting` that a page has at most one uncommitted revision: `Blockers` lets a
  second INSERT of the same number wait, and `RequestsFit` makes all numbers past it the same.
- `AckedAlwaysRecorded`: `AnswerFits` carries the answer from the merge to the committed revision and from
  there to the reply; revisions of a stored page only grow (`RowsGrow`).
- `VectorsOnlyOfRetired`: `VectorsFit` says that what a request is about to drop is dead already, and dead
  chunks stay dead. The whole-knowledge-base drop follows its commit.
- `PublishedAlwaysIndexed`: `PublishedIsIndexed` is inductive with `Publication`: shadows have pages, versions of a
  page differ, and `IndexFits` says of each position which shadows a request has seen or holds: an append
  retires every live shadow of its page, under the page's lock; a delete that has marked chunks or
  documents keeps them locked until the page goes in the same transaction. It is what makes
  `CommitAppend` leave exactly one.
- `FitsKept` is the frame lemma: whatever a step does within `RowsGrow`, the other requests keep
  what they rely on.

`AgentProof`
- `GatedOutcome` sums up the gate: a call that runs was allowed without approval, and audited if high-risk.
- `OnlySanctionedRun`: `Approvals` says that in the act node every pending call is held or sanctioned, and that a
  resume value is there only for the approve node that asked for it; the gate's lemma covers the rest.
- `EachRunsOnce` and `RepliesAlwaysComplete` need `Progress`, `Replies` and `Past`: the calls that still wait for their
  tool message are those from `next` on, and what has run belongs to an earlier round or an earlier call.
- `HighRiskAlwaysAudited`: from the gate's lemma, the audit trail only growing.

`QueryProof`
- `PermitsAlwaysKept` with `Slots` (who holds a permit is decided by the position) over the cardinality facts of
  finite sets; `TracesAgree` with `Pending` (an ask without an outcome has no row, no answer and no error);
  `DistillationsGrounded`; `TasksEndFirst`, which needs that a closing server has no stream.

`OrderingProof`: what the two components below rest on. The code's loops are recursive functions of
the turns made, so an invariant of a loop is a set of turns: `LoopRuns` gives such a function to every loop body,
`TurnInduction` the induction over its turns (both from the library's well-founded induction, with sets
in place of predicates). `InOrderLists`: what is sorted holds every element once, in order.
`PickedLists`, `FirstOfLists`: what filtering and deduplication keep. `FlattenConcat`, `FlattenHolds`: joined lists.

`ContentProof`, for documents of any length and any budgets
- `LinesAlwaysCited`: `BlocksCited` with `ParserInv`: `Scanned` (blocks lie in order before the line the scanner is at
  and cover what it has passed) and `Filed` (the heading stack holds exactly the open headings, ranked and in
  order, and each path those that were open at its block). `BlockFits` is the lemma about one block, `PushOpens` the one
  about the stack.
- `NothingLost`, `ParentsHoldChildren`: `ChunksComplete` and `ParentHoldsChild` with `ContentInv`, which adds
  that every block carries the text of its lines and that the nodes are what the passes make of the blocks. Each
  loop has its own invariant: `PackTurn` and `GroupTurn` (what is done and what is under way are together the
  sentences read), `EmitTurn` (and the chunk under way comes from consecutive blocks of one path), `FlatTurn` (and
  the pending blocks are the last ones). `SplitCuts` puts the first two together: whatever sentences are unlike
  and whether the embedding is down or not, a unit is cut into pieces that say it, none over the budget unless it is a
  single sentence. They give `Covers`: a pass says what its blocks say, and every chunk
  `Stems` from consecutive blocks of its path, whole, or from one block over the budget; code and tables are `Whole`.
  Child and parent stem from blocks in this way in both passes, so a parent whose lines hold the child's was made
  from blocks that include the child's. Nothing about token counts is used: the argument holds for any tokenizer.

`RetrievalProof`: `Reached`, one inductive invariant
- `CandidatesSentOnce`: `CandidatesOnce`. `RecallSound` says that each sub-query has the candidates its filter
  admits, each once: by the lemmas about `rrf_fuse`, for every pair of hit lists. The loop over them has an
  invariant for its outer turns (`Stored`) and its inner ones (`Amid`): a batch holds what it owns and nothing else
  (`Has`), with the score `seen` has of it, and every candidate passed has an owner with a score at least as good
  (`Known`). `Offer` keeps them when it moves a chunk, and `Collect` when the batch is stored.
- `RerankingConserves`: `RerankConserves`. `RankSound`: of each batch the outcome has as many servable chunks as `TopN` admits,
  each once, whatever the reranker answers: `Accepted` asks for that many distinct results, `Unique` drops the
  repeated ones, and the fallback is the fused order.
- `ContextIsSound`: `ContextSound`. Above the batches' outcomes, each step of the builder has a lemma: what it
  takes it takes from what it was given, once, within the cap of each product's version and, in the sum of its texts,
  within the budget, with and without parents; `RowsSound` carries
  the version a query asked for from the filter of the search to the context.

`AgentProof`, `QueryProof`
- `StreamHonoured`: the refinement of `AnswerStream`, every initial state and every step of the detailed
  specification mapped to the contract or a stutter. `Framed` says which frames a position admits and
  what is stored there.

Only model-checked:
- `TablesSearched`: what `_normalize_table` makes of tables of up to four rows;
- liveness (`JobsEnd`, `DeletedIsPurged`, `RequestsEnd`, `TurnEnds`, `PermitsReturn`): the prover does neither fairness nor ENABLED;
- `ReadyIsIndexed` and `PointsHaveRows` with the fast lane on, which `queue` checks for one worker
  and one job: the theorems about them need `Owned`, which the fast lane breaks for two.

## Findings

1. **A retry of a document with headings fails for good** (`retry_sectioned`). Sections are deleted
   before chunks (pipeline.py:223, 241), the foreign key refuses, and the refusal is
   classified terminal; so is every reindex that actually rebuilds such a document.
   The worker's docstring promises `ingestion_max_attempts` attempts.
2. **Duplicate pick-up is not harmless** (`duplicate_pickup`). `app/services/queue.py` relies on
   the fingerprint skip, which only helps after the first run has finished; meanwhile
   both runs rebuild the document and one deletes the other's vectors under READY.
   One worker with `ingestion_worker_concurrency` > 1 is enough.
3. **A delete during a run leaks** (`delete_during_run`): the run inserts live chunk rows for
   the deleted document, which no purge ever lists.
4. **An increment of the wiki is lost** (`lost_increment`). `_append_revision` compares the latest version with
   the one it merged into (wiki_service.py:259) and reads it again for the next number (270), without a lock. A
   revision committed between the two is neither a conflict nor in the content that follows it. The
   docstring (224) promises a 409. `HistoryDense` holds all the same, so the history looks complete.

Three more disagreements, each with a configuration that finds it in seconds and is kept beside the runs (the property
fails there; the passing runs state what does hold):

5. **Failures of the first transaction are retried for ever** (`EveryJobEnds`,
   `tlc -config UncountedRetries.cfg MCIngestion`). `process` writes the attempt in its first transaction (pipeline.py:172); a failure in it rolls the count back, `_handle_failure` sees attempt 1 each time
   and requeues (401, 418). The worker's docstring promises at most `ingestion_max_attempts` attempts.
6. **An empty first cell shifts a row** (`ValuesUnderTheirColumn`,
   `tlc -config ShiftedCells.cfg MCContent`). `_normalize_table` strips every bar at the ends of a row (semantic.py:230), so the values of `|| 5 | 7 |` are searched under the labels of the columns before theirs.
   The context still shows the table as written.
7. **A context can exceed its token budget** (`ContextWithinBudget`,
   `tlc -config BudgetOverrun.cfg MCRetrieval`). `build` counts the texts (builder.py:50) and `_format` adds heading paths and version labels; the docstring (builder.py:11) and the query specification (02, 401 and 504)
   put the whole context under the budget.

## What is not modelled

- **Redis event queue**: a length check and a push; nothing consumes the list. Concurrent producers can overshoot the cap, as check and push are two commands.
- **Prompt loader, model providers, retry**: single statements or calls of external services, which
  the models let succeed, fail or answer out of contract.
- **HTML and PDF parsing, metadata resolution**: calls of libraries; a comparison of fields.
- **Trace and audit retention**, listings, counts and cursors: bulk deletes by age and reads.
- **Creation of knowledge bases, an upload into one being deleted**: the upload checks the knowledge base without a
  lock, so a live document may stay in a deleted one; plain from the code, and no document says otherwise.
- **Configuration, logging, metrics, evaluation, web front end**: read once, never read back, offline, or
  one browser's state.

- **The agent's endpoint** (`app/api/routers/agent.py`): its semaphore, overload answer and heartbeats, written like those
  of `/v1/query`; that it cancels the turn when the client leaves is modelled (`Cut`).
- **LangGraph's recursion limit** (25 steps by default): a turn of the default 8 rounds takes at most 23, 8 in `reason`, 7 each in
  `approve` and `act`, and `finalize`. With more rounds the library may end the turn first, with an exception.
- **A commit that takes effect although its reply is lost**: `Query`, `Agent` and `Wiki` take the outcome of every commit to be
  known, so `TraceAgrees` and both refinements of `AnswerStream` hold under that assumption only. Ambiguous replies
  are modelled of Redis and of the upsert into Qdrant.

Simplifications worth knowing: `Wiki` and `Ingestion` model disjoint parts of the documents table (wiki
shadows, uploaded documents) and are not composed; the knowledge-base delete is modelled over the wiki's rows. The
query model abstracts retrieval to its outcomes and `Retrieval` the query to its steps. Sub-queries are
taken in the order they were declared.

## Plan

1. A run with two editing clients, so that the double `reindex` is shown as the others are.
2. The knowledge-base delete over the rows of ingestion, with the pipeline's document lock.
3. Find what the fast lane leaves of `Owned` for one worker and one job, and prove what `queue` checks from that.
