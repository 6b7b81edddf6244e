----------------------------- MODULE QueryState -----------------------------
(***************************************************************************)
(* The state behind /v1/query: the streams and their slots, the trace each *)
(* ask builds, the rows it leaves, and the background distillations.       *)
(* Texts, chunks and identifiers are left out: a trace is kept as whether  *)
(* its evidence is grounded, how many chunks were selected and whether the *)
(* answer is complete.                                                     *)
(***************************************************************************)
EXTENDS Naturals, FiniteSets, Sequences

CONSTANTS
    Ask,          \* the queries sent to this process
    Limit,        \* max(1, query_max_concurrency)
    MaxPicked,    \* bound: chunks a retrieval may select
    MinEvidence,  \* wiki_auto_min_evidence
    WikiEnabled   \* wiki_enabled, with a wiki service injected

ASSUME QueryAssumption ==
    /\ Limit \in Nat \ {0}
    /\ MaxPicked \in Nat /\ MinEvidence \in Nat
    /\ WikiEnabled \in BOOLEAN

VARIABLES
    free,    \* permits left in query_semaphore
    slot,    \* streams that hold one
    pc,      \* where each ask stands
    trace,   \* the QueryTraceBuilder of each ask
    frame,   \* the last frame each stream sent
    stored,  \* ASSISTANT message committed
    rows,    \* query_traces rows of each answer
    tasks,   \* answers with a background distillation (_bg_tasks)
    server   \* up, closing (aclose was called), down (engine disposed)

vars == <<free, slot, pc, trace, frame, stored, rows, tasks, server>>
db == <<stored, rows>>
router == <<free, slot, server>>

\* What an ask has found so far; final is the complete answer, error the stage of a failure.
Trace == [grounded : BOOLEAN, picked : 0..MaxPicked, final : BOOLEAN, error : BOOLEAN]
NoTrace == [grounded |-> FALSE, picked |-> 0, final |-> FALSE, error |-> FALSE]

Frames == {"none", "meta", "step", "delta", "done", "error", "cut"}
PC == {"new", "setup", "understand", "plan", "retrieve", "evidence", "generate", "persist",
       "close", "failing", "ended", "storing", "unwinding", "gone"}

TypeOK ==
    /\ free \in 0..Limit
    /\ slot \subseteq Ask
    /\ pc \in [Ask -> PC]
    /\ trace \in [Ask -> Trace]
    /\ frame \in [Ask -> Frames]
    /\ stored \in [Ask -> BOOLEAN]
    /\ rows \in [Ask -> Seq(Trace)]
    /\ tasks \subseteq Ask
    /\ server \in {"up", "closing", "down"}

Init ==
    /\ free = Limit /\ slot = {}
    /\ pc = [t \in Ask |-> "new"]
    /\ trace = [t \in Ask |-> NoTrace]
    /\ frame = [t \in Ask |-> "none"]
    /\ stored = [t \in Ask |-> FALSE]
    /\ rows = [t \in Ask |-> <<>>]
    /\ tasks = {}
    /\ server = "up"

At(t, p) == pc[t] = p
Goto(t, p) == pc' = [pc EXCEPT ![t] = p]
Send(t, f) == frame' = [frame EXCEPT ![t] = f]
Quiet == UNCHANGED frame
=============================================================================
