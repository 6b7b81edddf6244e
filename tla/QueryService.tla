---------------------------- MODULE QueryService ----------------------------
(***************************************************************************)
(* QueryService.ask: set up, understand, retrieve, check, build, generate, *)
(* persist.  Each action is the code between two awaits whose order with   *)
(* other asks, with a disconnect or with the shutdown matters; an ask sends*)
(* its frame in the action that yields it.                                 *)
(***************************************************************************)
EXTENDS QueryState

Raise(t) == Goto(t, "failing") /\ UNCHANGED <<trace, frame>>

\* _conversation_setup: the USER message is committed; an unknown conversation, or one of another
\* knowledge base, is refused.
Setup(t) ==
    /\ At(t, "setup")
    /\ \/ Goto(t, "understand") /\ UNCHANGED <<trace, frame>>
       \/ Raise(t)

\* One structured call for understanding and rewriting: a missing prompt raises, an invalid or failed
\* answer falls back to exact question answering.  Then the plan, and the metadata.
Understand(t) ==
    /\ At(t, "understand")
    /\ \/ /\ Goto(t, "plan") \/ Goto(t, "generate")
          /\ Send(t, "meta") /\ UNCHANGED trace
       \/ Raise(t)

\* Decomposition (no sub-query is worse than the question itself) and the filters of each sub-query.
Decompose(t) ==
    /\ At(t, "plan")
    /\ \/ Goto(t, "retrieve") /\ UNCHANGED <<trace, frame>>
       \/ Raise(t)

\* The sub-queries are retrieved together: one that both stores refused fails the whole ask, a degraded
\* one does not.  The reranker only falls back; loading the rows may fail.
Retrieve(t) ==
    /\ At(t, "retrieve")
    /\ \/ Goto(t, "evidence") /\ UNCHANGED <<trace, frame>>
       \/ Raise(t)

\* EvidenceChecker.check: nothing ranked, and an invalid verdict, are insufficient evidence.  After the
\* status is sent the context takes what fits its budget, which may be none of the ranked.
Verdicts(ranked) == IF ranked THEN BOOLEAN ELSE {FALSE}
Selections(ranked) == IF ranked THEN 0..MaxPicked ELSE {0}
CheckEvidence(t) ==
    /\ At(t, "evidence")
    /\ \/ \E ranked \in BOOLEAN : \E g \in Verdicts(ranked), n \in Selections(ranked) :
              /\ trace' = [trace EXCEPT ![t].grounded = g, ![t].picked = n]
              /\ Goto(t, "generate") /\ Send(t, "step")
       \/ Raise(t)

\* _stream_answer and _stream_general: any number of tokens, and then the end or a failure.
Token(t) ==
    /\ At(t, "generate")
    /\ frame[t] # "delta" /\ Send(t, "delta")
    /\ UNCHANGED <<pc, trace>>
Generated(t) ==
    /\ At(t, "generate")
    /\ Goto(t, "persist")
    /\ trace' = [trace EXCEPT ![t].final = TRUE]
    /\ Quiet
Broken(t) == At(t, "generate") /\ Raise(t)

Stored(t) == stored' = [stored EXCEPT ![t] = TRUE] /\ rows' = [rows EXCEPT ![t] = Append(@, trace[t])]

\* _maybe_auto_distill: only a grounded answer with enough evidence.
WorthDistilling(t) ==
    /\ WikiEnabled /\ trace[t].grounded
    /\ MinEvidence > 0 => trace[t].picked >= MinEvidence

\* Mutant: the distillation is started before the commit.
PersistLate(t) ==
    /\ At(t, "persist")
    /\ tasks' = IF WorthDistilling(t) THEN tasks \cup {t} ELSE tasks
    /\ \/ Goto(t, "close") /\ Stored(t)
       \/ Goto(t, "failing") /\ UNCHANGED db
    /\ UNCHANGED <<trace, frame>>
\* Mutant: the message and the trace are committed one after the other.
PersistTwice(t) ==
    /\ At(t, "persist")
    /\ \/ /\ Goto(t, "close") /\ Stored(t)
          /\ tasks' = IF WorthDistilling(t) THEN tasks \cup {t} ELSE tasks
       \/ /\ Goto(t, "failing") /\ rows' = [rows EXCEPT ![t] = Append(@, trace[t])]
          /\ UNCHANGED <<stored, tasks>>
    /\ UNCHANGED <<trace, frame>>
\* Mutant: a failed write is only logged.
PersistLogged(t) ==
    /\ At(t, "persist") /\ Goto(t, "close")
    /\ \/ Stored(t) /\ tasks' = IF WorthDistilling(t) THEN tasks \cup {t} ELSE tasks
       \/ UNCHANGED <<db, tasks>>
    /\ UNCHANGED <<trace, frame>>
\* The answer and its trace in one transaction; only then the background task, in the same step.
Persist(t) ==
    /\ At(t, "persist")
    /\ \/ /\ Goto(t, "close") /\ Stored(t)
          /\ tasks' = IF WorthDistilling(t) THEN tasks \cup {t} ELSE tasks
       \/ Goto(t, "failing") /\ UNCHANGED <<db, tasks>>
    /\ UNCHANGED <<trace, frame>>

Close(t) == At(t, "close") /\ Goto(t, "ended") /\ Send(t, "done") /\ UNCHANGED trace

\* The handlers of ask: the trace of the failure is saved if it can be, and the error is sent.
Fail(t) ==
    /\ At(t, "failing")
    /\ trace' = [trace EXCEPT ![t].error = TRUE]
    /\ \/ rows' = [rows EXCEPT ![t] = Append(@, trace'[t])]
       \/ UNCHANGED rows
    /\ Goto(t, "ended") /\ Send(t, "error")
    /\ UNCHANGED <<stored, tasks>>

AskStep(t) ==
    /\ \/ /\ \/ Setup(t) \/ Understand(t) \/ Decompose(t) \/ Retrieve(t) \/ CheckEvidence(t)
             \/ Token(t) \/ Generated(t) \/ Broken(t) \/ Close(t)
          /\ UNCHANGED <<db, tasks>>
       \/ Persist(t)
       \/ Fail(t)
    /\ UNCHANGED router

\* _auto_distill: the wiki reads the trace and works on its own; failures are only logged.
Distilled(t) ==
    /\ t \in tasks
    /\ tasks' = tasks \ {t}
    /\ UNCHANGED <<router, pc, trace, frame, db>>
=============================================================================
