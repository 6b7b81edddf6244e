----------------------------- MODULE QueryRouter -----------------------------
(***************************************************************************)
(* The /v1/query endpoint: the semaphore, the shielded steps of the        *)
(* generator, disconnecting clients, and the shutdown of the process.      *)
(***************************************************************************)
EXTENDS QueryService

service == <<trace, db, tasks>>

\* A permit within 10 ms, or an overload error: the caller is never queued.
Admit(t) ==
    /\ At(t, "new") /\ server = "up" /\ free > 0
    /\ free' = free - 1 /\ slot' = slot \cup {t}
    /\ Goto(t, "setup")
    /\ UNCHANGED <<server, frame, service>>
\* Mutant: the overload error is sent inside the try whose finally releases the permit.
OverloadReleasing(t) ==
    /\ At(t, "new") /\ server = "up" /\ free = 0
    /\ Goto(t, "gone") /\ Send(t, "error")
    /\ free' = free + 1
    /\ UNCHANGED <<slot, server, service>>
Overload(t) ==
    /\ At(t, "new") /\ server = "up" /\ free = 0
    /\ Goto(t, "gone") /\ Send(t, "error")
    /\ UNCHANGED <<router, service>>

\* The finally of event_stream.
Free(t) == free' = free + 1 /\ slot' = slot \ {t}

\* The generator is exhausted.
Release(t) ==
    /\ At(t, "ended") /\ t \in slot
    /\ Free(t) /\ Goto(t, "gone")
    /\ UNCHANGED <<server, frame, service>>

\* Mutant: only a finished stream returns its permit.
DisconnectKeeping(t) ==
    /\ t \in slot /\ ~At(t, "ended")
    /\ Send(t, "cut")
    /\ Goto(t, IF At(t, "persist") THEN "storing" ELSE "unwinding")
    /\ UNCHANGED <<router, service>>
\* The client leaves: the pending step is cancelled and the permit returned, at once; the ask itself
\* unwinds later.
Disconnect(t) ==
    /\ t \in slot /\ ~At(t, "ended")
    /\ Free(t) /\ Send(t, "cut")
    /\ Goto(t, IF At(t, "persist") THEN "storing" ELSE "unwinding")
    /\ UNCHANGED <<server, service>>

\* CancelledError is no Exception: nothing is saved, unless the commit was already on its way.
Unwind(t) ==
    /\ \/ At(t, "storing") /\ (Stored(t) \/ UNCHANGED db)
       \/ At(t, "unwinding") /\ UNCHANGED db
    /\ Goto(t, "gone")
    /\ UNCHANGED <<router, trace, frame, tasks>>

\* The server stops accepting, its connections end, and the lifespan's finally runs aclose.
Stop ==
    /\ server = "up" /\ slot = {}
    /\ server' = "closing"
    /\ UNCHANGED <<free, slot, pc, trace, frame, db, tasks>>
\* Mutant: aclose does not look after its tasks.
DisposeEarly ==
    /\ server = "closing"
    /\ server' = "down"
    /\ UNCHANGED <<free, slot, pc, trace, frame, db, tasks>>
\* Within the grace period the tasks end; past it they are cancelled.  Then the engine is disposed.
Dispose ==
    /\ server = "closing"
    /\ server' = "down" /\ tasks' = {}
    /\ UNCHANGED <<free, slot, pc, trace, frame, db>>
=============================================================================
