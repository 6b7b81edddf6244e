-------------------------------- MODULE Query --------------------------------
(* /v1/query: the asks of one process, their clients, its shutdown. *)
EXTENDS QueryRouter

ServerStep(t) == Admit(t) \/ Overload(t) \/ AskStep(t) \/ Release(t) \/ Unwind(t) \/ Distilled(t)
Next ==
    \/ \E t \in Ask : ServerStep(t) \/ Disconnect(t)
    \/ Stop \/ Dispose

Spec == Init /\ [][Next]_vars
\* The event loop runs every ready task; no client has to leave and no operator to stop the server.
FairSpec == Spec /\ \A t \in Ask : WF_vars(ServerStep(t) /\ ~At(t, "new"))
                 /\ WF_vars(Dispose)

-----------------------------------------------------------------------------
(* At most Limit streams run, and every permit is either free or held by   *)
(* exactly one of them: overload, failure and disconnect included          *)
(* (query.py:8).                                                           *)
PermitsKept == free + Cardinality(slot) = Limit

(* An answer has at most one trace row (its readers ask for one or none),  *)
(* and a stored answer has exactly the row of a success: message and trace *)
(* are committed together.                                                 *)
TraceAgrees ==
    \A t \in Ask : /\ Len(rows[t]) <= 1
                   /\ stored[t] => Len(rows[t]) = 1 /\ ~rows[t][1].error /\ rows[t][1].final

(* A background distillation only ever works on a committed, grounded      *)
(* answer with enough evidence: it reads the row another session wrote.    *)
DistilsGrounded ==
    \A t \in tasks : stored[t] /\ rows[t][1].grounded /\ rows[t][1].picked >= MinEvidence

(* Once the engine is disposed no background task uses it (main.py:189).   *)
NoTaskAfterDispose == server = "down" => tasks = {}

(* The stream contract, for every ask at once.                             *)
Contract == INSTANCE AnswerStream WITH Turn <- Ask
HonoursContract == Contract!Spec

(* Every admitted stream ends and gives its permit back, so that the       *)
(* process accepts queries again.                                          *)
PermitsReturn == \A t \in Ask : t \in slot ~> t \notin slot
=============================================================================
