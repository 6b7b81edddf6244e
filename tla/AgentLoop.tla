------------------------------ MODULE AgentLoop ------------------------------
(* AgentRunner._loop: the hand-written ReAct loop, every call through the gate. *)
EXTENDS AgentTurn

\* One round: the deadline and the model may raise.
LoopReason ==
    /\ At("reason") /\ mode = "loop"
    /\ \/ Raise /\ UNCHANGED chat
       \/ \E cs \in Response, t \in BOOLEAN :
              Respond(cs, t /\ cs = <<>>, IF cs = <<>> THEN "stream" ELSE "call")
    /\ UNCHANGED <<config, work, human, stream>>

\* The round after the last call asks the model again, or forces an answer.
AfterCalls == IF round = MaxIterations THEN "force" ELSE "reason"
Executions(i) ==
    IF calls[i] = Unknown THEN {[rows |-> {}, runs |-> FALSE]} ELSE GatedCall(admin, Spec_of[calls[i]])

\* Mutant: a call of an unknown tool is skipped before the index moves on.
LoopCallStuck ==
    /\ At("call") /\ calls[next] # Unknown
    /\ \E o \in Executions(next) : Reply(next, Len(calls), o.rows, o.runs, AfterCalls)
    /\ Emit("tool_call")
    /\ UNCHANGED <<config, chat, human, stored>>
\* One tool call, executed and then reported.
LoopCall ==
    /\ At("call")
    /\ \E o \in Executions(next) : Reply(next, Len(calls), o.rows, o.runs, AfterCalls)
    /\ Emit("tool_call")
    /\ UNCHANGED <<config, chat, human, stored>>

\* _force_finalize: an answer without tools; its failure becomes an apology.
ForceFinalize ==
    /\ At("force")
    /\ Goto("stream") /\ text' \in BOOLEAN
    /\ UNCHANGED <<config, round, calls, asked, work, human, stream>>

\* _stream_final: the text at hand, or a streamed answer (which may be empty); failure apologises.
StreamFinal ==
    /\ At("stream")
    /\ Goto("persist")
    /\ \/ Emit("delta") /\ text' = TRUE
       \/ ~text /\ UNCHANGED <<text, frame>>
    /\ UNCHANGED <<config, round, calls, asked, work, human, stored>>

LoopStep == LoopReason \/ LoopCall \/ ForceFinalize \/ StreamFinal
=============================================================================
