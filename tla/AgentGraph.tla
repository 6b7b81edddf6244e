----------------------------- MODULE AgentGraph -----------------------------
(***************************************************************************)
(* The LangGraph form of the loop: reason, approve, act, finalize.  The    *)
(* approve node has no effect of its own, so that the node the library     *)
(* runs again on resume executes nothing twice.                            *)
(***************************************************************************)
EXTENDS AgentTurn

Interrupts == mode \in {"ask", "bare"}

\* Mutant: one round too many.
RouteLate(n, cs) ==
    IF n > MaxIterations THEN "finalize" ELSE IF cs # <<>> THEN "approve" ELSE "finalize"
Route(n, cs) ==
    IF n >= MaxIterations THEN "finalize" ELSE IF cs # <<>> THEN "approve" ELSE "finalize"

\* reason, then the conditional edge; the calls are reported before they are executed, or dropped.
GraphReason ==
    /\ At("reason") /\ mode # "loop"
    /\ \/ Raise /\ UNCHANGED <<chat, frame>>
       \/ \E cs \in Response, t \in BOOLEAN :
              /\ Respond(cs, text \/ t, Route(round + 1, cs))
              /\ IF cs # <<>> THEN Emit("tool_call") ELSE UNCHANGED frame
    /\ UNCHANGED <<config, work, human, stored>>

\* _needs_approval: the policy's decision, or the tool's own flag without policy_ctx.
NeedsApproval(name) ==
    /\ name # Unknown
    /\ IF mode = "bare" THEN Spec_of[name].approval ELSE Evaluate(admin, Spec_of[name]).approval
Pending == {i \in DOMAIN calls : ~admin /\ NeedsApproval(calls[i])}

\* The approve node interrupts: one suspension for all pending calls of the round.
Suspend ==
    /\ At("approve") /\ Interrupts /\ Pending # {} /\ decision = "none"
    /\ Goto("waiting") /\ Emit("approval_required")
    /\ UNCHANGED <<config, chat, work, human, stored>>

\* resume_graph: the approve node runs again and finds the answer of the human.
Resume ==
    /\ At("waiting")
    /\ \/ decision' = "yes" /\ sanctioned' = sanctioned \cup {This(i) : i \in Pending}
       \/ decision' = "no" /\ UNCHANGED sanctioned
    /\ Goto("approve")
    /\ UNCHANGED <<config, chat, work, held, stream>>

Approving == At("approve") /\ (~Interrupts \/ Pending = {} \/ decision # "none")
\* Mutant: the resume value of one suspension also answers the next one.
ApproveKeeping ==
    /\ Approving
    /\ held' = IF decision = "yes" THEN {} ELSE Pending
    /\ Goto("act")
    /\ UNCHANGED <<config, chat, work, decision, sanctioned, stream>>
Approve ==
    /\ Approving
    /\ held' = IF decision = "yes" THEN {} ELSE Pending
    /\ decision' = "none"
    /\ Goto("act")
    /\ UNCHANGED <<config, chat, work, sanctioned, stream>>

\* What one call of the act node may do: refused without reaching the gate, unknown, executed.
Outcomes(i) ==
    IF i \in held \/ calls[i] = Unknown THEN {[rows |-> {}, runs |-> FALSE]}
    ELSE IF mode = "bare" THEN Handler(admin, Spec_of[calls[i]])
    ELSE GatedCall(admin, Spec_of[calls[i]])

\* Mutant: a tool that raised after its effect is tried again.
ActRetrying ==
    /\ At("act")
    /\ \E o \in Outcomes(next) :
          \/ Reply(next, Len(calls), o.rows, o.runs, "reason")
          \/ /\ o.runs /\ ran' = Append(ran, This(next))
             /\ UNCHANGED <<answered, audits, next, pc>>
    /\ UNCHANGED <<config, chat, human, stream>>
\* Mutant: a refused call is skipped without a tool message.
ActSkipping ==
    /\ At("act")
    /\ \E o \in Outcomes(next) :
          IF next \in held
          THEN /\ UNCHANGED <<answered, audits, ran>>
               /\ IF next = Len(calls) THEN next' = 1 /\ Goto("reason") ELSE next' = next + 1 /\ UNCHANGED pc
          ELSE Reply(next, Len(calls), o.rows, o.runs, "reason")
    /\ UNCHANGED <<config, chat, human, stream>>
Act ==
    /\ At("act")
    /\ \E o \in Outcomes(next) : Reply(next, Len(calls), o.rows, o.runs, "reason")
    /\ UNCHANGED <<config, chat, human, stream>>

\* finalize: the last text of the model is the answer; an empty one is not sent.
Finalize ==
    /\ At("finalize")
    /\ Goto(IF Resumed THEN "resumed" ELSE "persist")
    /\ IF text THEN Emit("delta") ELSE UNCHANGED frame
    /\ UNCHANGED <<config, chat, work, human, stored>>

GraphStep == GraphReason \/ Suspend \/ Approve \/ Act \/ Finalize
=============================================================================
