-------------------------------- MODULE Agent --------------------------------
(* The agent turn under both loops, its promises and its properties. *)
EXTENDS AgentLoop, AgentGraph

TurnStep == Setup \/ Open \/ LoopStep \/ GraphStep \/ Persist \/ Close \/ Fail
Next == TurnStep \/ Resume \/ Cut

Spec == Init /\ [][Next]_vars
\* The event loop runs a ready task; nobody is obliged to answer an approval.
FairSpec == Spec /\ WF_vars(TurnStep)

-----------------------------------------------------------------------------
Ran == {ran[i] : i \in DOMAIN ran}
SpecOfCall(c) == Spec_of[c[3]]

(* The code of a tool that needs approval runs only for an admin or after  *)
(* a human approved that very call: an approval is not carried over to a   *)
(* later round, and a refusal is final (graph.py:12, business.py:53).      *)
NoUnsanctionedRun ==
    \A c \in Ran : ~admin /\ NeedsApproval(c[3]) => c \in sanctioned

(* A high-risk tool never runs without its audit row, even when the audit  *)
(* store is down (gate.py:98, fail-closed), wherever the gate is in place. *)
HighRiskAudited ==
    \A c \in Ran : /\ SpecOfCall(c).risk = "high"
                   /\ mode # "bare" \/ SpecOfCall(c).guarded
                   => <<c, "allowed">> \in audits

(* A call is executed at most once, suspended and resumed or not           *)
(* (graph.py:124): a replay would double its side effects.                 *)
RunAtMostOnce == Cardinality(Ran) = Len(ran)

(* When the model is asked again, every call of its earlier messages has   *)
(* its tool message: refused, unknown and failed calls included.           *)
RepliesComplete == pc \in {"reason", "force"} => answered = asked

(* The stream contract: done is sent only for a stored answer, an error    *)
(* only when none is stored, a suspended turn stores nothing.              *)
Contract == INSTANCE AnswerStream WITH
    Turn <- {1},
    frame <- [t \in {1} |-> CASE frame = "tool_call" -> "step"
                              [] frame = "approval_required" -> "suspended"
                              [] OTHER -> frame],
    stored <- [t \in {1} |-> stored]
HonoursContract == Contract!Spec

(* A turn ends or waits for a human: no chain of tool calls, refusals or   *)
(* failures keeps it going for ever.                                       *)
TurnEnds == []<>(pc \in Over \cup {"waiting"})
=============================================================================
