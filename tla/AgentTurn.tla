----------------------------- MODULE AgentTurn -----------------------------
(***************************************************************************)
(* One /v1/agent turn, AgentRunner.run: the conversation is set up, a loop *)
(* of model rounds and tool calls runs (the hand-written one or the graph),*)
(* and the answer is stored before the stream is closed.  Messages are     *)
(* kept as the calls the model asked for and those that have their reply.  *)
(***************************************************************************)
EXTENDS ToolGate, Sequences

CONSTANTS MaxIterations,   \* budget = max(1, agent_max_iterations)
          MaxCalls,        \* bound: tool calls in one model response
          MaxAsked,        \* bound: tool calls in the whole turn
          Modes            \* which loops the turn may run

\* loop: the hand-written loop.  reject: the graph as the runner builds it.  ask: the graph in its
\* interrupt mode.  bare: interrupt mode without policy_ctx, as the tests build it.
Mode == {"loop", "reject", "ask", "bare"}
ASSUME TurnAssumption ==
    /\ MaxIterations \in Nat \ {0}
    /\ MaxCalls \in Nat \ {0}
    /\ MaxAsked \in Nat
    /\ Modes \subseteq Mode

VARIABLES
    mode, admin,
    pc,          \* where run() or the graph stands
    round,       \* model rounds so far
    calls,       \* the tool calls of the last response
    next,        \* the call executed next
    held,        \* indices the approve node refused
    decision,    \* the resume value of a suspended graph
    text,        \* is there answer text
    asked,       \* calls issued: <<round, index, tool>>
    answered,    \* calls whose tool message is in the conversation
    ran,         \* tool code executed, in order
    audits,      \* audit rows: <<call, label>>
    sanctioned,  \* calls a human approved (history)
    frame, stored

config == <<mode, admin>>
chat   == <<round, calls, asked, text>>
work   == <<next, answered, ran, audits>>
human  == <<held, decision, sanctioned>>
stream == <<frame, stored>>
vars == <<config, pc, chat, work, human, stream>>

Name == Tool \cup {Unknown}
Call == (1..MaxIterations) \X (1..MaxCalls) \X Name
Response == UNION {[1..n -> Name] : n \in 0..MaxCalls}
Frames == {"none", "meta", "tool_call", "delta", "done", "error", "approval_required", "cut"}
Over == {"closed", "resumed"}
PC == {"setup", "open", "reason", "call", "force", "stream", "approve", "waiting", "act",
       "finalize", "persist", "trace", "failing"} \cup Over

TypeOK ==
    /\ mode \in Modes /\ admin \in BOOLEAN
    /\ pc \in PC
    /\ round \in 0..MaxIterations
    /\ calls \in Response /\ next \in 1..MaxCalls
    /\ held \subseteq 1..MaxCalls
    /\ decision \in {"none", "yes", "no"}
    /\ text \in BOOLEAN
    /\ asked \subseteq Call /\ answered \subseteq asked
    /\ ran \in Seq(Call)
    /\ audits \subseteq Call \X Label
    /\ sanctioned \subseteq asked
    /\ frame \in Frames /\ stored \in BOOLEAN

Init ==
    /\ mode \in Modes /\ admin \in BOOLEAN
    /\ pc = "setup"
    /\ round = 0 /\ calls = <<>> /\ asked = {} /\ text = FALSE
    /\ next = 1 /\ answered = {} /\ ran = <<>> /\ audits = {}
    /\ held = {} /\ decision = "none" /\ sanctioned = {}
    /\ frame = "none" /\ stored = FALSE

At(p) == pc = p
Goto(p) == pc' = p
\* resume_graph drives the rest of a suspended graph without a stream.
Resumed == frame = "approval_required"
Emit(f) == frame' = IF Resumed THEN frame ELSE f
\* An exception leaves the loop: run() catches it, resume_graph hands it to its caller.
Raise == Goto(IF Resumed THEN "resumed" ELSE "failing")

This(i) == <<round, i, calls[i]>>
Issued(n, cs) == {<<n, i, cs[i]>> : i \in DOMAIN cs}

\* _conversation_setup: refused (disabled, unknown conversation, one of another knowledge base), or
\* the USER message is committed.
Setup ==
    /\ At("setup")
    /\ Goto("open") \/ Goto("failing")
    /\ UNCHANGED <<config, chat, work, human, stream>>

\* The first frame.  The graph branch checks its deadline before it.
Open ==
    /\ At("open")
    /\ \/ Goto("reason") /\ Emit("meta")
       \/ mode # "loop" /\ Raise /\ UNCHANGED frame
    /\ UNCHANGED <<config, chat, work, human, stored>>

\* The conversation goes to the model, which answers with text, tool calls or both.
Respond(cs, t, p) ==
    /\ Cardinality(asked) + Len(cs) <= MaxAsked
    /\ Goto(p)
    /\ round' = round + 1 /\ calls' = cs /\ text' = t
    /\ asked' = asked \cup Issued(round + 1, cs)

\* Call i is over: its tool message is appended, and p follows the last call.
Reply(i, last, rows, runs, p) ==
    /\ answered' = answered \cup {This(i)}
    /\ audits' = audits \cup {<<This(i), l>> : l \in rows}
    /\ ran' = IF runs THEN Append(ran, This(i)) ELSE ran
    /\ IF i = last THEN next' = 1 /\ Goto(p) ELSE next' = i + 1 /\ UNCHANGED pc

\* Mutant: a failed write is only logged.
PersistSwallowing ==
    /\ At("persist")
    /\ Goto("trace") /\ stored' \in BOOLEAN
    /\ UNCHANGED <<config, chat, work, human, frame>>
\* _persist: the ASSISTANT message is committed before done is sent.
Persist ==
    /\ At("persist")
    /\ \/ Goto("trace") /\ stored' = TRUE
       \/ Goto("failing") /\ UNCHANGED stored
    /\ UNCHANGED <<config, chat, work, human, frame>>

\* _save_trace swallows its errors; then the stream is closed.
Close ==
    /\ At("trace")
    /\ Goto("closed") /\ Emit("done")
    /\ UNCHANGED <<config, chat, work, human, stored>>
Fail ==
    /\ At("failing")
    /\ Goto("closed") /\ Emit("error")
    /\ UNCHANGED <<config, chat, work, human, stored>>

\* The client disconnects (the generator is cancelled: except Exception does not see it), or the
\* process stops; a suspended graph lives in the memory of the process.
Cut ==
    /\ pc \notin Over
    /\ Goto("closed") /\ frame' = "cut"
    /\ UNCHANGED <<config, chat, work, human, stored>>
=============================================================================
