----------------------------- MODULE AgentProof -----------------------------
(***************************************************************************)
(* Proofs about Agent for any tools, any limit of rounds and calls, and    *)
(* every setting of the policy.                                            *)
(***************************************************************************)
EXTENDS Agent, FiniteSetTheorems, SequenceTheorems, TLAPS

-----------------------------------------------------------------------------
(* The gate: what an outcome that runs the tool has been through.          *)

Outcome == [rows : SUBSET Label, runs : BOOLEAN]
\* Through the gate the call was allowed, and a high-risk one was audited.
GateKept(adm, spec, o) ==
    o.runs => /\ ~Evaluate(adm, spec).approval
              /\ spec.risk = "high" => "allowed" \in o.rows

LEMMA EvaluateTyped ==
  ASSUME NEW adm \in BOOLEAN, NEW spec \in ToolSpec
  PROVE  /\ Evaluate(adm, spec) \in Decision
         /\ Evaluate(adm, spec).risk = spec.risk
         /\ Evaluate(adm, spec).allowed => ~Evaluate(adm, spec).approval
BY ToolAssumption DEF ToolAssumption, Evaluate, Decision, ToolSpec

LEMMA GateOutcome ==
  ASSUME NEW adm \in BOOLEAN, NEW spec \in ToolSpec, NEW o \in Gate(adm, spec)
  PROVE  o \in Outcome /\ GateKept(adm, spec, o)
<1> DEFINE d == Evaluate(adm, spec)
<1>1. d \in Decision /\ d.risk = spec.risk /\ (d.allowed => ~d.approval)
  BY EvaluateTyped
<1>2. DecisionLabel(d) \in Label /\ (d.allowed => DecisionLabel(d) = "allowed")
  BY <1>1 DEF DecisionLabel, Label, Decision
<1> DEFINE trail == IF NeedsAudit(d) THEN RecordAudit(d) ELSE {[ok |-> TRUE, rows |-> {}]}
<1>3. PICK a \in trail : o = [rows |-> a.rows, runs |-> Passes(d, a.ok)]
  BY DEF Gate
<1>4. /\ a.rows \subseteq Label /\ a.ok \in BOOLEAN
      /\ d.risk = "high" /\ a.ok => a.rows = {DecisionLabel(d)}
  <2>1. CASE NeedsAudit(d)
    <3>1. a \in {[ok |-> TRUE, rows |-> {DecisionLabel(d)}], [ok |-> FALSE, rows |-> {}]}
      BY <1>3, <2>1 DEF RecordAudit
    <3>2. {DecisionLabel(d)} \subseteq Label /\ {} \subseteq Label
      BY <1>2
    <3>3. CASE a = [ok |-> TRUE, rows |-> {DecisionLabel(d)}]
      <4>1. a.rows = {DecisionLabel(d)} /\ a.ok = TRUE
        BY <3>3
      <4> QED
        BY <3>2, <4>1
    <3>4. CASE a = [ok |-> FALSE, rows |-> {}]
      <4>1. a.rows = {} /\ a.ok = FALSE
        BY <3>4
      <4> QED
        BY <3>2, <4>1
    <3> QED
      BY <3>1, <3>3, <3>4
  <2>2. CASE ~NeedsAudit(d)
    <3>1. a = [ok |-> TRUE, rows |-> {}] /\ d.risk = "low"
      BY <1>3, <2>2 DEF NeedsAudit
    <3>2. a.rows = {} /\ a.ok = TRUE
      BY <3>1
    <3>3. ~(d.risk = "high")
      BY <3>1
    <3> QED
      BY <3>2, <3>3
  <2> QED
    BY <2>1, <2>2
<1> HIDE DEF d, trail
<1>5. Passes(d, a.ok) \in BOOLEAN /\ (Passes(d, a.ok) => d.allowed /\ (d.risk = "high" => a.ok))
  BY <1>1, <1>4 DEF Passes, Decision
<1>6. o \in Outcome
  BY <1>3, <1>4, <1>5 DEF Outcome
<1>7. o.runs => ~d.approval /\ (spec.risk = "high" => "allowed" \in o.rows)
  BY <1>1, <1>2, <1>3, <1>4, <1>5
<1> QED
  BY <1>6, <1>7 DEF GateKept, d

LEMMA HandlerOutcome ==
  ASSUME NEW adm \in BOOLEAN, NEW spec \in ToolSpec, NEW o \in Handler(adm, spec)
  PROVE  o \in Outcome /\ (spec.guarded => GateKept(adm, spec, o))
<1>1. CASE spec.guarded
  BY <1>1, GateOutcome DEF Handler
<1>2. CASE ~spec.guarded
  <2>1. o = [rows |-> {}, runs |-> TRUE]
    BY <1>2 DEF Handler
  <2> QED
    BY <1>2, <2>1 DEF Outcome
<1> QED
  BY <1>1, <1>2

LEMMA GatedOutcome ==
  ASSUME NEW adm \in BOOLEAN, NEW spec \in ToolSpec, NEW o \in GatedCall(adm, spec)
  PROVE  o \in Outcome /\ GateKept(adm, spec, o)
<1>1. PICK g \in Gate(adm, spec) :
        o \in IF g.runs THEN {[rows |-> g.rows \cup h.rows, runs |-> h.runs] : h \in Handler(adm, spec)}
              ELSE {Refusal(g)}
  BY DEF GatedCall
<1>2. g \in Outcome /\ GateKept(adm, spec, g)
  BY GateOutcome
<1>3. CASE ~g.runs
  BY <1>1, <1>2, <1>3 DEF Refusal, Outcome, GateKept
<1>4. CASE g.runs
  <2>1. PICK h \in Handler(adm, spec) : o = [rows |-> g.rows \cup h.rows, runs |-> h.runs]
    BY <1>1, <1>4
  <2>2. h \in Outcome
    BY HandlerOutcome
  <2> QED
    BY <1>2, <1>4, <2>1, <2>2 DEF Outcome, GateKept
<1> QED
  BY <1>3, <1>4
-----------------------------------------------------------------------------
(* The inductive invariant.                                                *)

\* Positions at which calls of the last response are still to be executed.
Working == {"approve", "waiting", "call", "act"}
\* Positions about which nothing has to be known: the turn is on its way out.
Leaving == {"failing", "stream", "finalize", "persist", "trace"} \cup Over

\* Where the turn stands in its rounds and among the calls of the last response.
Progress ==
    /\ pc \in {"call", "act"} => next \in 1..Len(calls)
    /\ pc \in {"setup", "open", "reason", "approve", "waiting"} => next = 1
    /\ pc \in {"approve", "waiting"} => Len(calls) # 0
    /\ pc \in {"setup", "open", "reason", "approve", "waiting", "act"} => round < MaxIterations
    /\ pc = "call" => mode = "loop"
    /\ Issued(round, calls) \subseteq asked

\* The calls that still wait for their tool message are those from next on.
Replies ==
    /\ pc \in {"setup", "open", "reason", "force"} => answered = asked
    /\ pc \in Working => asked \subseteq answered \cup {This(i) : i \in next..Len(calls)}

\* A resume value is there only for the approve node that asked for it, and a call that needs
\* approval passes that node refused or sanctioned.
Approvals ==
    /\ pc \in {"setup", "open", "reason", "call", "act", "waiting"} => decision = "none"
    /\ pc = "approve" /\ decision = "yes" => \A i \in Pending : This(i) \in sanctioned
    /\ pc = "act" => \A i \in Pending : i \in held \/ This(i) \in sanctioned

\* What ran belongs to an earlier round or an earlier call.
Past ==
    /\ IsFiniteSet(Ran) /\ RunAtMostOnce
    /\ \A c \in Ran : c[1] <= round
    /\ pc \in Working => \A c \in Ran : c[1] < round \/ c[2] < next

Inductive ==
    /\ TypeOK /\ Progress /\ Replies /\ Approvals /\ Past
    /\ NoUnsanctionedRun /\ HighRiskAudited

-----------------------------------------------------------------------------
LEMMA ResponseShape ==
  ASSUME NEW cs \in Response
  PROVE  /\ cs \in Seq(Name) /\ Len(cs) \in 0..MaxCalls /\ DOMAIN cs = 1..Len(cs)
         /\ \A i \in 1..Len(cs) : cs[i] \in Name
<1>1. PICK n \in 0..MaxCalls : cs \in [1..n -> Name]
  BY DEF Response
<1>2. n \in Nat
  BY <1>1, TurnAssumption DEF TurnAssumption
<1> QED
  BY <1>1, <1>2

LEMMA EmptyResponse == <<>> \in Response
<1>1. <<>> \in [1..0 -> Name] /\ 0 \in 0..MaxCalls
  BY TurnAssumption DEF TurnAssumption
<1> QED
  BY <1>1 DEF Response

LEMMA RanFacts ==
  ASSUME ran \in Seq(Call)
  PROVE  /\ Ran \subseteq Call /\ Len(ran) \in Nat
         /\ (ran = <<>> => Ran = {})
BY DEF Ran

LEMMA AgentInit ==
  ASSUME Init
  PROVE  Inductive
<1> USE TurnAssumption DEF Init, TurnAssumption
<1>1. ran = <<>> /\ ran \in Seq(Call) /\ Len(ran) = 0 /\ Ran = {}
  BY RanFacts
<1>2. calls = <<>> /\ calls \in Response /\ Len(calls) = 0 /\ DOMAIN calls = {}
  BY EmptyResponse, ResponseShape
<1>3. TypeOK
  <2>1. round \in 0..MaxIterations /\ next \in 1..MaxCalls
    OBVIOUS
  <2>2. asked \subseteq Call /\ answered \subseteq asked /\ audits \subseteq Call \X Label /\ sanctioned \subseteq asked
    OBVIOUS
  <2>3. pc \in PC /\ frame \in Frames /\ decision \in {"none", "yes", "no"} /\ held \subseteq 1..MaxCalls
    BY DEF PC, Frames
  <2>4. text \in BOOLEAN /\ stored \in BOOLEAN /\ admin \in BOOLEAN /\ mode \in Modes
    OBVIOUS
  <2> QED
    BY <1>1, <1>2, <2>1, <2>2, <2>3, <2>4 DEF TypeOK
<1>4. Progress /\ Replies /\ Approvals
  BY <1>2 DEF Progress, Replies, Approvals, Issued, Working
<1>5. Past
  BY <1>1, FS_EmptySet DEF Past, RunAtMostOnce
<1>6. NoUnsanctionedRun /\ HighRiskAudited
  BY <1>1 DEF NoUnsanctionedRun, HighRiskAudited
<1> QED
  BY <1>3, <1>4, <1>5, <1>6 DEF Inductive

(* A step that calls no tool and no model.                                 *)
LEMMA QuietKeeps ==
  ASSUME Inductive, UNCHANGED <<config, round, calls, asked, work, human>>,
         \/ pc' \in Leaving
         \/ pc = "setup" /\ pc' = "open"
         \/ pc = "open" /\ pc' = "reason"
         \/ pc = "approve" /\ pc' = "waiting" /\ decision = "none",
         text' \in BOOLEAN, frame' \in Frames, stored' \in BOOLEAN
  PROVE  Inductive'
<1> USE DEF Inductive
<1>1. UNCHANGED <<mode, admin, round, calls, asked, next, answered, ran, audits, held, decision, sanctioned>>
  BY DEF config, work, human
<1>2. TypeOK'
  BY <1>1 DEF TypeOK, Leaving, Over, PC
<1>3. Progress'
  BY <1>1 DEF Progress, Leaving, Over, Issued
<1>4. Replies'
  BY <1>1 DEF Replies, Leaving, Over, Working, This
<1>5. Approvals'
  BY <1>1 DEF Approvals, Leaving, Over
<1>6. Ran' = Ran
  BY <1>1 DEF Ran
<1>7. Past'
  BY <1>1, <1>6 DEF Past, RunAtMostOnce, Leaving, Over, Working
<1>8. NoUnsanctionedRun' /\ HighRiskAudited'
  BY <1>1, <1>6 DEF NoUnsanctionedRun, HighRiskAudited, NeedsApproval, SpecOfCall
<1> QED
  BY <1>2, <1>3, <1>4, <1>5, <1>7, <1>8
(* The model answers: a new round begins, all of its calls unanswered.     *)
LEMMA RespondKeeps ==
  ASSUME Inductive, pc = "reason", NEW cs \in Response, NEW t \in BOOLEAN, NEW p, Respond(cs, t, p),
         \/ p \in Leaving
         \/ p = "approve" /\ Len(cs) # 0 /\ round + 1 < MaxIterations
         \/ p = "call" /\ Len(cs) # 0 /\ mode = "loop",
         UNCHANGED <<config, work, human, stored>>, frame' \in Frames
  PROVE  Inductive'
<1> USE DEF Inductive
<1>1. /\ UNCHANGED <<mode, admin, next, answered, ran, audits, held, decision, sanctioned, stored>>
      /\ pc' = p /\ round' = round + 1 /\ calls' = cs /\ text' = t
      /\ asked' = asked \cup Issued(round + 1, cs)
  BY DEF config, work, human, Respond, Goto
<1>2. /\ round \in Nat /\ round < MaxIterations /\ MaxIterations \in Nat /\ MaxCalls \in Nat
      /\ next = 1 /\ answered = asked /\ decision = "none"
  BY TurnAssumption DEF TurnAssumption, TypeOK, Progress, Replies, Approvals
<1>3. /\ Len(cs) \in 0..MaxCalls /\ DOMAIN cs = 1..Len(cs)
      /\ \A i \in 1..Len(cs) : cs[i] \in Name
  BY ResponseShape
<1>4. Issued(round + 1, cs) \subseteq Call
  BY <1>2, <1>3 DEF Issued, Call
<1>5. TypeOK'
  <2>1. p \in PC
    BY DEF PC, Leaving, Over
  <2>2. asked' \subseteq Call /\ answered' \subseteq asked' /\ sanctioned' \subseteq asked'
    BY <1>1, <1>4 DEF TypeOK
  <2>3. round' \in 0..MaxIterations
    BY <1>1, <1>2
  <2> QED
    BY <1>1, <2>1, <2>2, <2>3 DEF TypeOK
<1>6. Progress'
  BY <1>1, <1>2, <1>3 DEF Progress, Leaving, Over
<1>7. Replies'
  <2>1. ASSUME NEW c \in asked' PROVE c \in answered' \cup {This(i)' : i \in next'..Len(calls')}
    <3>1. CASE c \in asked
      BY <1>1, <1>2, <3>1
    <3>2. CASE c \in Issued(round + 1, cs)
      BY <1>1, <1>2, <1>3, <3>2 DEF Issued, This
    <3> QED
      BY <1>1, <2>1, <3>1, <3>2
  <2> QED
    BY <1>1, <2>1 DEF Replies, Leaving, Over, This
<1>8. Approvals'
  BY <1>1, <1>2 DEF Approvals, Leaving, Over
<1>9. Ran' = Ran
  BY <1>1 DEF Ran
<1>10. Past'
  <2>1. ASSUME NEW c \in Ran PROVE c[1] < round' /\ c[1] <= round'
    <3>1. c \in Call /\ c[1] <= round
      BY RanFacts DEF TypeOK, Past
    <3>2. c[1] \in Int
      BY <3>1 DEF Call
    <3> QED
      BY <1>1, <1>2, <3>1, <3>2
  <2> QED
    BY <1>1, <1>9, <2>1 DEF Past, RunAtMostOnce
<1>11. NoUnsanctionedRun' /\ HighRiskAudited'
  BY <1>1, <1>9 DEF NoUnsanctionedRun, HighRiskAudited, NeedsApproval, SpecOfCall
<1> QED
  BY <1>5, <1>6, <1>7, <1>8, <1>10, <1>11

LEMMA ResumeKeeps ==
  ASSUME Inductive, Resume
  PROVE  Inductive'
<1> USE DEF Inductive
<1>1. /\ UNCHANGED <<mode, admin, round, calls, asked, text, next, answered, ran, audits, held, frame, stored>>
      /\ pc = "waiting" /\ pc' = "approve"
      /\ \/ decision' = "yes" /\ sanctioned' = sanctioned \cup {This(i) : i \in Pending}
         \/ decision' = "no" /\ sanctioned' = sanctioned
  BY DEF config, chat, work, stream, Resume, At, Goto
<1>2. {This(i) : i \in Pending} \subseteq asked
  BY DEF Progress, Issued, Pending, This
<1>3. sanctioned \subseteq sanctioned' /\ sanctioned' \subseteq asked
  BY <1>1, <1>2 DEF TypeOK
<1>4. TypeOK'
  BY <1>1, <1>3 DEF TypeOK, PC
<1>5. Progress'
  BY <1>1 DEF Progress, Issued
<1>6. Replies'
  BY <1>1 DEF Replies, Working, This
<1>7. Approvals'
  <2>1. Pending' = Pending
    BY <1>1 DEF Pending, NeedsApproval
  <2>2. \A i : This(i)' = This(i)
    BY <1>1 DEF This
  <2>3. decision' = "yes" => \A i \in Pending : This(i) \in sanctioned'
    BY <1>1
  <2> QED
    BY <1>1, <2>1, <2>2, <2>3 DEF Approvals
<1>8. Ran' = Ran
  BY <1>1 DEF Ran
<1>9. Past'
  BY <1>1, <1>8 DEF Past, RunAtMostOnce, Working
<1>10. NoUnsanctionedRun'
  BY <1>1, <1>3, <1>8 DEF NoUnsanctionedRun, NeedsApproval
<1>11. HighRiskAudited'
  BY <1>1, <1>8 DEF HighRiskAudited, SpecOfCall
<1> QED
  BY <1>4, <1>5, <1>6, <1>7, <1>9, <1>10, <1>11

LEMMA ApproveKeeps ==
  ASSUME Inductive, Approve
  PROVE  Inductive'
<1> USE DEF Inductive
<1>1. /\ UNCHANGED <<mode, admin, round, calls, asked, text, next, answered, ran, audits, sanctioned, frame, stored>>
      /\ pc = "approve" /\ pc' = "act" /\ decision' = "none"
      /\ held' = IF decision = "yes" THEN {} ELSE Pending
  BY DEF config, chat, work, stream, Approve, Approving, At, Goto
<1>2. calls \in Response /\ Len(calls) \in 0..MaxCalls /\ DOMAIN calls = 1..Len(calls)
  BY ResponseShape DEF TypeOK
<1>3. held' \subseteq 1..MaxCalls
  BY <1>1, <1>2, TurnAssumption DEF Pending, TurnAssumption
<1>4. TypeOK'
  BY <1>1, <1>3 DEF TypeOK, PC
<1>5. Progress'
  BY <1>1, <1>2 DEF Progress, Issued
<1>6. Replies'
  BY <1>1 DEF Replies, Working, This
<1>7. Approvals'
  <2>1. Pending' = Pending
    BY <1>1 DEF Pending, NeedsApproval
  <2>2. \A i : This(i)' = This(i)
    BY <1>1 DEF This
  <2>3. \A i \in Pending : i \in held' \/ This(i) \in sanctioned
    BY <1>1 DEF Approvals
  <2> QED
    BY <1>1, <2>1, <2>2, <2>3 DEF Approvals
<1>8. Ran' = Ran
  BY <1>1 DEF Ran
<1>9. Past'
  BY <1>1, <1>8 DEF Past, RunAtMostOnce, Working
<1>10. NoUnsanctionedRun' /\ HighRiskAudited'
  BY <1>1, <1>8 DEF NoUnsanctionedRun, NeedsApproval, HighRiskAudited, SpecOfCall
<1> QED
  BY <1>4, <1>5, <1>6, <1>7, <1>9, <1>10
-----------------------------------------------------------------------------
LEMMA Successor ==
  ASSUME NEW m \in Nat, NEW l \in 0..m, NEW n \in 1..l
  PROVE  1 \in 1..m /\ (n # l => n + 1 \in 1..l /\ n + 1 \in 1..m)
OBVIOUS

(* One call is over: what Inductive asks of the outcome of call next.      *)
Justified(o) ==
    o.runs => /\ ~admin /\ NeedsApproval(calls[next]) => This(next) \in sanctioned
              /\ Spec_of[calls[next]].risk = "high"
                 /\ (mode # "bare" \/ Spec_of[calls[next]].guarded) => "allowed" \in o.rows

\* The call that runs is new, and joins what ran.
LEMMA RanGrows ==
  ASSUME Inductive, pc \in {"call", "act"}, This(next) \in Call, ran' = Append(ran, This(next))
  PROVE  /\ ran' \in Seq(Call) /\ Ran' = Ran \cup {This(next)}
         /\ IsFiniteSet(Ran') /\ RunAtMostOnce'
<1> DEFINE c == This(next)
<1>1. /\ ran \in Seq(Call) /\ IsFiniteSet(Ran) /\ Cardinality(Ran) = Len(ran)
      /\ round \in Nat /\ next \in Nat
  BY TurnAssumption DEF Inductive, TypeOK, Past, RunAtMostOnce, TurnAssumption
<1>2. c \notin Ran
  <2>1. c[1] = round /\ c[2] = next
    BY DEF This
  <2>2. \A d \in Ran : d[1] < round \/ d[2] < next
    BY DEF Inductive, Past, Working
  <2> QED
    BY <1>1, <2>1, <2>2
<1> HIDE DEF c
<1>3. ran' \in Seq(Call) /\ Len(ran') = Len(ran) + 1 /\ ran' = Append(ran, c)
  BY <1>1 DEF c
<1>4. Ran' = Ran \cup {c}
  <2>1. /\ DOMAIN ran = 1..Len(ran) /\ DOMAIN ran' = 1..(Len(ran) + 1) /\ Len(ran) \in Nat
    BY <1>1, <1>3
  <2>2. /\ \A i \in 1..Len(ran) : ran'[i] = ran[i]
        /\ ran'[Len(ran) + 1] = c
    BY <1>1, <1>3
  <2>3. ASSUME NEW d PROVE d \in Ran' <=> d \in Ran \/ d = c
    <3>1. ASSUME d \in Ran' PROVE d \in Ran \/ d = c
      <4>1. PICK i \in 1..(Len(ran) + 1) : d = ran'[i]
        BY <2>1, <3>1 DEF Ran
      <4>2. CASE i = Len(ran) + 1
        BY <2>2, <4>1, <4>2
      <4>3. CASE i \in 1..Len(ran)
        BY <2>1, <2>2, <4>1, <4>3 DEF Ran
      <4> QED
        BY <2>1, <4>1, <4>2, <4>3
    <3>2. ASSUME d \in Ran PROVE d \in Ran'
      <4>1. PICK i \in 1..Len(ran) : d = ran[i]
        BY <2>1, <3>2 DEF Ran
      <4>2. i \in 1..(Len(ran) + 1) /\ ran'[i] = d
        BY <2>1, <2>2, <4>1
      <4> QED
        BY <2>1, <4>2 DEF Ran
    <3>3. c \in Ran'
      BY <2>1, <2>2 DEF Ran
    <3> QED
      BY <3>1, <3>2, <3>3
  <2> QED
    BY <2>3
<1>5. IsFiniteSet(Ran') /\ Cardinality(Ran') = Cardinality(Ran) + 1
  BY <1>1, <1>2, <1>4, FS_AddElement
<1> QED
  BY <1>1, <1>3, <1>4, <1>5 DEF RunAtMostOnce, c

LEMMA ReplyKeeps ==
  ASSUME Inductive, pc \in {"call", "act"},
         NEW o \in Outcome, Justified(o),
         NEW p \in {"reason", "force"}, p = "reason" => round < MaxIterations,
         Reply(next, Len(calls), o.rows, o.runs, p),
         UNCHANGED <<config, chat, human, stored>>, frame' \in Frames
  PROVE  Inductive'
<1> USE DEF Inductive
<1> DEFINE c == This(next)
<1>1. /\ UNCHANGED <<mode, admin, round, calls, asked, text, held, decision, sanctioned, stored>>
      /\ answered' = answered \cup {c}
      /\ audits' = audits \cup {<<c, l>> : l \in o.rows}
      /\ ran' = IF o.runs THEN Append(ran, c) ELSE ran
      /\ \/ next = Len(calls) /\ next' = 1 /\ pc' = p
         \/ next # Len(calls) /\ next' = next + 1 /\ pc' = pc
  BY DEF config, chat, human, Reply, Goto
<1>2. /\ calls \in Response /\ Len(calls) \in 0..MaxCalls /\ DOMAIN calls = 1..Len(calls)
      /\ MaxCalls \in Nat /\ round \in Nat /\ next \in 1..Len(calls)
      /\ ran \in Seq(Call) /\ asked \subseteq Call
  BY ResponseShape, TurnAssumption DEF TypeOK, Progress, TurnAssumption
<1>3. c \in asked /\ c \in Call /\ c[1] = round /\ c[2] = next /\ c[3] = calls[next]
  BY <1>2 DEF Progress, Issued, This
<1> HIDE DEF c
<1>4. /\ ran' \in Seq(Call) /\ IsFiniteSet(Ran') /\ RunAtMostOnce'
      /\ Ran \subseteq Ran' /\ Ran' \subseteq Ran \cup {c} /\ (c \in Ran' /\ c \notin Ran => o.runs)
  <2>1. CASE o.runs
    <3>1. ran' = Append(ran, This(next)) /\ This(next) \in Call
      BY <1>1, <1>3, <2>1 DEF c
    <3>2. /\ ran' \in Seq(Call) /\ Ran' = Ran \cup {This(next)} /\ IsFiniteSet(Ran') /\ RunAtMostOnce'
      BY <3>1, RanGrows
    <3> QED
      BY <2>1, <3>2 DEF c
  <2>2. CASE ~o.runs
    <3>1. ran' = ran /\ Ran' = Ran
      BY <1>1, <2>2 DEF Ran
    <3> QED
      BY <1>2, <3>1 DEF Past, RunAtMostOnce
  <2> QED
    BY <2>1, <2>2
<1>5. o.rows \subseteq Label
  BY DEF Outcome
<1>6. TypeOK'
  <2>1. pc' \in PC /\ next' \in 1..MaxCalls
    <3>1. pc' \in PC
      BY <1>1 DEF PC
    <3>2. next' = 1 \/ (next # Len(calls) /\ next' = next + 1)
      BY <1>1
    <3>3. next' \in 1..MaxCalls
      BY <1>2, <3>2, Successor
    <3> QED
      BY <3>1, <3>3
  <2>2. answered' \subseteq asked' /\ audits' \subseteq Call \X Label
    BY <1>1, <1>3, <1>5 DEF TypeOK
  <2> QED
    BY <1>1, <1>4, <2>1, <2>2 DEF TypeOK
<1>7. Progress'
  <2>1. Issued(round', calls') \subseteq asked'
    BY <1>1 DEF Progress, Issued
  <2>2. pc' \in {"call", "act"} => next' \in 1..Len(calls')
    <3>1. pc' \in {"call", "act"} => next # Len(calls) /\ next' = next + 1
      BY <1>1
    <3>2. next # Len(calls) => next + 1 \in 1..Len(calls)
      BY <1>2, Successor
    <3> QED
      BY <1>1, <3>1, <3>2
  <2> QED
    BY <1>1, <2>1, <2>2 DEF Progress
<1>8. Replies'
  <2>1. ASSUME NEW x \in asked PROVE x \in answered' \/ \E i \in (next + 1)..Len(calls) : x = This(i)
    <3>1. x \in answered \/ \E i \in next..Len(calls) : x = This(i)
      BY DEF Replies, Working
    <3>2. ASSUME NEW i \in next..Len(calls), x = This(i)
          PROVE  i = next \/ i \in (next + 1)..Len(calls)
      BY <1>2
    <3> QED
      BY <1>1, <3>1, <3>2 DEF c
  <2>2. CASE next = Len(calls)
    <3>1. \A x \in asked : x \in answered'
      BY <1>2, <2>1, <2>2
    <3>2. answered' = asked'
      BY <1>1, <1>3, <3>1 DEF TypeOK
    <3> QED
      BY <1>1, <2>2, <3>2 DEF Replies, Working
  <2>3. CASE next # Len(calls)
    <3>1. \A i : This(i)' = This(i)
      BY <1>1 DEF This
    <3>2. next' = next + 1 /\ pc' = pc /\ asked' = asked /\ calls' = calls
      BY <1>1, <2>3
    <3>3. asked' \subseteq answered' \cup {This(i)' : i \in next'..Len(calls')}
      BY <2>1, <3>1, <3>2
    <3> QED
      BY <3>2, <3>3 DEF Replies
  <2> QED
    BY <2>2, <2>3
<1>9. Approvals'
  <2>1. Pending' = Pending
    BY <1>1 DEF Pending, NeedsApproval
  <2>2. \A i : This(i)' = This(i)
    BY <1>1 DEF This
  <2>3. pc' = "act" => pc = "act"
    BY <1>1
  <2>4. pc' # "approve" /\ decision' = "none"
    BY <1>1, <1>2 DEF Approvals, Progress
  <2> QED
    BY <1>1, <2>1, <2>2, <2>3, <2>4 DEF Approvals
<1>10. Past'
  <2>1. ASSUME NEW d \in Ran' PROVE d[1] <= round /\ (d[1] < round \/ d[2] < next + 1)
    <3>1. d \in Call /\ d[1] \in Int /\ d[2] \in Int
      BY <1>4, <1>2, <1>3, RanFacts DEF Call
    <3>2. CASE d \in Ran
      BY <1>2, <3>1, <3>2 DEF Past, Working
    <3>3. CASE d = c
      BY <1>2, <1>3, <3>3
    <3> QED
      BY <1>4, <2>1, <3>2, <3>3
  <2>2. pc' \in Working => next' = next + 1
    BY <1>1 DEF Working
  <2> QED
    BY <1>1, <1>4, <2>1, <2>2 DEF Past
<1>11. NoUnsanctionedRun'
  <2>1. ASSUME NEW d \in Ran', ~admin, NeedsApproval(d[3])
        PROVE  d \in sanctioned
    <3>1. CASE d \in Ran
      BY <2>1, <3>1 DEF NoUnsanctionedRun
    <3>2. CASE d = c /\ o.runs
      BY <1>3, <2>1, <3>2 DEF Justified, c
    <3> QED
      BY <1>4, <2>1, <3>1, <3>2
  <2>2. \A n : NeedsApproval(n)' = NeedsApproval(n)
    BY <1>1 DEF NeedsApproval
  <2> QED
    BY <1>1, <2>1, <2>2 DEF NoUnsanctionedRun
<1>12. HighRiskAudited'
  <2>1. ASSUME NEW d \in Ran', SpecOfCall(d).risk = "high", mode # "bare" \/ SpecOfCall(d).guarded
        PROVE  <<d, "allowed">> \in audits'
    <3>1. CASE d \in Ran
      BY <1>1, <2>1, <3>1 DEF HighRiskAudited
    <3>2. CASE d = c /\ o.runs
      <4>1. "allowed" \in o.rows
        BY <1>3, <2>1, <3>2 DEF Justified, SpecOfCall
      <4> QED
        BY <1>1, <3>2, <4>1
    <3> QED
      BY <1>4, <2>1, <3>1, <3>2
  <2> QED
    BY <1>1, <2>1 DEF HighRiskAudited, SpecOfCall
<1> QED
  BY <1>4, <1>6, <1>7, <1>8, <1>9, <1>10, <1>11, <1>12
-----------------------------------------------------------------------------
(* The actions.                                                            *)

LEMMA EmitTyped ==
  ASSUME frame \in Frames, NEW f \in Frames, Emit(f)
  PROVE  frame' \in Frames
BY DEF Emit

LEMMA OuterKeeps ==
  ASSUME Inductive,
         Setup \/ Open \/ ForceFinalize \/ StreamFinal \/ Suspend \/ Finalize \/ Persist \/ Close \/ Fail \/ Cut
  PROVE  Inductive'
<1>0. frame \in Frames /\ text \in BOOLEAN /\ stored \in BOOLEAN
  BY DEF Inductive, TypeOK
<1> USE <1>0, QuietKeeps DEF At, Goto, Raise, Leaving, Over, chat, stream
<1>1. CASE Setup
  BY <1>1 DEF Setup
<1>2. CASE Open
  BY <1>2 DEF Open, Emit, Frames
<1>3. CASE ForceFinalize
  BY <1>3 DEF ForceFinalize
<1>4. CASE StreamFinal
  BY <1>4 DEF StreamFinal, Emit, Frames
<1>5. CASE Suspend
  BY <1>5 DEF Suspend, Emit, Frames
<1>6. CASE Finalize
  BY <1>6 DEF Finalize, Emit, Frames
<1>7. CASE Persist
  BY <1>7 DEF Persist
<1>8. CASE Close
  BY <1>8 DEF Close, Emit, Frames
<1>9. CASE Fail
  BY <1>9 DEF Fail, Emit, Frames
<1>10. CASE Cut
  BY <1>10 DEF Cut, Frames
<1> QED
  BY <1>1, <1>2, <1>3, <1>4, <1>5, <1>6, <1>7, <1>8, <1>9, <1>10

LEMMA ReasonKeeps ==
  ASSUME Inductive, LoopReason \/ GraphReason
  PROVE  Inductive'
<1>0. frame \in Frames /\ text \in BOOLEAN /\ stored \in BOOLEAN /\ round \in 0..MaxIterations
  BY DEF Inductive, TypeOK
<1>1. CASE Raise /\ UNCHANGED <<chat, config, work, human, stream>>
  BY <1>0, <1>1, QuietKeeps DEF Raise, Goto, Leaving, Over, chat, stream
<1>2. CASE /\ pc = "reason" /\ mode = "loop" /\ UNCHANGED <<config, work, human, stream>>
           /\ \E cs \in Response, t \in BOOLEAN :
                  Respond(cs, t /\ cs = <<>>, IF cs = <<>> THEN "stream" ELSE "call")
  <2>1. PICK cs \in Response, t \in BOOLEAN :
          Respond(cs, t /\ cs = <<>>, IF cs = <<>> THEN "stream" ELSE "call")
    BY <1>2
  <2>2. PICK b \in BOOLEAN, p \in {"stream", "call"} :
          Respond(cs, b, p) /\ (p = "call" => cs # <<>>)
    BY <2>1
  <2>3. p = "call" => Len(cs) # 0
    BY <2>2, ResponseShape
  <2>4. /\ pc = "reason" /\ mode = "loop" /\ UNCHANGED <<config, work, human, stored>> /\ frame' \in Frames
    BY <1>0, <1>2 DEF stream
  <2> QED
    BY <2>2, <2>3, <2>4, RespondKeeps DEF Leaving
<1>3. CASE /\ pc = "reason" /\ UNCHANGED <<config, work, human, stored>>
           /\ \E cs \in Response, t \in BOOLEAN :
                  /\ Respond(cs, text \/ t, Route(round + 1, cs))
                  /\ IF cs # <<>> THEN Emit("tool_call") ELSE UNCHANGED frame
  <2>1. PICK cs \in Response, t \in BOOLEAN :
          /\ Respond(cs, text \/ t, Route(round + 1, cs))
          /\ IF cs # <<>> THEN Emit("tool_call") ELSE UNCHANGED frame
    BY <1>3
  <2>2. PICK p \in {"finalize", "approve"} :
          p = Route(round + 1, cs) /\ (p = "approve" => cs # <<>> /\ ~(round + 1 >= MaxIterations))
    BY DEF Route
  <2>3. PICK b \in BOOLEAN : Respond(cs, b, p)
    BY <1>0, <2>1, <2>2
  <2>4. p = "approve" => Len(cs) # 0 /\ round + 1 < MaxIterations
    BY <1>0, <2>2, ResponseShape, TurnAssumption DEF TurnAssumption
  <2>5. frame' \in Frames
    BY <1>0, <2>1, EmitTyped DEF Frames
  <2>6. pc = "reason" /\ UNCHANGED <<config, work, human, stored>>
    BY <1>3
  <2> QED
    BY <2>2, <2>3, <2>4, <2>5, <2>6, RespondKeeps DEF Leaving
<1> QED
  BY <1>1, <1>2, <1>3 DEF LoopReason, GraphReason, stream, At

(* The loop: every call of a known tool has been through the gate.         *)
LEMMA LoopCallKeeps ==
  ASSUME Inductive, LoopCall
  PROVE  Inductive'
<1>1. PICK o \in Executions(next) : Reply(next, Len(calls), o.rows, o.runs, AfterCalls)
  BY DEF LoopCall
<1>2. /\ pc = "call" /\ mode = "loop" /\ admin \in BOOLEAN /\ round \in 0..MaxIterations
      /\ calls[next] \in Tool \cup {Unknown}
  BY ResponseShape DEF LoopCall, At, Inductive, TypeOK, Progress, Name
<1>3. o \in Outcome /\ Justified(o)
  <2>1. CASE calls[next] = Unknown
    <3>1. o = [rows |-> {}, runs |-> FALSE]
      BY <1>1, <2>1 DEF Executions
    <3>2. o \in Outcome /\ ~o.runs
      BY <3>1 DEF Outcome
    <3> QED
      BY <3>2 DEF Justified
  <2>2. CASE calls[next] # Unknown
    <3>1. Spec_of[calls[next]] \in ToolSpec
      BY <1>2, <2>2, ToolAssumption DEF ToolAssumption
    <3>2. o \in GatedCall(admin, Spec_of[calls[next]])
      BY <1>1, <2>2 DEF Executions
    <3>3. o \in Outcome /\ GateKept(admin, Spec_of[calls[next]], o)
      BY <1>2, <3>1, <3>2, GatedOutcome
    <3> QED
      BY <1>2, <3>3 DEF GateKept, Justified, NeedsApproval
  <2> QED
    BY <2>1, <2>2
<1>4. PICK p \in {"reason", "force"} : p = AfterCalls /\ (p = "reason" => round # MaxIterations)
  BY DEF AfterCalls
<1>5. p = "reason" => round < MaxIterations
  BY <1>2, <1>4, TurnAssumption DEF TurnAssumption
<1>6. frame' \in Frames /\ UNCHANGED <<config, chat, human, stored>>
  BY EmitTyped DEF LoopCall, Inductive, TypeOK, Frames
<1> QED
  BY <1>1, <1>2, <1>3, <1>4, <1>5, <1>6, ReplyKeeps

(* The graph: a call is held, sanctioned, or needs no approval; outside    *)
(* the bare mode it also goes through the gate.                            *)
LEMMA ActKeeps ==
  ASSUME Inductive, Act
  PROVE  Inductive'
<1>1. PICK o \in Outcomes(next) : Reply(next, Len(calls), o.rows, o.runs, "reason")
  BY DEF Act
<1>2. /\ pc = "act" /\ admin \in BOOLEAN /\ round < MaxIterations
      /\ DOMAIN calls = 1..Len(calls) /\ next \in 1..Len(calls)
      /\ calls[next] \in Tool \cup {Unknown}
      /\ \A i \in Pending : i \in held \/ This(i) \in sanctioned
  BY ResponseShape DEF Act, At, Inductive, TypeOK, Progress, Approvals, Name
<1>3. o \in Outcome /\ Justified(o)
  <2>1. CASE next \in held \/ calls[next] = Unknown
    <3>1. o = [rows |-> {}, runs |-> FALSE]
      BY <1>1, <2>1 DEF Outcomes
    <3>2. o \in Outcome /\ ~o.runs
      BY <3>1 DEF Outcome
    <3> QED
      BY <3>2 DEF Justified
  <2>2. CASE ~(next \in held \/ calls[next] = Unknown)
    <3>1. Spec_of[calls[next]] \in ToolSpec
      BY <1>2, <2>2, ToolAssumption DEF ToolAssumption
    <3>2. ~admin /\ NeedsApproval(calls[next]) => This(next) \in sanctioned
      BY <1>2, <2>2 DEF Pending
    <3>3. CASE mode = "bare"
      <4>1. o \in Handler(admin, Spec_of[calls[next]])
        BY <1>1, <2>2, <3>3 DEF Outcomes
      <4>2. o \in Outcome /\ (Spec_of[calls[next]].guarded => GateKept(admin, Spec_of[calls[next]], o))
        BY <1>2, <3>1, <4>1, HandlerOutcome
      <4> QED
        BY <3>2, <3>3, <4>2 DEF GateKept, Justified
    <3>4. CASE mode # "bare"
      <4>1. o \in GatedCall(admin, Spec_of[calls[next]])
        BY <1>1, <2>2, <3>4 DEF Outcomes
      <4>2. o \in Outcome /\ GateKept(admin, Spec_of[calls[next]], o)
        BY <1>2, <3>1, <4>1, GatedOutcome
      <4> QED
        BY <3>2, <4>2 DEF GateKept, Justified
    <3> QED
      BY <3>3, <3>4
  <2> QED
    BY <2>1, <2>2
<1>4. frame' \in Frames /\ UNCHANGED <<config, chat, human, stored>>
  BY DEF Act, stream, Inductive, TypeOK
<1> QED
  BY <1>1, <1>2, <1>3, <1>4, ReplyKeeps

LEMMA AgentStep ==
  ASSUME Inductive, [Next]_vars
  PROVE  Inductive'
<1>1. CASE UNCHANGED vars
  <2>1. UNCHANGED <<mode, admin, pc, round, calls, next, held, decision, text, asked, answered, ran,
                    audits, sanctioned, frame, stored>>
    BY <1>1 DEF vars, config, chat, work, human, stream
  <2>2. Ran' = Ran /\ Pending' = Pending
    BY <2>1 DEF Ran, Pending, NeedsApproval
  <2>3. TypeOK' /\ Progress' /\ Replies' /\ Approvals' /\ Past'
    BY <2>1, <2>2 DEF Inductive, TypeOK, Progress, Issued, Replies, This, Approvals, Past, RunAtMostOnce
  <2>4. NoUnsanctionedRun' /\ HighRiskAudited'
    BY <2>1, <2>2 DEF Inductive, NoUnsanctionedRun, NeedsApproval, HighRiskAudited, SpecOfCall
  <2> QED
    BY <2>3, <2>4 DEF Inductive
<1> QED
  BY <1>1, OuterKeeps, ReasonKeeps, LoopCallKeeps, ActKeeps, ApproveKeeps, ResumeKeeps
  DEF Next, TurnStep, LoopStep, GraphStep

LEMMA AgentInvariant == Spec => []Inductive
<1>1. Init => Inductive
  BY AgentInit
<1>2. Inductive /\ [Next]_vars => Inductive'
  BY AgentStep
<1> QED
  BY <1>1, <1>2, PTL DEF Spec

(* Every variable keeps its type: the rounds stay within the budget and    *)
(* every reply, audit row and approval is of a call the model asked for    *)
(* (runner.py, graph.py).                                                  *)
THEOREM TypeCorrect == Spec => []TypeOK
<1>1. Inductive => TypeOK
  BY DEF Inductive
<1> QED
  BY <1>1, AgentInvariant, PTL

(* For any tools and policy settings: the code of a tool that needs        *)
(* approval runs only for an admin or after a human approved that very     *)
(* call (graph.py:124, gate.py:63).                                        *)
THEOREM OnlySanctionedRun == Spec => []NoUnsanctionedRun
<1>1. Inductive => NoUnsanctionedRun
  BY DEF Inductive
<1> QED
  BY <1>1, AgentInvariant, PTL

(* For any tools: a high-risk tool behind the gate never runs without its  *)
(* audit row (gate.py:98).                                                 *)
THEOREM HighRiskAlwaysAudited == Spec => []HighRiskAudited
<1>1. Inductive => HighRiskAudited
  BY DEF Inductive
<1> QED
  BY <1>1, AgentInvariant, PTL

(* No call is executed twice, suspended and resumed or not (graph.py:124). *)
THEOREM EachRunsOnce == Spec => []RunAtMostOnce
<1>1. Inductive => RunAtMostOnce
  BY DEF Inductive, Past
<1> QED
  BY <1>1, AgentInvariant, PTL

(* The model is never asked again while one of its calls lacks a tool      *)
(* message (runner.py:261, graph.py:209).                                  *)
THEOREM RepliesAlwaysComplete == Spec => []RepliesComplete
<1>1. Inductive => RepliesComplete
  BY DEF Inductive, Replies, RepliesComplete
<1> QED
  BY <1>1, AgentInvariant, PTL

-----------------------------------------------------------------------------
(* The agent turn, under both loops, suspended and resumed or not, honours *)
(* the stream contract of AnswerStream.                                    *)

\* The last frame as the contract names it.
Shown == CASE frame = "tool_call" -> "step"
           [] frame = "approval_required" -> "suspended"
           [] OTHER -> frame

LEMMA ShownFrames ==
  /\ frame = "tool_call" => Shown = "step"
  /\ frame = "approval_required" => Shown = "suspended"
  /\ frame \in {"none", "meta", "delta", "done", "error", "cut"} => Shown = frame
BY DEF Shown

LEMMA ShownNext ==
  /\ frame' = "tool_call" => Shown' = "step"
  /\ frame' = "approval_required" => Shown' = "suspended"
  /\ frame' \in {"none", "meta", "delta", "done", "error", "cut"} => Shown' = frame'
  /\ frame' = frame => Shown' = Shown
BY DEF Shown

\* The frames of a turn that is still open, and of one whose graph was suspended.
Running == {"meta", "tool_call"}
Suspended == {"approval_required"}

\* Where the stream stands at each position, and whether the answer is stored.
Framed ==
    /\ pc \in {"setup", "open"} => frame = "none"
    /\ pc \in {"reason", "approve", "act", "finalize"} => frame \in Running \cup Suspended
    /\ pc \in {"call", "force", "stream"} => frame \in Running
    /\ pc \in {"waiting", "resumed"} => frame \in Suspended
    /\ pc \in {"persist", "trace"} => frame \in Running \cup {"delta"}
    /\ pc = "failing" => frame \in Running \cup {"none", "delta"}
    /\ pc = "trace" => stored
    /\ pc \notin {"trace", "closed"} => ~stored
    /\ mode = "loop" => frame \notin Suspended

Mapped == [Contract!Next]_Contract!streamVars

LEMMA StutterMapped ==
  ASSUME Shown' = Shown, stored' = stored
  PROVE  Mapped
BY DEF Mapped, Shown, Contract!streamVars

\* One frame is sent: it is among those the contract allows after the last one.
LEMMA EmitMapped ==
  ASSUME stored' = stored,
         \/ Shown = "none" /\ Shown' = "meta"
         \/ Shown = "meta" /\ Shown' = "step"
         \/ ~stored /\ Shown \in {"meta", "step"} /\ Shown' \in {"delta", "suspended"}
         \/ stored /\ Shown \in {"meta", "step", "delta"} /\ Shown' = "done"
         \/ ~stored /\ Shown \in {"none", "meta", "step", "delta"} /\ Shown' = "error"
         \/ Shown \in {"none", "meta", "step", "delta", "suspended"} /\ Shown' = "cut"
  PROVE  Mapped
<1>1. ASSUME NEW before, Shown \in before, NEW f, Shown' = f
      PROVE  Contract!Emit(1, before, f)
  BY <1>1 DEF Contract!Emit, Shown
<1>2. CASE Shown = "none" /\ Shown' = "meta"
  BY <1>1, <1>2 DEF Mapped, Contract!Next, Contract!Meta
<1>3. CASE Shown = "meta" /\ Shown' = "step"
  BY <1>1, <1>3 DEF Mapped, Contract!Next, Contract!Step
<1>4. CASE ~stored /\ Shown \in {"meta", "step"} /\ Shown' = "delta"
  BY <1>1, <1>4 DEF Mapped, Contract!Next, Contract!Delta
<1>5. CASE ~stored /\ Shown \in {"meta", "step"} /\ Shown' = "suspended"
  BY <1>1, <1>5 DEF Mapped, Contract!Next, Contract!Suspend
<1>6. CASE stored /\ Shown \in {"meta", "step", "delta"} /\ Shown' = "done"
  BY <1>1, <1>6 DEF Mapped, Contract!Next, Contract!Done
<1>7. CASE ~stored /\ Shown \in {"none", "meta", "step", "delta"} /\ Shown' = "error"
  BY <1>1, <1>7 DEF Mapped, Contract!Next, Contract!Fail, Contract!Frame, Contract!Closing
<1>8. CASE Shown \in {"none", "meta", "step", "delta", "suspended"} /\ Shown' = "cut"
  BY <1>1, <1>8 DEF Mapped, Contract!Next, Contract!Cut, Contract!Frame, Contract!Closing
<1> QED
  BY <1>2, <1>3, <1>4, <1>5, <1>6, <1>7, <1>8

LEMMA StoreMapped ==
  ASSUME ~stored, stored' = TRUE, Shown' = Shown, Shown \in {"meta", "step", "delta"}
  PROVE  Mapped
BY DEF Mapped, Contract!Next, Contract!Store, Shown

LEMMA FramedInit ==
  ASSUME Init
  PROVE  Framed /\ Contract!Init
<1>1. Framed
  BY DEF Init, Framed, Suspended
<1>2. Contract!Init
  BY DEF Init, Contract!Init
<1> QED
  BY <1>1, <1>2
-----------------------------------------------------------------------------
(* One lemma per kind of step: it keeps Framed and is a contract step.     *)

\* A step that sends nothing and stores nothing.
LEMMA SilentStep ==
  ASSUME UNCHANGED stream
  PROVE  Mapped
BY ShownNext, StutterMapped DEF stream

LEMMA RaiseFramed ==
  ASSUME Framed, Raise, UNCHANGED <<config, stream>>, pc \in {"open", "reason"}
  PROVE  Framed' /\ Mapped
<1>1. /\ UNCHANGED <<mode, frame, stored>>
      /\ pc' = IF frame = "approval_required" THEN "resumed" ELSE "failing"
  BY DEF config, stream, Raise, Resumed, Goto
<1>2. Framed'
  BY <1>1 DEF Framed, Running, Suspended
<1> QED
  BY <1>2, SilentStep

\* Steps from one open position to another that send nothing.
LEMMA SilentFramed ==
  ASSUME Inductive, Framed,
         Setup \/ Resume \/ Approve \/ Act \/ ForceFinalize
  PROVE  Framed' /\ Mapped
<1>1. UNCHANGED stream /\ UNCHANGED <<mode, frame, stored>>
  BY DEF Setup, Resume, Approve, Act, ForceFinalize, stream, config
<1>2. CASE Setup
  BY <1>1, <1>2, SilentStep DEF Setup, At, Goto, Framed, Running
<1>3. CASE Resume
  BY <1>1, <1>3, SilentStep DEF Resume, At, Goto, Framed, Running
<1>4. CASE Approve
  BY <1>1, <1>4, SilentStep DEF Approve, Approving, At, Goto, Framed, Running
<1>5. CASE Act
  <2>1. pc = "act" /\ pc' \in {"act", "reason"}
    BY <1>5 DEF Act, At, Reply, Goto
  <2> QED
    BY <1>1, <2>1, SilentStep DEF Framed, Running
<1>6. CASE ForceFinalize
  BY <1>1, <1>6, SilentStep DEF ForceFinalize, At, Goto, Framed, Running
<1> QED
  BY <1>2, <1>3, <1>4, <1>5, <1>6

LEMMA OpenFramed ==
  ASSUME Framed, Open
  PROVE  Framed' /\ Mapped
<1>1. CASE pc' = "reason" /\ Emit("meta")
  <2>1. /\ pc = "open" /\ frame = "none" /\ frame' = "meta" /\ ~stored
        /\ UNCHANGED <<mode, stored>>
    BY <1>1 DEF Open, At, Framed, Emit, Resumed, config
  <2>2. Framed'
    BY <1>1, <2>1 DEF Framed, Running, Suspended
  <2> QED
    BY <2>1, <2>2, ShownFrames, ShownNext, EmitMapped
<1>2. CASE Raise /\ UNCHANGED frame
  BY <1>2, RaiseFramed DEF Open, At, stream
<1> QED
  BY <1>1, <1>2 DEF Open, Goto

LEMMA ReportFramed ==
  ASSUME Framed, ~stored, UNCHANGED <<mode, stored>>, Emit("tool_call"),
         frame \in Running \cup Suspended
  PROVE  /\ Mapped
         /\ frame \in Running => frame' = "tool_call"
         /\ frame \in Suspended => frame' = frame
<1>1. CASE frame \in Suspended
  BY <1>1, ShownNext, StutterMapped DEF Emit, Resumed, Suspended, Running
<1>2. CASE frame = "meta"
  BY <1>2, ShownFrames, ShownNext, EmitMapped DEF Emit, Resumed, Suspended, Running
<1>3. CASE frame = "tool_call"
  BY <1>3, ShownNext, StutterMapped DEF Emit, Resumed, Suspended, Running
<1> QED
  BY <1>1, <1>2, <1>3 DEF Running

LEMMA ReasonFramed ==
  ASSUME Inductive, Framed, LoopReason \/ GraphReason
  PROVE  Framed' /\ Mapped
<1>1. pc = "reason" /\ ~stored /\ UNCHANGED <<mode, stored>> /\ frame \in Running \cup Suspended
  BY DEF LoopReason, GraphReason, At, config, stream, Framed
<1>2. CASE Raise /\ UNCHANGED stream
  BY <1>1, <1>2, RaiseFramed DEF LoopReason, GraphReason
<1>3. CASE mode = "loop" /\ UNCHANGED stream /\ pc' \in {"stream", "call"}
  BY <1>1, <1>3, SilentStep DEF stream, Framed, Running, Suspended
<1>4. CASE pc' \in {"finalize", "approve"} /\ Emit("tool_call")
  <2>1. Mapped /\ frame' \in Running \cup Suspended /\ (mode = "loop" => frame' \notin Suspended)
    BY <1>1, <1>4, ReportFramed DEF Framed, Running, Suspended
  <2> QED
    BY <1>1, <1>4, <2>1 DEF Framed, Running, Suspended
<1>5. CASE pc' \in {"finalize", "approve"} /\ UNCHANGED stream
  BY <1>1, <1>5, SilentStep DEF stream, Framed, Running, Suspended
<1>6. CASE LoopReason
  BY <1>2, <1>3, <1>6 DEF LoopReason, Respond, Goto
<1>7. CASE GraphReason
  BY <1>2, <1>4, <1>5, <1>7 DEF GraphReason, Respond, Route, Goto, stream
<1> QED
  BY <1>6, <1>7

LEMMA CallFramed ==
  ASSUME Inductive, Framed, LoopCall
  PROVE  Framed' /\ Mapped
<1>1. /\ pc = "call" /\ pc' \in {"call", "reason", "force"} /\ UNCHANGED <<mode, stored>>
      /\ frame \in Running /\ ~stored /\ Emit("tool_call")
  BY DEF LoopCall, At, Reply, AfterCalls, Goto, config, Framed
<1>2. Mapped /\ frame' = "tool_call"
  BY <1>1, ReportFramed
<1> QED
  BY <1>1, <1>2 DEF Framed, Running, Suspended

LEMMA SuspendFramed ==
  ASSUME Framed, Suspend
  PROVE  Framed' /\ Mapped
<1>1. /\ pc = "approve" /\ pc' = "waiting" /\ frame \in Running \cup Suspended /\ ~stored
      /\ UNCHANGED <<mode, stored>> /\ frame' = "approval_required" /\ mode # "loop"
  BY DEF Suspend, Interrupts, At, Goto, Emit, Resumed, config, Framed
<1>2. Framed'
  BY <1>1 DEF Framed, Suspended
<1>3. CASE frame = "approval_required"
  BY <1>1, <1>2, <1>3, ShownNext, StutterMapped
<1>4. CASE frame \in Running
  BY <1>1, <1>2, <1>4, ShownFrames, ShownNext, EmitMapped DEF Running
<1> QED
  BY <1>1, <1>3, <1>4 DEF Suspended

LEMMA AnswerFramed ==
  ASSUME Framed, StreamFinal \/ Finalize
  PROVE  Framed' /\ Mapped
<1>1. /\ ~stored /\ UNCHANGED <<mode, stored>> /\ frame \in Running \cup Suspended
      /\ frame \in Suspended => frame' = frame /\ pc' = "resumed"
      /\ frame \in Running => frame' \in {frame, "delta"} /\ pc' = "persist"
  BY DEF StreamFinal, Finalize, At, Goto, Emit, Resumed, config, Framed, Running, Suspended
<1>2. Framed'
  BY <1>1 DEF Framed, Running, Suspended
<1>3. CASE frame' = frame
  BY <1>1, <1>2, <1>3, ShownNext, StutterMapped
<1>4. CASE frame \in Running /\ frame' = "delta"
  BY <1>1, <1>2, <1>4, ShownFrames, ShownNext, EmitMapped DEF Running
<1> QED
  BY <1>1, <1>3, <1>4

LEMMA PersistFramed ==
  ASSUME Framed, Persist
  PROVE  Framed' /\ Mapped
<1>1. /\ ~stored /\ UNCHANGED <<mode, frame>> /\ frame \in Running \cup {"delta"}
      /\ \/ pc' = "trace" /\ stored' = TRUE
         \/ pc' = "failing" /\ stored' = stored
  BY DEF Persist, At, Goto, config, Framed
<1>2. Framed'
  BY <1>1 DEF Framed, Running, Suspended
<1>3. Mapped
  BY <1>1, ShownFrames, ShownNext, StutterMapped, StoreMapped DEF Running
<1> QED
  BY <1>2, <1>3

LEMMA EndFramed ==
  ASSUME Inductive, Framed, Close \/ Fail \/ Cut
  PROVE  Framed' /\ Mapped
<1>1. UNCHANGED <<mode, stored>> /\ pc' = "closed"
  BY DEF Close, Fail, Cut, Goto, config
<1>2. CASE Close
  <2>1. stored /\ frame \in Running \cup {"delta"} /\ frame' = "done"
    BY <1>2 DEF Close, At, Emit, Resumed, Framed, Running
  <2>2. Shown \in {"meta", "step", "delta"} /\ Shown' = "done"
    BY <2>1, ShownFrames, ShownNext DEF Running
  <2> QED
    BY <1>1, <2>1, <2>2, EmitMapped DEF Framed, Suspended
<1>3. CASE Fail
  <2>1. ~stored /\ frame \in Running \cup {"none", "delta"} /\ frame' = "error"
    BY <1>3 DEF Fail, At, Emit, Resumed, Framed, Running
  <2>2. Shown \in {"none", "meta", "step", "delta"} /\ Shown' = "error"
    BY <2>1, ShownFrames, ShownNext DEF Running
  <2> QED
    BY <1>1, <2>1, <2>2, EmitMapped DEF Framed, Suspended
<1>4. CASE Cut
  <2>1. pc \in PC /\ pc \notin Over /\ frame' = "cut"
    BY <1>4 DEF Cut, Inductive, TypeOK
  <2>2. frame \in {"none", "meta", "tool_call", "delta", "approval_required"}
    BY <2>1 DEF Framed, PC, Over, Running, Suspended
  <2>3. Shown \in {"none", "meta", "step", "delta", "suspended"} /\ Shown' = "cut"
    BY <2>1, <2>2, ShownFrames, ShownNext
  <2> QED
    BY <1>1, <2>1, <2>3, EmitMapped DEF Framed, Suspended
<1> QED
  BY <1>2, <1>3, <1>4

-----------------------------------------------------------------------------
LEMMA FramedNext ==
  ASSUME Inductive, Framed, [Next]_vars
  PROVE  Framed' /\ Mapped
<1>1. CASE UNCHANGED vars
  <2>1. UNCHANGED <<pc, mode, frame, stored>>
    BY <1>1 DEF vars, config, stream
  <2> QED
    BY <2>1, SilentStep DEF Framed, stream
<1> QED
  BY <1>1, SilentFramed, OpenFramed, ReasonFramed, CallFramed, SuspendFramed, AnswerFramed,
     PersistFramed, EndFramed
  DEF Next, TurnStep, LoopStep, GraphStep

(* Whatever the tools, the budget and the policy: the stream of an agent   *)
(* turn is one AnswerStream allows; done comes only over a stored answer,  *)
(* an error or a suspension only when nothing is stored (runner.py:137).   *)
THEOREM StreamHonoured == Spec => HonoursContract
<1>1. Init => Framed /\ Contract!Init
  BY FramedInit
<1>2. Inductive /\ Framed /\ [Next]_vars => Framed' /\ [Contract!Next]_Contract!streamVars
  BY FramedNext DEF Mapped
<1> QED
  BY <1>1, <1>2, AgentInvariant, PTL DEF Spec, HonoursContract, Contract!Spec
=============================================================================
