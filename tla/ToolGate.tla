------------------------------ MODULE ToolGate ------------------------------
(***************************************************************************)
(* PolicyEngine.evaluate, the audit of a decision and the gate that every  *)
(* tool call is meant to pass: evaluate, audit, then refuse or execute.    *)
(* A handler's result, and an exception it raises, become text for the     *)
(* model; only whether the handler ran is kept.                            *)
(***************************************************************************)
EXTENDS Naturals, FiniteSets

CONSTANTS
    Tool,               \* the tools bound to the model
    Unknown,            \* a name the model made up
    Spec_of,            \* Tool -> ToolSpec
    HighNeedsApproval,  \* RAG_POLICY_HIGH_RISK_REQUIRES_APPROVAL
    DenyHigh            \* RAG_POLICY_DEFAULT_DENY_HIGH_RISK

\* guarded: the handler is itself wrapped in the gate (make_guarded_handler, the business tools).
ToolSpec == [risk : {"low", "medium", "high"}, approval : BOOLEAN, guarded : BOOLEAN]

ASSUME ToolAssumption ==
    /\ Unknown \notin Tool
    /\ Spec_of \in [Tool -> ToolSpec]
    /\ HighNeedsApproval \in BOOLEAN
    /\ DenyHigh \in BOOLEAN

Label == {"approval_required", "allowed", "denied"}
Decision == [allowed : BOOLEAN, risk : {"low", "medium", "high"}, approval : BOOLEAN]

\* build_tools: search, list and answer_directly are plain low-risk tools.
BuiltinSpec == [risk |-> "low", approval |-> FALSE, guarded |-> FALSE]
\* build_business_tools: a medium-risk lookup and a high-risk provision, both guarded.
LookupSpec == [risk |-> "medium", approval |-> FALSE, guarded |-> TRUE]
ProvisionSpec == [risk |-> "high", approval |-> TRUE, guarded |-> TRUE]

Evaluate(admin, spec) ==
    LET highAsks == spec.risk = "high" /\ ~admin /\ HighNeedsApproval
        highDeny == spec.risk = "high" /\ ~admin /\ ~HighNeedsApproval /\ DenyHigh
        asks     == highAsks \/ (~highDeny /\ spec.approval /\ ~admin)
    IN [allowed |-> ~asks /\ ~highDeny, risk |-> spec.risk, approval |-> asks]

DecisionLabel(d) ==
    IF d.approval THEN "approval_required" ELSE IF d.allowed THEN "allowed" ELSE "denied"

NeedsAudit(d) == d.risk # "low" \/ ~d.allowed

\* record_audit: the row is written, or the failure is swallowed and reported as FALSE.
RecordAudit(d) == {[ok |-> TRUE, rows |-> {DecisionLabel(d)}], [ok |-> FALSE, rows |-> {}]}

\* Mutant: the audit of an allowed high-risk action is best effort too.
PassesOpen(d, audited) == d.allowed
\* An allowed high-risk action whose audit could not be written is blocked.
Passes(d, audited) == d.allowed /\ (audited \/ d.risk # "high")

\* execute_with_policy: the rows written and whether the call goes on to the handler.
Gate(admin, spec) ==
    LET d == Evaluate(admin, spec)
        audits == IF NeedsAudit(d) THEN RecordAudit(d) ELSE {[ok |-> TRUE, rows |-> {}]}
    IN {[rows |-> a.rows, runs |-> Passes(d, a.ok)] : a \in audits}

\* invoke_spec_handler: the handler runs, through the gate once more when it is guarded.
Handler(admin, spec) ==
    IF spec.guarded THEN Gate(admin, spec) ELSE {[rows |-> {}, runs |-> TRUE]}

Refusal(g) == [rows |-> g.rows, runs |-> FALSE]
\* A call through the gate: what it may write and whether the tool's own code runs.
GatedCall(admin, spec) ==
    UNION {IF g.runs THEN {[rows |-> g.rows \cup h.rows, runs |-> h.runs] : h \in Handler(admin, spec)}
           ELSE {Refusal(g)} : g \in Gate(admin, spec)}
=============================================================================
