----------------------------- MODULE TriageGraph -----------------------------
(***************************************************************************)
(* agents.triage_graph.TriageGraph: the nodes that explain one remediation *)
(* task and end at the human approval gate.  run() summarises the task     *)
(* with the configured provider; run_with_client_ai() validates an answer  *)
(* the client's own AI gave.  Every node is one step; what a provider, a   *)
(* validator or the retrieval does is a choice among the outcomes the code *)
(* tells apart.  Runs follow each other on one TraceService.               *)
(***************************************************************************)
EXTENDS TraceService

CONSTANTS
    MAX_TRIAGE_EVIDENCE_CHUNKS,
    Actions,          \* values of patch_plan.recommended_action
    RiskyActions,     \* RISKY_REMEDIATION_ACTIONS
    MaxRuns           \* bound of the model on the number of runs

ASSUME TriageAssumption ==
    /\ MAX_TRIAGE_EVIDENCE_CHUNKS \in Nat
    /\ RiskyActions \subseteq Actions
    /\ MaxRuns \in Nat

\* What the gate reads of a remediation task.
Tasks == [human_approval_required : BOOLEAN, recommended_action : Actions,
          has_target_version : BOOLEAN]

\* HumanApprovalDecision.status; any other text counts as no approval.
Decisions == {"none", "approved", "rejected", "other"}

VARIABLES
    runs,             \* how many runs were started
    pc,               \* the node to run next
    task,             \* state.remediation_task
    decision,         \* human_decision
    offered,          \* how many evidence chunks the caller passed
    evidence,         \* how many state.evidence_chunks holds
    has_patch,        \* state.patch is not None
    status,           \* state.status
    approved,         \* state.approved
    blocked_reasons,  \* state.blocked_reasons
    node_results      \* state.node_results, as <<node, validation status>>

input == <<runs, task, decision, offered, evidence>>
vars == <<input, pc, has_patch, status, approved, blocked_reasons, node_results,
          traceVars>>

Running == pc \notin {"idle", "done"}

-----------------------------------------------------------------------------
\* Mutant: the limit itself is compared with >.
BoundedOffByOne(n) == n <= MAX_TRIAGE_EVIDENCE_CHUNKS + 1

\* bounded_evidence_chunks: all chunks fit in the state.
Bounded(n) == n <= MAX_TRIAGE_EVIDENCE_CHUNKS

StartRun ==
    /\ ~ Running
    /\ runs < MaxRuns
    /\ runs' = runs + 1
    /\ task' \in Tasks
    /\ decision' \in Decisions
    /\ offered' \in 0 .. MAX_TRIAGE_EVIDENCE_CHUNKS + 1
    /\ evidence' = IF Bounded(offered') THEN offered' ELSE 0
    /\ IF Bounded(offered') THEN pc' \in {"repo_context", "ai_context_bundle"}
                            ELSE pc' = "evidence_limit"
    /\ has_patch' = FALSE
    /\ status' = "pending"
    /\ approved' = FALSE
    /\ blocked_reasons' = <<>>
    /\ node_results' = <<>>
    /\ UNCHANGED traceVars

NodeEvent(node, validation) == [event |-> node, validation |-> validation]

\* record_node: the result, and the event agent.node.<node>.
RecordNode(node, validation) ==
    /\ node_results' = Append(node_results, <<node, validation>>)
    /\ RecordEvent(NodeEvent(node, validation))

\* A node that records an event of its own before record_node.
RecordNodeAfter(event, node, validation) ==
    /\ node_results' = Append(node_results, <<node, validation>>)
    /\ RecordTwoEvents(NodeEvent(event, validation), NodeEvent(node, validation))

\* Mutant: a node blocks the state but adds no reason.
BlockWithoutReason(reason) ==
    /\ status' = "blocked"
    /\ approved' = FALSE
    /\ UNCHANGED blocked_reasons

Block(reason) ==
    /\ status' = "blocked"
    /\ approved' = FALSE
    /\ blocked_reasons' = Append(blocked_reasons, reason)

\* if blocked: state.status = BLOCKED, approved = False, a reason is added.
BlockIf(blocked, reason) ==
    IF blocked THEN Block(reason) ELSE UNCHANGED <<status, approved, blocked_reasons>>

ValidationStatus(blocked) == IF blocked THEN "blocked" ELSE "passed"

EvidenceLimitNode ==
    /\ pc = "evidence_limit"
    /\ Block("evidence limit")
    /\ RecordNode("evidence_limit", "blocked")
    /\ pc' = "done"
    /\ UNCHANGED <<input, has_patch>>

\* repo_context_node, vulnerability_triage_node and reachability_node only
\* explain; patch_node sets state.patch.
ExplanationNode(node, next) ==
    /\ pc = node
    /\ RecordNode(node, "passed")
    /\ has_patch' = (has_patch \/ node = "patch")
    /\ pc' = next
    /\ UNCHANGED <<input, status, approved, blocked_reasons>>

\* Mutant: what building the summary request raises leaves the run.
SetupErrorEscapes ==
    /\ pc = "citation_verification"
    /\ pc' = "idle"
    /\ UNCHANGED <<input, has_patch, status, approved, blocked_reasons, node_results,
                   traceVars>>

\* The summary cannot be requested at all: blocked, and only the node's event.
CitationSetupFails ==
    /\ pc = "citation_verification"
    /\ Block("summary blocked")
    /\ RecordNode("citation_verification", "blocked")
    /\ pc' = "human_approval"
    /\ UNCHANGED <<input, has_patch>>

\* AISummaryService answers: a provider that fails counts as blocked.
CitationVerificationNode ==
    /\ pc = "citation_verification"
    /\ \E blocked \in BOOLEAN :
         /\ BlockIf(blocked, "summary blocked")
         /\ RecordNodeAfter("ai.finding_summary", "citation_verification",
                            ValidationStatus(blocked))
    /\ pc' = "human_approval"
    /\ UNCHANGED <<input, has_patch>>

AIContextBundleNode ==
    /\ pc = "ai_context_bundle"
    /\ RecordNodeAfter("ai.context_bundle", "ai_context_bundle", "passed")
    /\ pc' = "client_ai_validation"
    /\ UNCHANGED <<input, has_patch, status, approved, blocked_reasons>>

ClientAIValidationNode ==
    /\ pc = "client_ai_validation"
    /\ \E blocked \in BOOLEAN :
         /\ BlockIf(blocked, "client output blocked")
         /\ RecordNodeAfter("ai.output_validation", "client_ai_validation",
                            ValidationStatus(blocked))
    /\ pc' = "human_approval"
    /\ UNCHANGED <<input, has_patch>>

\* run_client_ai_node catches whatever its node raises: client_ai_error_node.
ClientAIErrorNode ==
    /\ pc \in {"ai_context_bundle", "client_ai_validation"}
    /\ Block("client orchestration failed")
    /\ RecordNode(pc, "blocked")
    /\ pc' = "human_approval"
    /\ UNCHANGED <<input, has_patch>>

\* Mutant: without a patch explanation nothing risky is assumed.
RequiredOnlyWithPatch ==
    \/ task.human_approval_required
    \/ has_patch /\ task.recommended_action \in RiskyActions
    \/ has_patch /\ task.has_target_version

\* human_approval_required
HumanApprovalRequired ==
    \/ task.human_approval_required
    \/ ~ has_patch
    \/ task.recommended_action \in RiskyActions
    \/ task.has_target_version

\* The verdict of the gate; it reads the reasons, not the status.
GateStatus ==
    IF blocked_reasons # <<>> \/ decision = "rejected" THEN "blocked"
    ELSE IF HumanApprovalRequired /\ decision # "approved" THEN "awaiting_human_approval"
    ELSE "approved"

\* Mutant: a human's approval is looked at before the reasons to block.
DecisionBeforeReasons ==
    /\ pc = "human_approval"
    /\ status' = IF decision = "approved" THEN "approved" ELSE GateStatus
    /\ approved' = (decision = "approved")
    /\ UNCHANGED blocked_reasons
    /\ RecordNode("human_approval", ValidationStatus(status' = "blocked"))
    /\ pc' = "done"
    /\ UNCHANGED <<input, has_patch>>

HumanApprovalNode ==
    /\ pc = "human_approval"
    /\ status' = GateStatus
    /\ approved' = (GateStatus = "approved" /\ decision = "approved")
    /\ blocked_reasons' = IF blocked_reasons = <<>> /\ decision = "rejected"
                          THEN <<"rejected">> ELSE blocked_reasons
    /\ RecordNode("human_approval", ValidationStatus(GateStatus = "blocked"))
    /\ pc' = "done"
    /\ UNCHANGED <<input, has_patch>>

Init ==
    /\ runs = 0
    /\ pc = "idle"
    /\ task \in Tasks
    /\ decision = "none"
    /\ offered = 0 /\ evidence = 0
    /\ has_patch = FALSE
    /\ status = "pending"
    /\ approved = FALSE
    /\ blocked_reasons = <<>>
    /\ node_results = <<>>
    /\ InitTrace

Node ==
    \/ EvidenceLimitNode
    \/ ExplanationNode("repo_context", "vulnerability_triage")
    \/ ExplanationNode("vulnerability_triage", "reachability")
    \/ ExplanationNode("reachability", "patch")
    \/ ExplanationNode("patch", "citation_verification")
    \/ CitationSetupFails \/ CitationVerificationNode
    \/ AIContextBundleNode \/ ClientAIValidationNode \/ ClientAIErrorNode
    \/ HumanApprovalNode

\* TraceService.clear, between runs.
Clear ==
    /\ ~ Running
    /\ ClearTrace
    /\ UNCHANGED <<input, pc, has_patch, status, approved, blocked_reasons, node_results>>

Next == StartRun \/ Node \/ Clear

Spec == Init /\ [][Next]_vars

\* The nodes are plain synchronous calls: a run that started goes on.
FairSpec == Spec /\ WF_vars(Node)

-----------------------------------------------------------------------------
(* Properties *)

Nodes == {"repo_context", "vulnerability_triage", "reachability", "patch",
          "citation_verification", "ai_context_bundle", "client_ai_validation",
          "evidence_limit", "human_approval"}

Reasons == {"evidence limit", "summary blocked", "client output blocked",
            "client orchestration failed", "rejected"}

\* Every variable holds a value of its kind; the evidence is within its limit.
TypeOK ==
    /\ runs \in 0 .. MaxRuns
    /\ pc \in Nodes \union {"idle", "done"}
    /\ task \in Tasks
    /\ decision \in Decisions
    /\ offered \in 0 .. MAX_TRIAGE_EVIDENCE_CHUNKS + 1
    /\ evidence \in 0 .. MAX_TRIAGE_EVIDENCE_CHUNKS
    /\ has_patch \in BOOLEAN
    /\ status \in {"pending", "blocked", "awaiting_human_approval", "approved"}
    /\ approved \in BOOLEAN
    /\ blocked_reasons \in Seq(Reasons)
    /\ node_results \in Seq(Nodes \X {"passed", "blocked"})

\* Nothing risky, and nothing whose patch plan the run did not look at, comes
\* out approved unless a human approved it and no node blocked.
RiskyNeedsHuman ==
    /\ approved => decision = "approved" /\ status = "approved"
    /\ (status = "approved" /\ (\/ task.human_approval_required
                                \/ task.recommended_action \in RiskyActions
                                \/ task.has_target_version
                                \/ \A i \in DOMAIN node_results :
                                     node_results[i][1] # "patch"))
         => decision = "approved"

\* The workflow fails closed: a run ends blocked exactly when a node of it
\* blocked or a human rejected it, and then it says why.
FailsClosed ==
    pc = "done" =>
      /\ status = "blocked" <=>
           \/ \E i \in DOMAIN node_results :
                node_results[i][1] # "human_approval" /\ node_results[i][2] = "blocked"
           \/ decision = "rejected"
           \/ offered > MAX_TRIAGE_EVIDENCE_CHUNKS
      /\ status = "blocked" <=> blocked_reasons # <<>>

\* Within a run no later node, and no human approval, undoes a block.
BlockedStays ==
    [][Running /\ status = "blocked" => status' = "blocked" /\ ~ approved']_vars

\* Every run comes to an end, with no decision as with one.
RunsEnd == Running ~> pc = "done"
=============================================================================
