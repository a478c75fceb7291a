---------------------------- MODULE RiskScoring -----------------------------
(***************************************************************************)
(* risk_scoring.py: the score and the priority of a finding.  Factors and  *)
(* weights are in hundredths; priorities are their ranks in PRIORITY_ORDER *)
(* of scan_service.  Of the values RiskInput may have these are the ones a *)
(* scan gives it: no EPSS score, and services of medium criticality.       *)
(***************************************************************************)
EXTENDS Naturals

\* PRIORITY_ORDER
P0_RELEASE_BLOCKER == 0
P1_FIX_THIS_SPRINT == 1
NEEDS_HUMAN_REVIEW == 2
P2_SCHEDULE_SOON == 3
P3_MONITOR_DEFER == 4

SeverityScore ==
    [CRITICAL |-> 100, HIGH |-> 78, MEDIUM |-> 48, MODERATE |-> 48, LOW |-> 22, UNKNOWN |-> 12]

RuntimeScopeScore == [production |-> 100, development |-> 12, unknown |-> 35]

ReachabilityScore == [possibly_reachable |-> 68, unlikely_reachable |-> 10, unknown |-> 35]

WeightedScore(risk_input) ==
    20 * SeverityScore[risk_input.severity]
    + 15 * 20
    + 15 * (IF risk_input.known_exploited THEN 100 ELSE 0)
    + 15 * RuntimeScopeScore[risk_input.runtime_scope]
    + 15 * ReachabilityScore[risk_input.reachability]
    + 10 * (IF risk_input.is_direct THEN 100 ELSE 45)
    + 5 * (IF risk_input.fix_available THEN 100 ELSE 15)
    + 5 * 55

\* round() of the sum in floating point, which for 55.50 is a little less.
RiskScore(risk_input) ==
    LET sum == WeightedScore(risk_input)
    IN IF sum = 5550 THEN 55 ELSE (sum + 50) \div 100

Severe(severity) == severity \in {"CRITICAL", "HIGH"}

\* A development dependency that nothing in production can reach.
DevelopmentOnly(risk_input) ==
    /\ risk_input.dependency_type = "devDependency"
    /\ ~ risk_input.known_exploited
    /\ risk_input.runtime_scope = "development"
    /\ risk_input.reachability = "unlikely_reachable"

Undecidable(risk_input) ==
    \/ /\ ~ risk_input.fix_available
       /\ Severe(risk_input.severity)
       /\ risk_input.runtime_scope = "production"
    \/ /\ risk_input.reachability = "unknown"
       /\ risk_input.severity = "CRITICAL"
       /\ risk_input.runtime_scope \in {"production", "unknown"}

BlocksRelease(score, risk_input) ==
    /\ Severe(risk_input.severity)
    /\ risk_input.runtime_scope = "production"
    /\ risk_input.reachability = "possibly_reachable"
    /\ risk_input.fix_available
    /\ score >= 60

AssignPriority(score, risk_input) ==
    IF DevelopmentOnly(risk_input) THEN P3_MONITOR_DEFER
    ELSE IF risk_input.known_exploited /\ risk_input.runtime_scope = "production"
    THEN P0_RELEASE_BLOCKER
    ELSE IF Undecidable(risk_input) THEN NEEDS_HUMAN_REVIEW
    ELSE IF BlocksRelease(score, risk_input) THEN P0_RELEASE_BLOCKER
    ELSE IF score >= 65 THEN P1_FIX_THIS_SPRINT
    ELSE IF score >= 40 THEN P2_SCHEDULE_SOON
    ELSE P3_MONITOR_DEFER

\* score_risk
ScoreRisk(risk_input) ==
    LET score == RiskScore(risk_input)
    IN [rank |-> AssignPriority(score, risk_input), score |-> score]
=============================================================================
