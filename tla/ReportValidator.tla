--------------------------- MODULE ReportValidator ---------------------------
(***************************************************************************)
(* eval/report_validator.py: what the quality gate of a public report says *)
(* of its remediation tasks.  It reads versions with code of its own, and  *)
(* refuses some that the planner reads: 1.2.3-rc_1, or 1_0.0.0, which      *)
(* int() takes for 10.0.0.  The schema, forbidden keys and texts are left  *)
(* out.                                                                    *)
(***************************************************************************)
EXTENDS VulnerabilityNormalizer, RiskScoring

CONSTANT OddlyWritten    \* versions that parse_version refuses

ASSUME OddlyWrittenAssumption == OddlyWritten \subseteq Versions

\* parse_version of what it does not refuse: any number of parts, at least
\* three after padding.
Release(v) == [i \in 1 .. (IF Len(v.parts) < 3 THEN 3 ELSE Len(v.parts)) |->
                 IF i <= Len(v.parts) THEN v.parts[i] ELSE 0]

\* compare_versions and compare_prerelease
OlderVersion(v, w) ==
    \/ DigitsBefore(Release(v), Release(w))
    \/ /\ Release(v) = Release(w)
       /\ v.pre # <<>>
       /\ w.pre = <<>> \/ DigitsBefore(v.pre, w.pre)

\* is_downgrade: a version that is refused is older than none.
IsDowngrade(current, target) ==
    /\ {current, target} \intersect ({None} \union OddlyWritten) = {}
    /\ OlderVersion(target, current)

\* non_review_patch_target_findings, by their codes
NonReviewFindings(target) ==
    IF target = None THEN {"missing_fix_or_target_version"}
    ELSE IF target \in OddlyWritten THEN {"invalid_patch_target_version"}
    ELSE {}

\* task_quality_findings, by their codes
TaskQualityFindings(task) ==
    (IF IsDowngrade(task.version, task.target) THEN {"downgrade_patch_target"} ELSE {})
    \union (IF task.rank # NEEDS_HUMAN_REVIEW THEN NonReviewFindings(task.target) ELSE {})

\* duplicate_task_findings: two tasks taken for one.
DuplicateTasks(t, u) ==
    /\ t.name = u.name /\ t.ecosystem = u.ecosystem /\ t.version = u.version
    /\ Identity(t) \intersect Identity(u) # {}
=============================================================================
