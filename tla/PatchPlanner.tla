---------------------------- MODULE PatchPlanner ----------------------------
(***************************************************************************)
(* patch_planner.py: the version a vulnerable dependency is to be upgraded *)
(* to, and how.  A pre-release identifier is a number, those that are not  *)
(* numeric above all that are.  Steps, tests and texts are left out.       *)
(***************************************************************************)
EXTENDS DependencyParser

\* semver_version: three parts, or it is no semantic version.
IsSemver(v) == v # None /\ Len(v.parts) = 3

\* compare_semver: a release is above its pre-releases.
SemverBefore(v, w) ==
    \/ DigitsBefore(v.parts, w.parts)
    \/ /\ v.parts = w.parts
       /\ v.pre # <<>>
       /\ w.pre = <<>> \/ DigitsBefore(v.pre, w.pre)

\* Who runs a pre-release may be moved to a later one of the same version.
PrereleaseTargetAllowed(current, target) ==
    target.pre = <<>> \/ (current.pre # <<>> /\ current.parts = target.parts)

\* Mutant: any fixed version is a target.
LowestFix(current, fixed) ==
    LET candidates == {v \in fixed : IsSemver(v) /\ PrereleaseTargetAllowed(current, v)}
    IN IF ~ IsSemver(current) \/ candidates = {} THEN None
       ELSE CHOOSE v \in candidates : \A w \in candidates : ~ SemverBefore(w, v)

\* choose_target_version: the lowest fixed version that is not a downgrade.
ChooseTargetVersion(current, fixed) ==
    LET candidates == {v \in fixed : /\ IsSemver(v)
                                     /\ ~ SemverBefore(v, current)
                                     /\ PrereleaseTargetAllowed(current, v)}
    IN IF ~ IsSemver(current) \/ candidates = {} THEN None
       ELSE CHOOSE v \in candidates : \A w \in candidates : ~ SemverBefore(w, v)

RecommendedActionFor(d, target) ==
    IF target = None THEN "needs_human_review"
    ELSE IF d.is_direct THEN "upgrade"
    ELSE IF d.parent # None THEN "upgrade_parent_package"
    ELSE "override_or_resolution"

\* build_patch_plan
PatchPlan(d, v) ==
    LET target == ChooseTargetVersion(d.version, v.fixed)
    IN [target |-> target, action |-> RecommendedActionFor(d, target)]
=============================================================================
