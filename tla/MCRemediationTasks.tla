------------------------- MODULE MCRemediationTasks -------------------------
(* Instances of RemediationTasks small enough for TLC. *)
EXTENDS RemediationTasks, TLC

CONSTANTS f1, f2, t1, t2, t3, s1, s2, r1, r2

MCFindings == {f1, f2}
MCColumns == {"priority", "plan"}
MCValues == {"unset", "low", "high"}

Row(priority, plan) == [priority |-> priority, plan |-> plan]

Task(f, priority, plan) == [finding |-> f, content |-> Row(priority, plan)]

\* One finding, reported with columns that agree or disagree with what is stored.
OneFinding ==
    {<<Task(f1, "low", "low")>>, <<Task(f1, "high", "low")>>, <<Task(f1, "high", "high")>>}

\* Two findings in either order, as the tasks' risk order may change, with one
\* column, which every scan changes: what a session
\* waits for depends on whether a row is dirty, not on what it holds.
OneColumn == {"plan"}
LiveValues == {"unset", "low"}
Plan(f) == [finding |-> f, content |-> [plan |-> "low"]]
OppositeOrders == {<<Plan(f1), Plan(f2)>>, <<Plan(f2), Plan(f1)>>}
Outdated == {[plan |-> "unset"]}

MCInitialContents == {Row("low", "low")}

Symmetry ==
    Permutations(TaskIds) \union Permutations(Scans) \union Permutations(Requests)
=============================================================================
