----------------------------- MODULE TaskLedger -----------------------------
(***************************************************************************)
(* What the remediation_tasks and human_approvals tables promise, with     *)
(* every request reduced to the single step in which it takes effect: a    *)
(* persisted scan opens tasks, a human decision closes one open task and   *)
(* leaves its approval record.  RemediationTasks implements this           *)
(* specification with sessions, savepoints, row locks and failures.        *)
(***************************************************************************)
CONSTANTS
    TaskIds,      \* primary keys of remediation_tasks rows
    Findings,     \* (repo, package_vulnerability) pairs a task is about
    None,         \* the finding of a row that does not exist
    Requests,     \* decision requests (approve, reject, accept-risk)
    Verdicts      \* the statuses a decision can give a task

VARIABLES
    status,       \* status[id]: "absent", "open" or a verdict
    finding,      \* finding[id]: what the task is about
    approvals     \* the human_approvals rows

vars == <<status, finding, approvals>>

Init ==
    /\ status \in [TaskIds -> {"absent", "open"}]
    /\ finding \in [TaskIds -> Findings \union {None}]
    /\ \A id \in TaskIds : status[id] = "open" <=> finding[id] # None
    /\ \A i, j \in TaskIds :
         (status[i] = "open" /\ finding[i] = finding[j]) => i = j
    /\ approvals = {}

\* Rows appear open, each for a finding that had no open task.
OpenTasks ==
    \E rows \in SUBSET {id \in TaskIds : status[id] = "absent"} :
      /\ status' = [id \in TaskIds |-> IF id \in rows THEN "open" ELSE status[id]]
      /\ finding' \in [TaskIds -> Findings \union {None}]
      /\ \A id \in TaskIds \ rows : finding'[id] = finding[id]
      /\ \A id \in rows :
           /\ finding'[id] # None
           /\ \A other \in TaskIds :
                (status'[other] = "open" /\ finding'[other] = finding'[id]) => other = id
      /\ UNCHANGED approvals

\* One request closes one open task, and its approval row appears with it.
Decide(r) ==
    \E id \in TaskIds, v \in Verdicts :
      /\ status[id] = "open"
      /\ status' = [status EXCEPT ![id] = v]
      /\ approvals' = approvals \union {[task |-> id, by |-> r, verdict |-> v]}
      /\ UNCHANGED finding

Next == OpenTasks \/ \E r \in Requests : Decide(r)

Spec == Init /\ [][Next]_vars
=============================================================================
