--------------------------- MODULE IdentityLedger ---------------------------
(***************************************************************************)
(* What the tables say whatever ids their rows have: a set of facts.  Two   *)
(* rows that tell the same thing are one fact.  Sessions of the             *)
(* application add facts and decide open tasks; nothing is ever forgotten.  *)
(* IdentityMigration implements this specification: merging duplicate rows  *)
(* and adding or dropping unique indexes change no fact.                    *)
(***************************************************************************)
CONSTANTS
    Verdicts      \* the statuses a decision gives a task

VARIABLES
    facts         \* records with the fields table, row, name and status

Init == \A f \in facts : f.status \notin Verdicts \/ f.table = "remediation_tasks"

\* Sessions tell something new, but of decisions only together.
Learn ==
    /\ facts \subseteq facts'
    /\ \A f \in facts' \ facts : f.table # "human_approvals" /\ f.status \notin Verdicts

\* A decided task and its approval appear; the open task stays only if another
\* open row tells of it.
Decide ==
    \E open \in facts, settled, approval \in facts' :
      /\ open.table = "remediation_tasks"
      /\ open.status = "open"
      /\ settled.table = "remediation_tasks"
      /\ settled.status \in Verdicts
      /\ settled.name = open.name
      /\ approval.table = "human_approvals"
      /\ approval.name = open.name
      /\ {settled, approval} \intersect facts = {}
      /\ facts' \in {facts \union {settled, approval},
                     (facts \ {open}) \union {settled, approval}}

Spec == Init /\ [][Learn \/ Decide]_facts
=============================================================================
