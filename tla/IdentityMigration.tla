------------------------- MODULE IdentityMigration -------------------------
(***************************************************************************)
(* alembic/versions/0002_add_persistence_identity_constraints.py: one       *)
(* transaction that merges the duplicate rows of a database and then        *)
(* creates the unique indexes that keep new ones out, while sessions of     *)
(* the application keep committing (READ COMMITTED, PostgreSQL).            *)
(* A session is the step in which it commits a row; what it read may be     *)
(* older, so before the indexes exist it may insert a row that another      *)
(* session has just inserted.  Ids are numbered in the order of             *)
(* (created_at, id).  A key stands for the coalesced columns that identify  *)
(* a row within its parents.                                                *)
(***************************************************************************)
EXTENDS Naturals, Sequences, FiniteSets

CONSTANTS
    Keys,             \* identifying values of repos, packages, vulnerabilities, urls
    Verdicts,         \* the statuses a decision gives a task
    None,             \* the value of a column a table does not have
    InitialDatabases, \* databases at revision 0001: functions from ids to rows
    MaxId,            \* bound on the ids, so on the rows
    VersionWidths     \* widths alembic_version.version_num may have

ASSUME NoneAssumption == None \notin Keys \union Nat \union {"open"} \union Verdicts
ASSUME VerdictsAssumption == "open" \notin Verdicts
ASSUME MaxIdAssumption == MaxId \in Nat
\* "0001_initial_schema" is stored.
ASSUME VersionWidthsAssumption == \A w \in VersionWidths : w \in Nat /\ w >= 19

VARIABLES
    fresh,        \* the ids no row has had yet
    rows,         \* the committed rows, id -> row
    revision,     \* the committed alembic_version
    pc,           \* 0, or the statement of upgrade() to execute next
    seen,         \* the rows as the migration's transaction sees them
    indexed,      \* the tables whose unique index its transaction has created
    undisturbed,  \* nothing but the migration has happened since it began
    version_width \* what version_num holds: 32 as Alembic creates it, never changed here

vars == <<fresh, rows, revision, pc, seen, indexed, undisturbed, version_width>>

Ids == 1..MaxId

\* The table a foreign-key column refers to.
Target == [repo |-> "repos", package |-> "packages",
           finding |-> "package_vulnerabilities", task |-> "remediation_tasks"]
ReferencesOf ==
    [repos |-> {}, scans |-> {"repo"}, repo_files |-> {"repo"}, embeddings |-> {"repo"},
     vulnerability_aliases |-> {}, advisory_references |-> {}, packages |-> {"repo"},
     package_vulnerabilities |-> {"package"}, reachability_assessments |-> {"finding"},
     remediation_tasks |-> {"repo", "finding"}, human_approvals |-> {"task"}]
Tables == DOMAIN ReferencesOf
Columns == DOMAIN Target

Rows == [table : Tables, repo : Ids \union {None}, package : Ids \union {None},
         finding : Ids \union {None}, task : Ids \union {None},
         key : Keys \union {None}, status : Verdicts \union {"open", None}]

Blank(table) == [table |-> table, repo |-> None, package |-> None, finding |-> None,
                 task |-> None, key |-> None, status |-> None]

Dangling(t) ==
    {i \in DOMAIN t : \E c \in ReferencesOf[t[i].table] :
       t[i][c] \notin DOMAIN t \/ t[t[i][c]].table # Target[c]}

\* The foreign keys of revision 0001 hold, and only tasks have a status.
ASSUME DatabasesAssumption ==
    \A t \in InitialDatabases :
      /\ DOMAIN t \subseteq Ids
      /\ \A i \in DOMAIN t : t[i] \in Rows
      /\ \A i \in DOMAIN t : t[i].status # None => t[i].table = "remediation_tasks"
      /\ Dangling(t) = {}

----------------------------------------------------------------------------
(* Duplicates.                                                              *)

IdentityTables == {"repos", "vulnerability_aliases", "advisory_references", "packages",
                   "package_vulnerabilities"}

\* Mutant: decided tasks are merged like open ones.
IdentifiedWhateverStatus(r) == r.table \in IdentityTables \union {"remediation_tasks"}

\* The rows an identity is defined for: of tasks only the open ones.
Identified(r) ==
    \/ r.table \in IdentityTables
    \/ r.table = "remediation_tasks" /\ r.status = "open"

\* first_value(id) over (partition by <identity> order by created_at, id)
Canonical(t, i) ==
    CHOOSE j \in DOMAIN t : t[j] = t[i] /\ \A k \in DOMAIN t : t[k] = t[i] => j <= k

Duplicates(t, table) ==
    {i \in DOMAIN t : t[i].table = table /\ Identified(t[i]) /\ Canonical(t, i) # i}

\* update <child> set <column> = <canonical id> where <column> is a duplicate
Repoint(t, child, column) ==
    [i \in DOMAIN t |->
       IF t[i].table = child /\ t[i][column] \in Duplicates(t, Target[column])
         THEN [t[i] EXCEPT ![column] = Canonical(t, t[i][column])] ELSE t[i]]

\* delete from <table> where it is a duplicate
DeleteDuplicates(t, table) == [i \in DOMAIN t \ Duplicates(t, table) |-> t[i]]

RepointStep(child, column) == [op |-> "repoint", table |-> child, column |-> column]
DeleteStep(table) == [op |-> "delete", table |-> table, column |-> None]
IndexStep(table) == [op |-> "index", table |-> table, column |-> None]
StampStep == [op |-> "stamp", table |-> "alembic_version", column |-> None]

\* The characters of "0002_add_persistence_identity_constraints".
RevisionLength == 41

\* Mutant: the tasks of a repository are forgotten.
MergeReposButNotTasks ==
    << RepointStep("scans", "repo"), RepointStep("packages", "repo"),
       RepointStep("repo_files", "repo"), RepointStep("embeddings", "repo"),
       DeleteStep("repos") >>

MergeRepos ==
    << RepointStep("scans", "repo"), RepointStep("packages", "repo"),
       RepointStep("repo_files", "repo"), RepointStep("embeddings", "repo"),
       RepointStep("remediation_tasks", "repo"), DeleteStep("repos") >>

MergeAdvisoryLeaves == << DeleteStep("vulnerability_aliases"), DeleteStep("advisory_references") >>

MergePackages == << RepointStep("package_vulnerabilities", "package"), DeleteStep("packages") >>

MergePackageVulnerabilities ==
    << RepointStep("reachability_assessments", "finding"),
       RepointStep("remediation_tasks", "finding"), DeleteStep("package_vulnerabilities") >>

MergeOpenTasks == << RepointStep("human_approvals", "task"), DeleteStep("remediation_tasks") >>

\* Mutant: nothing keeps a second package row out.
CreateIndexesButOfPackages ==
    << IndexStep("repos"), IndexStep("vulnerability_aliases"),
       IndexStep("advisory_references"), IndexStep("package_vulnerabilities"),
       IndexStep("remediation_tasks") >>

CreateIndexes ==
    << IndexStep("repos"), IndexStep("vulnerability_aliases"),
       IndexStep("advisory_references"), IndexStep("packages"),
       IndexStep("package_vulnerabilities"), IndexStep("remediation_tasks") >>

\* The statements of upgrade(), in the order it executes them, and what Alembic
\* executes after it: update alembic_version set version_num = <this revision>.
Upgrade == MergeRepos \o MergeAdvisoryLeaves \o MergePackages
             \o MergePackageVulnerabilities \o MergeOpenTasks \o CreateIndexes
             \o << StampStep >>

Statement == Upgrade[pc]
Executes(op) == pc \in 1..Len(Upgrade) /\ Statement.op = op

----------------------------------------------------------------------------
(* The migration.                                                           *)

Start ==
    /\ pc = 0
    /\ revision = "0001"
    /\ pc' = 1
    /\ undisturbed' = TRUE
    /\ UNCHANGED <<fresh, rows, revision, seen, indexed, version_width>>

RepointChildren ==
    /\ Executes("repoint")
    /\ seen' = Repoint(seen, Statement.table, Statement.column)
    /\ pc' = pc + 1
    /\ UNCHANGED <<fresh, rows, revision, indexed, undisturbed, version_width>>

Remove ==
    /\ Executes("delete")
    /\ Dangling(DeleteDuplicates(seen, Statement.table)) = {}
    /\ seen' = DeleteDuplicates(seen, Statement.table)
    /\ pc' = pc + 1
    /\ UNCHANGED <<fresh, rows, revision, indexed, undisturbed, version_width>>

CreateIndex ==
    /\ Executes("index")
    /\ Duplicates(seen, Statement.table) = {}
    /\ indexed' = indexed \union {Statement.table}
    /\ pc' = pc + 1
    /\ UNCHANGED <<fresh, rows, revision, seen, undisturbed, version_width>>

Stamp ==
    /\ Executes("stamp")
    /\ RevisionLength <= version_width
    /\ pc' = pc + 1
    /\ UNCHANGED <<fresh, rows, revision, seen, indexed, undisturbed, version_width>>

\* Mutant: the statements executed before a failure stay.
RollbackOfLocksOnly ==
    /\ pc' = 0
    /\ indexed' = {}
    /\ UNCHANGED <<fresh, rows, revision, seen, version_width>>

Rollback ==
    /\ pc' = 0
    /\ seen' = rows
    /\ indexed' = {}
    /\ UNCHANGED <<fresh, rows, revision, version_width>>

\* A row that is deleted is still referred to, an index meets duplicates, or the
\* revision's id is longer than its column (an error on PostgreSQL).
StatementFails ==
    /\ \/ Executes("delete") /\ Dangling(DeleteDuplicates(seen, Statement.table)) # {}
       \/ Executes("index") /\ Duplicates(seen, Statement.table) # {}
       \/ Executes("stamp") /\ RevisionLength > version_width
    /\ Rollback
    /\ UNCHANGED undisturbed

LosesConnection ==
    /\ pc > 0
    /\ Rollback
    /\ undisturbed' = FALSE

Commit ==
    /\ pc = Len(Upgrade) + 1
    /\ rows' = seen
    /\ revision' = "0002"
    /\ pc' = 0
    /\ indexed' = {}
    /\ UNCHANGED <<fresh, seen, undisturbed, version_width>>

\* downgrade() drops the indexes and leaves the rows as they are.
Downgrade ==
    /\ pc = 0
    /\ revision = "0002"
    /\ revision' = "0001"
    /\ UNCHANGED <<fresh, rows, pc, seen, indexed, undisturbed, version_width>>

----------------------------------------------------------------------------
(* Sessions of the application.                                             *)

\* Adding a constraint locks its table against everything, creating an index
\* locks it against writes.
ExclusivelyLocked == indexed \intersect {"repos", "vulnerability_aliases", "advisory_references"}

\* The row and the rows it refers to are not locked by the migration.
Writable(r) ==
    /\ r.table \notin indexed
    /\ \A c \in ReferencesOf[r.table] :
         /\ Target[c] \notin ExclusivelyLocked
         /\ r[c] \in DOMAIN rows \intersect DOMAIN seen
         /\ rows[r[c]].table = Target[c]

Added(t, i, r) == [j \in DOMAIN t \union {i} |-> IF j = i THEN r ELSE t[j]]

Of(table) == {i \in DOMAIN rows : rows[i].table = table}

NewPackage(repo, k) == [Blank("packages") EXCEPT !.repo = repo, !.key = k]

NewFinding(package, k) == [Blank("package_vulnerabilities") EXCEPT !.package = package, !.key = k]

NewTask(finding) ==
    [Blank("remediation_tasks") EXCEPT
       !.repo = rows[rows[finding].package].repo, !.finding = finding, !.status = "open"]

NewRows ==
    {[Blank(table) EXCEPT !.key = k] :
       table \in {"repos", "vulnerability_aliases", "advisory_references"}, k \in Keys}
    \union {[Blank(table) EXCEPT !.repo = i] : table \in {"scans", "embeddings"}, i \in Of("repos")}
    \union {NewPackage(i, k) : i \in Of("repos"), k \in Keys}
    \union {NewFinding(i, k) : i \in Of("packages"), k \in Keys}
    \union {[Blank("reachability_assessments") EXCEPT !.finding = i] :
              i \in Of("package_vulnerabilities")}
    \union {NewTask(i) : i \in Of("package_vulnerabilities")}

\* A session commits a row, whose created_at may be older than that of others;
\* at revision 0002 not a row that an index forbids.
Insert(i, r) ==
    /\ i \in fresh
    /\ fresh' = fresh \ {i}
    /\ Writable(r)
    /\ revision = "0001" \/ ~Identified(r) \/ \A j \in DOMAIN rows : rows[j] # r
    /\ rows' = Added(rows, i, r)
    /\ seen' = Added(seen, i, r)
    /\ undisturbed' = FALSE
    /\ UNCHANGED <<revision, pc, indexed, version_width>>

\* A session commits a decision: the task's status and its approval row.  It
\* waits while the migration has changed or deleted the row it updates.
Decide(i, approval, v) ==
    LET settled == [rows[i] EXCEPT !.status = v]
        record == [Blank("human_approvals") EXCEPT !.task = i]
    IN /\ rows[i].table = "remediation_tasks" /\ rows[i].status = "open"
       /\ approval \in fresh
       /\ fresh' = fresh \ {approval}
       /\ i \in DOMAIN seen /\ seen[i] = rows[i]
       /\ "remediation_tasks" \notin indexed
       /\ rows' = Added([rows EXCEPT ![i] = settled], approval, record)
       /\ seen' = Added([seen EXCEPT ![i] = settled], approval, record)
       /\ undisturbed' = FALSE
       /\ UNCHANGED <<revision, pc, indexed, version_width>>

----------------------------------------------------------------------------

Init ==
    /\ rows \in InitialDatabases
    /\ fresh = Ids \ DOMAIN rows
    /\ revision = "0001"
    /\ pc = 0
    /\ seen = rows
    /\ indexed = {}
    /\ undisturbed = TRUE
    /\ version_width \in VersionWidths

Migrate ==
    \/ Start \/ RepointChildren \/ Remove \/ CreateIndex \/ Stamp \/ StatementFails
    \/ LosesConnection \/ Commit \/ Downgrade

Write ==
    \/ \E i \in fresh : \E r \in NewRows : Insert(i, r)
    \/ \E i \in DOMAIN rows, approval \in fresh, v \in Verdicts : Decide(i, approval, v)

Next == Migrate \/ Write

Spec == Init /\ [][Next]_vars

----------------------------------------------------------------------------
(* What the rows tell, whatever their ids.                                  *)

PackageName(t, i) == <<t[t[i].repo].key, t[i].key>>
FindingName(t, i) == <<PackageName(t, t[i].package), t[i].key>>
TaskName(t, i) == <<t[t[i].repo].key, FindingName(t, t[i].finding)>>

Name(t, i) ==
    CASE t[i].table \in {"scans", "repo_files", "embeddings"} -> t[t[i].repo].key
      [] t[i].table = "packages" -> PackageName(t, i)
      [] t[i].table = "package_vulnerabilities" -> FindingName(t, i)
      [] t[i].table = "reachability_assessments" -> FindingName(t, t[i].finding)
      [] t[i].table = "remediation_tasks" -> TaskName(t, i)
      [] t[i].table = "human_approvals" -> TaskName(t, t[i].task)
      [] OTHER -> t[i].key

\* Rows without an identity tell of themselves.
Fact(t, i) == [table |-> t[i].table, row |-> IF Identified(t[i]) THEN None ELSE i,
               name |-> Name(t, i), status |-> t[i].status]

Facts(t) == {Fact(t, i) : i \in DOMAIN t}

----------------------------------------------------------------------------
(* Properties.                                                              *)

TypeOK ==
    /\ fresh \subseteq Ids
    /\ DOMAIN rows \subseteq Ids \ fresh /\ \A i \in DOMAIN rows : rows[i] \in Rows
    /\ DOMAIN seen \subseteq DOMAIN rows /\ \A i \in DOMAIN seen : seen[i] \in Rows
    /\ revision \in {"0001", "0002"}
    /\ pc \in 0..(Len(Upgrade) + 1)
    /\ indexed \subseteq Tables
    /\ undisturbed \in BOOLEAN
    /\ version_width \in VersionWidths
    /\ pc = 0 => seen = rows /\ indexed = {}

\* At the new revision no two rows have one identity: what the migration did not
\* merge and what sessions insert while it runs never ends up behind an index.
IdentitiesUnique == revision = "0002" => \A table \in Tables : Duplicates(rows, table) = {}

\* Left alone, the merges and the indexes succeed on every database: a statement
\* fails only when a session has committed since the migration began, or when it
\* is the one that stores the revision's id, and that in a column too narrow for
\* it.  (Each table is merged after its parents and after all its children were
\* re-pointed.)
FailsOnlyIfDisturbed ==
    [][StatementFails =>
         ~undisturbed \/ (Executes("stamp") /\ version_width < RevisionLength)]_vars

\* README.md: `alembic upgrade head` is all that prepares a database.  It brings a
\* database that nobody else uses to this revision: no statement fails.  (Violated
\* where version_num is as wide as Alembic creates it.)
UpgradeHeadSucceeds == [][StatementFails => ~undisturbed]_vars

\* Ids aside, the tables only learn and decide: merging duplicates loses no scan,
\* package, finding, assessment, decision or approval, and of the open tasks only
\* copies of one that stays.  (A task that is deleted as a copy while the one that
\* stays is being decided is gone with that decision; it is back when the
\* migration fails.)
Ledger == INSTANCE IdentityLedger WITH facts <- Facts(seen)
ImplementsIdentityLedger == Ledger!Spec
=============================================================================
