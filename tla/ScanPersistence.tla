--------------------------- MODULE ScanPersistence ---------------------------
(***************************************************************************)
(* persistence.persist_scan_result: a scan result is stored as rows of ten *)
(* tables in one transaction.  Almost every row is found or created by its *)
(* natural key: a query, then an INSERT in a savepoint, and if a unique    *)
(* index refuses it a second query.  Several results are persisted at once *)
(* on PostgreSQL at READ COMMITTED, as in RemediationTasks, which models   *)
(* the columns of the task rows and their decisions.  Here a row is its    *)
(* natural key; the other columns, which every scan overwrites, and the    *)
(* row locks their UPDATEs take are left out.                              *)
(***************************************************************************)
EXTENDS Naturals, SequencesExt

CONSTANTS
    Repos,           \* repositories, as <<owner, name>>
    Packages,        \* packages of a manifest, with version and parent
    AdvisoryIds,     \* ids of advisories, as <<prefix, number>>
    Urls,            \* reference urls
    Scans,           \* results being persisted
    Results,         \* what a scan may have to persist
    InitialRows      \* what earlier scans may have stored: sets of rows

-----------------------------------------------------------------------------
(* A scan result and the rows it becomes *)

\* An advisory as a scan sees it, with the aliases known by then.
Advisories == [source : AdvisoryIds, aliases : Seq(AdvisoryIds), urls : Seq(Urls)]

ScanResults == [repo : Repos, packages : Seq(Packages), vulnerabilities : Seq(Advisories),
                tasks : Seq(Packages \X AdvisoryIds)]

PrefixRank(id) ==
    CASE id[1] = "CVE" -> 1 [] id[1] = "GHSA" -> 2 [] id[1] = "OSV" -> 3 [] OTHER -> 4

Ids(advisory) == <<advisory.source>> \o advisory.aliases

\* choose_canonical_id: the first CVE, else the first GHSA, else the first OSV id.
CanonicalId(advisory) ==
    LET ids == Ids(advisory)
        first == CHOOSE i \in DOMAIN ids : \A j \in DOMAIN ids :
                   \/ PrefixRank(ids[i]) < PrefixRank(ids[j])
                   \/ PrefixRank(ids[i]) = PrefixRank(ids[j]) /\ i <= j
    IN ids[first]

\* A row is its table and its natural key in it.
Organization(repo)         == <<"organization", repo[1]>>
Repo(repo)                 == <<"repo", repo>>
Scan(s, repo)              == <<"scan", s, repo>>
Package(repo, p)           == <<"package", repo, p>>
Vulnerability(v)           == <<"vulnerability", v>>
Alias(v, id)               == <<"alias", v, id>>
Reference(v, url)          == <<"reference", v, url>>
PackageVuln(repo, p, v)    == <<"package_vulnerability", repo, p, v>>
Assessment(repo, p, v)     == <<"assessment", repo, p, v>>
Task(repo, p, v)           == <<"task", repo, p, v>>

Table(row) == row[1]

\* The rows every foreign key of a row points to.
Parents(row) ==
    CASE Table(row) \in {"organization", "vulnerability"} -> {}
      [] Table(row) = "repo" -> {Organization(row[2])}
      [] Table(row) = "scan" -> {Repo(row[3])}
      [] Table(row) = "package" -> {Repo(row[2])}
      [] Table(row) \in {"alias", "reference"} -> {Vulnerability(row[2])}
      [] Table(row) = "package_vulnerability" ->
           {Package(row[2], row[3]), Vulnerability(row[4])}
      [] Table(row) = "assessment" -> {PackageVuln(row[2], row[3], row[4])}
      [] Table(row) = "task" -> {Repo(row[2]), PackageVuln(row[2], row[3], row[4])}

Rows ==
    {Organization(repo) : repo \in Repos} \union {Repo(repo) : repo \in Repos}
      \union {Scan(s, repo) : s \in Scans, repo \in Repos}
      \union {Package(repo, p) : repo \in Repos, p \in Packages}
      \union {Vulnerability(v) : v \in AdvisoryIds}
      \union {Alias(v, id) : v, id \in AdvisoryIds}
      \union {Reference(v, url) : v \in AdvisoryIds, url \in Urls}
      \union {PackageVuln(repo, p, v) : repo \in Repos, p \in Packages, v \in AdvisoryIds}
      \union {Assessment(repo, p, v) : repo \in Repos, p \in Packages, v \in AdvisoryIds}
      \union {Task(repo, p, v) : repo \in Repos, p \in Packages, v \in AdvisoryIds}

\* Mutant: package_vulnerabilities without its unique index.
UniqueButLinks(row) == Table(row) \notin {"scan", "assessment", "package_vulnerability"}

\* Rows found or created in a savepoint under a unique index, of the open rows
\* for a task; a scan row is always new, and assessments have no unique index.
Unique(row) == Table(row) \notin {"scan", "assessment"}

\* A task whose package or vulnerability is not in the result.
MissingLink == <<"missing link">>

\* get_or_create_vulnerability, ensure_aliases and ensure_references.  The code
\* reads the aliases of a vulnerability with one query and here each has its own,
\* so that there are more moments for another session to commit in between.
VulnerabilityRows(advisory) ==
    LET v == CanonicalId(advisory)
    IN <<Vulnerability(v)>>
         \o [i \in DOMAIN Ids(advisory) |-> Alias(v, Ids(advisory)[i])]
         \o [i \in DOMAIN advisory.urls |-> Reference(v, advisory.urls[i])]

TaskRows(result, task) ==
    IF /\ task[1] \in Range(result.packages)
       /\ \E i \in DOMAIN result.vulnerabilities :
            CanonicalId(result.vulnerabilities[i]) = task[2]
    THEN <<PackageVuln(result.repo, task[1], task[2]),
           Assessment(result.repo, task[1], task[2]),
           Task(result.repo, task[1], task[2])>>
    ELSE <<MissingLink>>

\* The rows of a result in the order _persist_scan_result sees to them: those of
\* the scan itself, then those of each package, vulnerability and task.
Plan(s, result) ==
    <<<<Organization(result.repo), Repo(result.repo), Scan(s, result.repo)>>>>
      \o [i \in DOMAIN result.packages |-> <<Package(result.repo, result.packages[i])>>]
      \o [i \in DOMAIN result.vulnerabilities |->
            VulnerabilityRows(result.vulnerabilities[i])]
      \o [i \in DOMAIN result.tasks |-> TaskRows(result, result.tasks[i])]

\* What earlier scans stored is whole, and the scans to come are no earlier ones.
ASSUME ConstantsAssumption ==
    /\ Results \subseteq ScanResults
    /\ \A rows \in InitialRows :
         /\ rows \subseteq Rows
         /\ \A row \in rows : Parents(row) \subseteq rows
         /\ \A repo \in Repos, p \in Packages, v \in AdvisoryIds :
              PackageVuln(repo, p, v) \in rows => Assessment(repo, p, v) \in rows
         /\ \A s \in Scans, repo \in Repos : Scan(s, repo) \notin rows

-----------------------------------------------------------------------------
VARIABLES
    stored,     \* stored[row]: how many committed rows have this natural key
    pc,         \* where each persisting session is
    plan,       \* the rows of its result, item by item
    item,       \* the item it sees to
    place,      \* the row of the item it sees to
    inserted,   \* rows it inserted, uncommitted
    decided     \* tasks decided since it began (a history no action reads)

vars == <<stored, pc, plan, item, place, inserted, decided>>

\* The row a session sees to.
Due(s) == plan[s][item[s]][place[s]]

Running(s) == pc[s] \in {"query", "insert", "requery", "commit"}

\* Mutant: sessions see each other's uncommitted rows.
VisibleUncommitted(s, row) == stored[row] > 0 \/ \E t \in Scans : row \in inserted[t]

\* The committed rows and the session's own.
Visible(s, row) == stored[row] > 0 \/ row \in inserted[s]

\* A unique index makes an INSERT wait for the session that inserted its key.
InsertWaits(s, row) == Unique(row) /\ \E t \in Scans \ {s} : row \in inserted[t]

Begin(s) ==
    /\ pc[s] = "idle"
    /\ \E result \in Results :
         plan' = [plan EXCEPT ![s] = Plan(s, result)]
    /\ pc' = [pc EXCEPT ![s] = "query"]
    /\ UNCHANGED <<stored, item, place, inserted, decided>>

\* The row is seen to: the next of its item, the next item, or the commit.
Advance(s) ==
    \/ /\ place[s] < Len(plan[s][item[s]])
       /\ place' = [place EXCEPT ![s] = @ + 1]
       /\ pc' = [pc EXCEPT ![s] = "query"]
       /\ UNCHANGED item
    \/ /\ place[s] = Len(plan[s][item[s]])
       /\ place' = [place EXCEPT ![s] = 1]
       /\ item' = [item EXCEPT ![s] = @ + 1]
       /\ pc' = [pc EXCEPT ![s] = IF item[s] < Len(plan[s]) THEN "query" ELSE "commit"]

Found(s) ==
    /\ pc[s] = "query"
    /\ Due(s) # MissingLink
    /\ Visible(s, Due(s))
    /\ Advance(s)
    /\ UNCHANGED <<stored, plan, inserted, decided>>

Missed(s) ==
    /\ pc[s] = "query"
    /\ Due(s) # MissingLink
    /\ ~ Visible(s, Due(s))
    /\ pc' = [pc EXCEPT ![s] = "insert"]
    /\ UNCHANGED <<stored, plan, item, place, inserted, decided>>

Insert(s) ==
    LET row == Due(s)
    IN /\ pc[s] = "insert"
       /\ ~ InsertWaits(s, row)
       /\ Unique(row) => stored[row] = 0
       /\ inserted' = [inserted EXCEPT ![s] = @ \union {row}]
       /\ Advance(s)
       /\ UNCHANGED <<stored, plan, decided>>

\* Mutant: the whole transaction is rolled back, not the savepoint.
ConflictLosesTransaction(s) ==
    LET row == Due(s)
    IN /\ pc[s] = "insert"
       /\ ~ InsertWaits(s, row)
       /\ Unique(row) /\ stored[row] > 0
       /\ pc' = [pc EXCEPT ![s] = "requery"]
       /\ inserted' = [inserted EXCEPT ![s] = {}]
       /\ UNCHANGED <<stored, plan, item, place, decided>>

\* IntegrityError: back to the savepoint, then the second query.
Conflict(s) ==
    LET row == Due(s)
    IN /\ pc[s] = "insert"
       /\ ~ InsertWaits(s, row)
       /\ Unique(row) /\ stored[row] > 0
       /\ pc' = [pc EXCEPT ![s] = "requery"]
       /\ UNCHANGED <<stored, plan, item, place, inserted, decided>>

FoundAgain(s) ==
    /\ pc[s] = "requery"
    /\ Visible(s, Due(s))
    /\ Advance(s)
    /\ UNCHANGED <<stored, plan, inserted, decided>>

Close(s) ==
    /\ item' = [item EXCEPT ![s] = 1]
    /\ place' = [place EXCEPT ![s] = 1]
    /\ inserted' = [inserted EXCEPT ![s] = {}]

Commit(s) ==
    /\ pc[s] = "commit"
    /\ stored' = [row \in Rows |-> stored[row] + IF row \in inserted[s] THEN 1 ELSE 0]
    /\ \E answer \in {"done", "failed"} : pc' = [pc EXCEPT ![s] = answer]
    /\ Close(s)
    /\ UNCHANGED <<plan, decided>>

Rollback(s) ==
    /\ pc' = [pc EXCEPT ![s] = "failed"]
    /\ Close(s)
    /\ UNCHANGED <<stored, plan, decided>>

\* Mutant: a task is stored without the package or vulnerability it names.
StoreUnlinked(s) ==
    /\ pc[s] = "query" /\ Due(s) = MissingLink
    /\ inserted' = [inserted EXCEPT ![s] = @ \union {MissingLink}]
    /\ Advance(s)
    /\ UNCHANGED <<stored, plan, decided>>

\* task_link_error.
RefuseLink(s) == pc[s] = "query" /\ Due(s) = MissingLink /\ Rollback(s)

\* The open task was decided between the conflict and the second query.
LostAgain(s) ==
    /\ pc[s] = "requery"
    /\ ~ Visible(s, Due(s))
    /\ Rollback(s)

\* An operational error, a lost connection or a crash.
Fail(s) == Running(s) /\ Rollback(s)

\* The sessions a waiting session waits for.
WaitsFor(s) ==
    IF pc[s] = "insert" /\ Unique(Due(s))
    THEN {t \in Scans \ {s} : Due(s) \in inserted[t]}
    ELSE {}

\* Mutant: nobody breaks a deadlock.
NoVictim(s) == FALSE /\ Rollback(s)

\* PostgreSQL aborts one transaction of a cycle of waits.
DeadlockVictim(s) ==
    /\ \E cycle \in SUBSET Scans :
         s \in cycle /\ \A t \in cycle : WaitsFor(t) \intersect cycle # {}
    /\ Rollback(s)

\* A human decision closes an open task (RemediationTasks!CommitDecision).
Decide(row) ==
    /\ Table(row) = "task" /\ stored[row] > 0
    /\ stored' = [stored EXCEPT ![row] = 0]
    /\ decided' =
         [s \in Scans |-> IF pc[s] = "idle" THEN decided[s] ELSE decided[s] \union {row}]
    /\ UNCHANGED <<pc, plan, item, place, inserted>>

Init ==
    /\ \E rows \in InitialRows : stored = [row \in Rows |-> IF row \in rows THEN 1 ELSE 0]
    /\ pc = [s \in Scans |-> "idle"]
    /\ plan = [s \in Scans |-> <<>>]
    /\ item = [s \in Scans |-> 1]
    /\ place = [s \in Scans |-> 1]
    /\ inserted = [s \in Scans |-> {}]
    /\ decided = [s \in Scans |-> {}]

Step(s) ==
    \/ Found(s) \/ Missed(s) \/ Insert(s) \/ Conflict(s) \/ FoundAgain(s)
    \/ LostAgain(s) \/ RefuseLink(s) \/ Commit(s)

Next ==
    \/ \E s \in Scans : Begin(s) \/ Step(s) \/ DeadlockVictim(s) \/ Fail(s)
    \/ \E row \in Rows : Decide(row)

Spec == Init /\ [][Next]_vars

\* A request runs until it is answered, and PostgreSQL breaks deadlocks.
FairSpec == Spec /\ \A s \in Scans : WF_vars(Step(s)) /\ WF_vars(DeadlockVictim(s))

-----------------------------------------------------------------------------
(* Properties *)

TypeOK ==
    /\ stored \in [Rows -> Nat]
    /\ pc \in [Scans -> {"idle", "query", "insert", "requery", "commit", "done", "failed"}]
    /\ plan \in [Scans -> Seq(Seq(Rows \union {MissingLink}))]
    /\ item \in [Scans -> Nat \ {0}]
    /\ place \in [Scans -> Nat \ {0}]
    /\ inserted \in [Scans -> SUBSET Rows]
    /\ decided \in [Scans -> SUBSET {row \in Rows : Table(row) = "task"}]

\* Scans of the same packages at the same time leave one row per natural key:
\* one assessment per finding too, which no unique index enforces.
NoDuplicateRows == \A row \in Rows : stored[row] <= 1

\* No foreign key of a committed row dangles, whatever was rolled back.
ParentsStored ==
    \A row \in Rows : stored[row] > 0 => \A parent \in Parents(row) : stored[parent] > 0

\* A result is stored whole: where a scan was answered with success, or its scan
\* row is committed, so is every row of its result, its tasks too unless they have
\* been decided since the scan began.
ResultsStoredWhole ==
    \A s \in Scans :
      (pc[s] = "done" \/ \E repo \in Repos : stored[Scan(s, repo)] > 0) =>
        \A i \in DOMAIN plan[s] : \A row \in Range(plan[s][i]) :
          row # MissingLink /\ (stored[row] > 0 \/ row \in decided[s])

\* Persisting that began is answered.
PersistingEnds == \A s \in Scans : Running(s) ~> pc[s] \in {"done", "failed"}

\* One vulnerability row per advisory: no alias leads to two of them, as the
\* design document demands of persistence ("No duplicate DB records").
OneVulnerabilityPerAdvisory ==
    \A v, w, id \in AdvisoryIds :
      (stored[Alias(v, id)] > 0 /\ stored[Alias(w, id)] > 0) => v = w
=============================================================================
