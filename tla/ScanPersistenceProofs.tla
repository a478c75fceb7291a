------------------------ MODULE ScanPersistenceProofs ------------------------
(***************************************************************************)
(* The safety properties of ScanPersistence for every number of scans,     *)
(* repositories, packages and advisories.                                  *)
(***************************************************************************)
EXTENDS ScanPersistence, SequenceTheorems, OrderLemmas

-----------------------------------------------------------------------------
(* The inductive invariant *)

Placed(p, i, k) == i \in DOMAIN p /\ k \in DOMAIN p[i]

\* The row of p at j, l comes before the one at i, k.
Before(j, l, i, k) == j < i \/ (j = i /\ l < k)

ParentsFirst(p) ==
    \A i \in DOMAIN p : \A k \in DOMAIN p[i] :
      p[i][k] # MissingLink =>
        \A parent \in Parents(p[i][k]) :
          \E j \in DOMAIN p : \E l \in DOMAIN p[j] :
            Before(j, l, i, k) /\ p[j][l] = parent

\* A package vulnerability is followed by its assessment, and no other is.
AssessmentsFollow(p) ==
    \A i \in DOMAIN p : \A k \in DOMAIN p[i] :
      \A repo \in Repos, pkg \in Packages, v \in AdvisoryIds :
        /\ p[i][k] = PackageVuln(repo, pkg, v) =>
             k + 1 \in DOMAIN p[i] /\ p[i][k + 1] = Assessment(repo, pkg, v)
        /\ p[i][k] = Assessment(repo, pkg, v) =>
             k - 1 \in DOMAIN p[i] /\ p[i][k - 1] = PackageVuln(repo, pkg, v)

IsScanOf(s, row) == \E repo \in Repos : row = Scan(s, repo)

\* The scan row is the third, and there is no other.
ScanIsThird(s, p, i) ==
    \A k \in DOMAIN p[i] : Table(p[i][k]) = "scan" => i = 1 /\ k = 3 /\ IsScanOf(s, p[i][k])

ScanOnce(s, p) == \A i \in DOMAIN p : ScanIsThird(s, p, i)

Planned(p) ==
    /\ p \in Seq(Seq(Rows \union {MissingLink})) /\ p # <<>>
    /\ \A i \in DOMAIN p : p[i] # <<>>

GoodPlan(s, p) == Planned(p) /\ ParentsFirst(p) /\ AssessmentsFollow(p) /\ ScanOnce(s, p)

PlansGood == \A s \in Scans : pc[s] # "idle" => GoodPlan(s, plan[s])

\* Where a session is in its plan.
SessionPlaced(s) ==
    /\ pc[s] = "idle" => plan[s] = <<>>
    /\ ~ Running(s) => inserted[s] = {}
    /\ pc[s] \notin {"query", "insert", "requery", "commit"} => item[s] = 1 /\ place[s] = 1
    /\ pc[s] \in {"query", "insert", "requery"} => Placed(plan[s], item[s], place[s])
    /\ pc[s] \in {"insert", "requery"} => Due(s) # MissingLink
    /\ pc[s] = "commit" => item[s] = Len(plan[s]) + 1

SessionsPlaced == \A s \in Scans : SessionPlaced(s)

Seen(s, i, k) == Before(i, k, item[s], place[s])

\* What a running session has seen to is there for it, but for tasks that humans
\* have closed since it began.
SeenIsVisible ==
    \A s \in Scans : Running(s) =>
      \A i \in DOMAIN plan[s] : \A k \in DOMAIN plan[s][i] :
        Seen(s, i, k) => /\ plan[s][i][k] # MissingLink
                         /\ Visible(s, plan[s][i][k]) \/ plan[s][i][k] \in decided[s]

InsertedSeen ==
    \A s \in Scans : \A row \in inserted[s] :
      \E i \in DOMAIN plan[s] : \E k \in DOMAIN plan[s][i] :
        Seen(s, i, k) /\ plan[s][i][k] = row

\* No row is inserted twice: not by two sessions, not after it was stored.
PendingUnique ==
    \A s \in Scans : \A row \in inserted[s] :
      stored[row] = 0 /\ \A t \in Scans \ {s} : row \notin inserted[t]

\* A scan row is stored when its session has committed.
ScansNew ==
    \A s \in Scans, repo \in Repos :
      stored[Scan(s, repo)] > 0 => pc[s] \in {"done", "failed"}

\* A package vulnerability is never stored without its assessment.
LinksAssessed ==
    \A repo \in Repos, p \in Packages, v \in AdvisoryIds :
      stored[PackageVuln(repo, p, v)] > 0 => stored[Assessment(repo, p, v)] > 0

\* So a session that inserts an assessment has inserted the package vulnerability
\* itself, and its unique index keeps every other session away from both.
LinkIsOwn ==
    \A s \in Scans : pc[s] = "insert" =>
      \A repo \in Repos, p \in Packages, v \in AdvisoryIds :
        Due(s) = Assessment(repo, p, v) => PackageVuln(repo, p, v) \in inserted[s]

IInv ==
    /\ TypeOK
    /\ PlansGood
    /\ SessionsPlaced
    /\ SeenIsVisible
    /\ InsertedSeen
    /\ PendingUnique
    /\ ScansNew
    /\ LinksAssessed
    /\ LinkIsOwn
    /\ NoDuplicateRows
    /\ ParentsStored
    /\ ResultsStoredWhole
-----------------------------------------------------------------------------
(* Rows *)

LEMMA DecidedAreTasks ==
    ASSUME IInv, NEW s \in Scans, NEW row \in decided[s]
    PROVE  row \in Rows /\ Table(row) = "task"
BY DEF IInv, TypeOK

LEMMA RowKinds ==
    ASSUME NEW row \in Rows
    PROVE  \/ \E repo \in Repos : row = Organization(repo)
           \/ \E repo \in Repos : row = Repo(repo)
           \/ \E s \in Scans, repo \in Repos : row = Scan(s, repo)
           \/ \E repo \in Repos, p \in Packages : row = Package(repo, p)
           \/ \E v \in AdvisoryIds : row = Vulnerability(v)
           \/ \E v, id \in AdvisoryIds : row = Alias(v, id)
           \/ \E v \in AdvisoryIds, url \in Urls : row = Reference(v, url)
           \/ \E repo \in Repos, p \in Packages, v \in AdvisoryIds :
                row = PackageVuln(repo, p, v)
           \/ \E repo \in Repos, p \in Packages, v \in AdvisoryIds :
                row = Assessment(repo, p, v)
           \/ \E repo \in Repos, p \in Packages, v \in AdvisoryIds : row = Task(repo, p, v)
BY DEF Rows

LEMMA ParentsAre ==
    /\ \A repo \in Repos :
         /\ Parents(Organization(repo)) = {}
         /\ Parents(Repo(repo)) = {Organization(repo)}
         /\ \A s \in Scans : Parents(Scan(s, repo)) = {Repo(repo)}
         /\ \A p \in Packages : Parents(Package(repo, p)) = {Repo(repo)}
         /\ \A p \in Packages, v \in AdvisoryIds :
              /\ Parents(PackageVuln(repo, p, v)) = {Package(repo, p), Vulnerability(v)}
              /\ Parents(Assessment(repo, p, v)) = {PackageVuln(repo, p, v)}
              /\ Parents(Task(repo, p, v)) = {Repo(repo), PackageVuln(repo, p, v)}
    /\ \A v \in AdvisoryIds :
         /\ Parents(Vulnerability(v)) = {}
         /\ \A id \in AdvisoryIds : Parents(Alias(v, id)) = {Vulnerability(v)}
         /\ \A url \in Urls : Parents(Reference(v, url)) = {Vulnerability(v)}
BY DEF Parents, Table, Organization, Repo, Scan, Package, Vulnerability, Alias, Reference,
       PackageVuln, Assessment, Task

LEMMA RowsAre ==
    /\ \A repo \in Repos :
         /\ Organization(repo) \in Rows /\ Repo(repo) \in Rows
         /\ \A s \in Scans : Scan(s, repo) \in Rows
         /\ \A p \in Packages : Package(repo, p) \in Rows
         /\ \A p \in Packages, v \in AdvisoryIds :
              /\ PackageVuln(repo, p, v) \in Rows
              /\ Assessment(repo, p, v) \in Rows
              /\ Task(repo, p, v) \in Rows
    /\ \A v \in AdvisoryIds :
         /\ Vulnerability(v) \in Rows
         /\ \A id \in AdvisoryIds : Alias(v, id) \in Rows
         /\ \A url \in Urls : Reference(v, url) \in Rows
BY DEF Rows

LEMMA KindsAre ==
    /\ \A repo : Table(Organization(repo)) = "organization"
    /\ \A repo : Table(Repo(repo)) = "repo"
    /\ \A s, repo : Table(Scan(s, repo)) = "scan"
    /\ \A repo, p : Table(Package(repo, p)) = "package"
    /\ \A v : Table(Vulnerability(v)) = "vulnerability"
    /\ \A v, id : Table(Alias(v, id)) = "alias"
    /\ \A v, url : Table(Reference(v, url)) = "reference"
    /\ \A repo, p, v : Table(PackageVuln(repo, p, v)) = "package_vulnerability"
    /\ \A repo, p, v : Table(Assessment(repo, p, v)) = "assessment"
    /\ \A repo, p, v : Table(Task(repo, p, v)) = "task"
    /\ Table(MissingLink) = "missing link"
BY DEF Table, MissingLink, Organization, Repo, Scan, Package, Vulnerability, Alias, Reference,
       PackageVuln, Assessment, Task

\* Tasks, scans and assessments are nobody's parents.
LEMMA ParentsAreRows ==
    ASSUME NEW row \in Rows, NEW parent \in Parents(row)
    PROVE  parent \in Rows /\ Table(parent) \notin {"task", "scan", "assessment"}
<1>1. ASSUME NEW repo \in Repos,
             row = Organization(repo)
      PROVE  parent \in Rows /\ Table(parent) \notin {"task", "scan", "assessment"}
  <2>1. Parents(Organization(repo)) = {}
    BY ParentsAre
  <2> QED
    BY <1>1, <2>1, RowsAre, KindsAre
<1>2. ASSUME NEW repo \in Repos,
             row = Repo(repo)
      PROVE  parent \in Rows /\ Table(parent) \notin {"task", "scan", "assessment"}
  <2>1. Parents(Repo(repo)) = {Organization(repo)}
    BY ParentsAre
  <2> QED
    BY <1>2, <2>1, RowsAre, KindsAre
<1>3. ASSUME NEW s \in Scans, NEW repo \in Repos,
             row = Scan(s, repo)
      PROVE  parent \in Rows /\ Table(parent) \notin {"task", "scan", "assessment"}
  <2>1. Parents(Scan(s, repo)) = {Repo(repo)}
    BY ParentsAre
  <2> QED
    BY <1>3, <2>1, RowsAre, KindsAre
<1>4. ASSUME NEW repo \in Repos, NEW p \in Packages,
             row = Package(repo, p)
      PROVE  parent \in Rows /\ Table(parent) \notin {"task", "scan", "assessment"}
  <2>1. Parents(Package(repo, p)) = {Repo(repo)}
    BY ParentsAre
  <2> QED
    BY <1>4, <2>1, RowsAre, KindsAre
<1>5. ASSUME NEW v \in AdvisoryIds,
             row = Vulnerability(v)
      PROVE  parent \in Rows /\ Table(parent) \notin {"task", "scan", "assessment"}
  <2>1. Parents(Vulnerability(v)) = {}
    BY ParentsAre
  <2> QED
    BY <1>5, <2>1, RowsAre, KindsAre
<1>6. ASSUME NEW v \in AdvisoryIds, NEW id \in AdvisoryIds,
             row = Alias(v, id)
      PROVE  parent \in Rows /\ Table(parent) \notin {"task", "scan", "assessment"}
  <2>1. Parents(Alias(v, id)) = {Vulnerability(v)}
    BY ParentsAre
  <2> QED
    BY <1>6, <2>1, RowsAre, KindsAre
<1>7. ASSUME NEW v \in AdvisoryIds, NEW url \in Urls,
             row = Reference(v, url)
      PROVE  parent \in Rows /\ Table(parent) \notin {"task", "scan", "assessment"}
  <2>1. Parents(Reference(v, url)) = {Vulnerability(v)}
    BY ParentsAre
  <2> QED
    BY <1>7, <2>1, RowsAre, KindsAre
<1>8. ASSUME NEW repo \in Repos, NEW p \in Packages, NEW v \in AdvisoryIds,
             row = PackageVuln(repo, p, v)
      PROVE  parent \in Rows /\ Table(parent) \notin {"task", "scan", "assessment"}
  <2>1. Parents(PackageVuln(repo, p, v)) = {Package(repo, p), Vulnerability(v)}
    BY ParentsAre
  <2> QED
    BY <1>8, <2>1, RowsAre, KindsAre
<1>9. ASSUME NEW repo \in Repos, NEW p \in Packages, NEW v \in AdvisoryIds,
             row = Assessment(repo, p, v)
      PROVE  parent \in Rows /\ Table(parent) \notin {"task", "scan", "assessment"}
  <2>1. Parents(Assessment(repo, p, v)) = {PackageVuln(repo, p, v)}
    BY ParentsAre
  <2> QED
    BY <1>9, <2>1, RowsAre, KindsAre
<1>10. ASSUME NEW repo \in Repos, NEW p \in Packages, NEW v \in AdvisoryIds,
             row = Task(repo, p, v)
      PROVE  parent \in Rows /\ Table(parent) \notin {"task", "scan", "assessment"}
  <2>1. Parents(Task(repo, p, v)) = {Repo(repo), PackageVuln(repo, p, v)}
    BY ParentsAre
  <2> QED
    BY <1>10, <2>1, RowsAre, KindsAre
<1> QED
  BY <1>1, <1>2, <1>3, <1>4, <1>5, <1>6, <1>7, <1>8, <1>9, <1>10, RowKinds

LEMMA AssessmentRows ==
    ASSUME NEW row \in Rows, Table(row) = "assessment"
    PROVE  \E repo \in Repos, p \in Packages, v \in AdvisoryIds :
             row = Assessment(repo, p, v)
BY RowKinds DEF Table, Organization, Repo, Scan, Package, Vulnerability, Alias,
       Reference, PackageVuln, Assessment, Task

LEMMA ScanRows ==
    ASSUME NEW row \in Rows, Table(row) = "scan"
    PROVE  \E s \in Scans, repo \in Repos : row = Scan(s, repo)
BY RowKinds DEF Table, Organization, Repo, Scan, Package, Vulnerability, Alias,
       Reference, PackageVuln, Assessment, Task

LEMMA MissingLinkIsNoRow == MissingLink \notin Rows
BY RowKinds DEF MissingLink, Organization, Repo, Scan, Package, Vulnerability, Alias,
       Reference, PackageVuln, Assessment, Task

-----------------------------------------------------------------------------
(* The plan of a result *)

\* choose_canonical_id always finds an id, one of the advisory's own.
LEMMA CanonicalIsId ==
    ASSUME NEW advisory \in Advisories
    PROVE  CanonicalId(advisory) \in AdvisoryIds
<1> DEFINE ids == Ids(advisory)
           Best(i) == \A j \in DOMAIN ids : PrefixRank(ids[i]) <= PrefixRank(ids[j])
           ranks == {PrefixRank(ids[i]) : i \in DOMAIN ids}
           best == {i \in DOMAIN ids : Best(i)}
<1>1. ids \in Seq(AdvisoryIds) /\ DOMAIN ids \in SUBSET Nat /\ DOMAIN ids # {}
  <2>1. advisory.source \in AdvisoryIds /\ advisory.aliases \in Seq(AdvisoryIds)
    BY DEF Advisories
  <2>2. <<advisory.source>> \in Seq(AdvisoryIds) /\ Len(<<advisory.source>>) = 1
    BY <2>1
  <2>3. ids \in Seq(AdvisoryIds) /\ Len(ids) = 1 + Len(advisory.aliases)
    BY <2>1, <2>2, ConcatProperties DEF Ids
  <2> HIDE DEF ids
  <2> QED
    BY <2>1, <2>3
<1>2. \A id : PrefixRank(id) \in Nat
  BY DEF PrefixRank
<1> HIDE DEF ids
<1>3. PICK least \in ranks : \A rank \in ranks : least <= rank
  <2>1. ranks \in SUBSET Nat /\ ranks # {}
    BY <1>1, <1>2
  <2> HIDE DEF ranks
  <2> QED
    BY <2>1, LeastNatural
<1>4. best \in SUBSET Nat /\ best # {}
  BY <1>1, <1>3
<1>5. PICK i \in best : \A j \in best : i <= j
  <2> HIDE DEF best
  <2> QED
    BY <1>4, LeastNatural
<1>6. \A j \in DOMAIN ids : \/ PrefixRank(ids[i]) < PrefixRank(ids[j])
                            \/ PrefixRank(ids[i]) = PrefixRank(ids[j]) /\ i <= j
  <2> SUFFICES ASSUME NEW j \in DOMAIN ids, ~ (PrefixRank(ids[i]) < PrefixRank(ids[j]))
               PROVE  PrefixRank(ids[i]) = PrefixRank(ids[j]) /\ i <= j
    OBVIOUS
  <2>1. PrefixRank(ids[i]) = PrefixRank(ids[j])
    BY <1>2, <1>5
  <2>2. j \in best
    BY <1>5, <2>1
  <2> QED
    BY <1>5, <2>1, <2>2
<1>7. \E k \in DOMAIN ids : \A j \in DOMAIN ids :
        \/ PrefixRank(ids[k]) < PrefixRank(ids[j])
        \/ PrefixRank(ids[k]) = PrefixRank(ids[j]) /\ k <= j
  BY <1>5, <1>6
<1> QED
  BY <1>1, <1>7 DEF CanonicalId, ids

\* What ensure_aliases and ensure_references store points to the row before them.
LEMMA VulnerabilityRowsAre ==
    ASSUME NEW advisory \in Advisories
    PROVE  LET rows == VulnerabilityRows(advisory)
               v == CanonicalId(advisory)
           IN /\ rows \in Seq(Rows) /\ rows # <<>>
              /\ rows[1] = Vulnerability(v)
              /\ \A k \in DOMAIN rows : k > 1 =>
                   \/ \E id \in AdvisoryIds : rows[k] = Alias(v, id)
                   \/ \E url \in Urls : rows[k] = Reference(v, url)
<1> DEFINE v == CanonicalId(advisory)
           aliases == [i \in DOMAIN Ids(advisory) |-> Alias(v, Ids(advisory)[i])]
           references == [i \in DOMAIN advisory.urls |-> Reference(v, advisory.urls[i])]
           first == <<Vulnerability(v)>>
<1>1. v \in AdvisoryIds
  BY CanonicalIsId
<1>2. Ids(advisory) \in Seq(AdvisoryIds) /\ advisory.urls \in Seq(Urls)
  BY DEF Ids, Advisories
<1> HIDE DEF v
<1>3. aliases \in Seq(Rows) /\ \A i \in DOMAIN aliases :
                                 \E id \in AdvisoryIds : aliases[i] = Alias(v, id)
  BY <1>1, <1>2, RowsAre
<1>4. references \in Seq(Rows) /\ \A i \in DOMAIN references :
                                    \E url \in Urls : references[i] = Reference(v, url)
  BY <1>1, <1>2, RowsAre
<1>5. first \in Seq(Rows) /\ Len(first) = 1 /\ first[1] = Vulnerability(v)
  BY <1>1, RowsAre
<1>6. VulnerabilityRows(advisory) = first \o aliases \o references
  BY DEF VulnerabilityRows, v
<1> HIDE DEF aliases, references, first
<1> DEFINE head == first \o aliases
<1>7. /\ head \in Seq(Rows) /\ Len(head) = 1 + Len(aliases)
      /\ \A i \in 1 .. 1 + Len(aliases) :
           head[i] = IF i <= 1 THEN first[i] ELSE aliases[i - 1]
  <2>1. /\ first \o aliases \in Seq(Rows)
        /\ Len(first \o aliases) = Len(first) + Len(aliases)
        /\ \A i \in 1 .. Len(first) + Len(aliases) :
             (first \o aliases)[i] = IF i <= Len(first) THEN first[i] ELSE aliases[i - Len(first)]
    BY <1>3, <1>5, ConcatProperties
  <2> QED
    BY <1>5, <2>1
<1> HIDE DEF head
<1> DEFINE rows == head \o references
<1>8. /\ rows \in Seq(Rows) /\ Len(rows) = Len(head) + Len(references)
      /\ \A i \in 1 .. Len(head) + Len(references) :
           rows[i] = IF i <= Len(head) THEN head[i] ELSE references[i - Len(head)]
  BY <1>4, <1>7, ConcatProperties
<1>9. rows = VulnerabilityRows(advisory)
  BY <1>6 DEF head
<1> HIDE DEF rows
<1>10. rows # <<>> /\ rows[1] = Vulnerability(v)
  BY <1>3, <1>4, <1>5, <1>7, <1>8
<1>11. ASSUME NEW k \in DOMAIN rows, k > 1
       PROVE  \/ \E id \in AdvisoryIds : rows[k] = Alias(v, id)
              \/ \E url \in Urls : rows[k] = Reference(v, url)
  <2>1. CASE k <= Len(head)
    <3>1. k - 1 \in DOMAIN aliases /\ rows[k] = aliases[k - 1]
      BY <1>3, <1>4, <1>7, <1>8, <1>11, <2>1
    <3> QED
      BY <1>3, <3>1
  <2>2. CASE k > Len(head)
    <3>1. k - Len(head) \in DOMAIN references /\ rows[k] = references[k - Len(head)]
      BY <1>3, <1>4, <1>7, <1>8, <1>11, <2>2
    <3> QED
      BY <1>4, <3>1
  <2> QED
    BY <1>7, <1>8, <2>1, <2>2
<1> QED
  BY <1>8, <1>9, <1>10, <1>11 DEF v

\* The places of the rows of a result in its plan.
Shape(p, s, result) ==
    LET packages == result.packages
        vulnerabilities == result.vulnerabilities
        tasks == result.tasks
        after == 1 + Len(packages)
        last == after + Len(vulnerabilities)
    IN /\ Len(p) = last + Len(tasks)
       /\ p[1] = <<Organization(result.repo), Repo(result.repo), Scan(s, result.repo)>>
       /\ \A n \in DOMAIN packages : p[1 + n] = <<Package(result.repo, packages[n])>>
       /\ \A n \in DOMAIN vulnerabilities :
            p[after + n] = VulnerabilityRows(vulnerabilities[n])
       /\ \A n \in DOMAIN tasks : p[last + n] = TaskRows(result, tasks[n])

LEMMA TaskRowsAre ==
    ASSUME NEW result \in ScanResults, NEW task \in Packages \X AdvisoryIds
    PROVE  LET rows == TaskRows(result, task)
           IN \/ rows = <<MissingLink>>
              \/ /\ task[1] \in Range(result.packages)
                 /\ \E i \in DOMAIN result.vulnerabilities :
                      CanonicalId(result.vulnerabilities[i]) = task[2]
                 /\ rows = <<PackageVuln(result.repo, task[1], task[2]),
                             Assessment(result.repo, task[1], task[2]),
                             Task(result.repo, task[1], task[2])>>
BY DEF TaskRows

LEMMA PlanShape ==
    ASSUME NEW s \in Scans, NEW result \in ScanResults
    PROVE  /\ Plan(s, result) \in Seq(Seq(Rows \union {MissingLink}))
           /\ Shape(Plan(s, result), s, result)
<1> DEFINE repo == result.repo
           T == Seq(Rows \union {MissingLink})
           own == <<<<Organization(repo), Repo(repo), Scan(s, repo)>>>>
           pkgs == [i \in DOMAIN result.packages |-> <<Package(repo, result.packages[i])>>]
           vulns == [i \in DOMAIN result.vulnerabilities |->
                       VulnerabilityRows(result.vulnerabilities[i])]
           tasks == [i \in DOMAIN result.tasks |-> TaskRows(result, result.tasks[i])]
<1>1. /\ repo \in Repos
      /\ result.packages \in Seq(Packages)
      /\ result.vulnerabilities \in Seq(Advisories)
      /\ result.tasks \in Seq(Packages \X AdvisoryIds)
  BY DEF ScanResults
<1> HIDE DEF repo
<1>2. own \in Seq(T) /\ Len(own) = 1
      /\ own[1] = <<Organization(repo), Repo(repo), Scan(s, repo)>>
  <2>1. Organization(repo) \in Rows /\ Repo(repo) \in Rows /\ Scan(s, repo) \in Rows
    BY <1>1, RowsAre
  <2>2. <<Organization(repo), Repo(repo), Scan(s, repo)>> \in T
    BY <2>1
  <2> QED
    BY <2>2
<1>3. pkgs \in Seq(T) /\ Len(pkgs) = Len(result.packages)
  <2>1. ASSUME NEW i \in DOMAIN result.packages
        PROVE  <<Package(repo, result.packages[i])>> \in T
    BY <1>1, RowsAre
  <2>2. result.packages \in Seq(Packages)
    BY <1>1
  <2>3. pkgs \in [1 .. Len(result.packages) -> T]
    BY <2>1, <2>2
  <2> HIDE DEF pkgs, T
  <2> QED
    BY <2>2, <2>3
<1>4. vulns \in Seq(T) /\ Len(vulns) = Len(result.vulnerabilities)
  <2>1. ASSUME NEW i \in DOMAIN result.vulnerabilities
        PROVE  VulnerabilityRows(result.vulnerabilities[i]) \in T
    <3>1. VulnerabilityRows(result.vulnerabilities[i]) \in Seq(Rows)
      BY <1>1, VulnerabilityRowsAre
    <3> QED
      BY <3>1
  <2> QED
    BY <1>1, <2>1
<1>5. tasks \in Seq(T) /\ Len(tasks) = Len(result.tasks)
  <2>1. ASSUME NEW i \in DOMAIN result.tasks
        PROVE  TaskRows(result, result.tasks[i]) \in T
    <3>1. PICK pkg \in Packages, v \in AdvisoryIds : result.tasks[i] = <<pkg, v>>
      BY <1>1
    <3>2. CASE TaskRows(result, result.tasks[i]) = <<MissingLink>>
      BY <3>2
    <3>3. CASE TaskRows(result, result.tasks[i]) =
                 <<PackageVuln(repo, pkg, v), Assessment(repo, pkg, v), Task(repo, pkg, v)>>
      <4>1. /\ PackageVuln(repo, pkg, v) \in Rows
            /\ Assessment(repo, pkg, v) \in Rows /\ Task(repo, pkg, v) \in Rows
        BY <1>1, RowsAre
      <4> QED
        BY <3>3, <4>1
    <3> QED
      BY <1>1, <3>1, <3>2, <3>3, TaskRowsAre DEF repo
  <2> QED
    BY <1>1, <2>1
<1>6. Plan(s, result) = own \o pkgs \o vulns \o tasks
  BY DEF Plan, repo
<1>7. /\ \A n \in DOMAIN result.packages : pkgs[n] = <<Package(repo, result.packages[n])>>
      /\ \A n \in DOMAIN result.vulnerabilities :
           vulns[n] = VulnerabilityRows(result.vulnerabilities[n])
      /\ \A n \in DOMAIN result.tasks : tasks[n] = TaskRows(result, result.tasks[n])
  OBVIOUS
<1> HIDE DEF own, pkgs, vulns, tasks, T
<1> DEFINE two == own \o pkgs
           three == two \o vulns
           four == three \o tasks
<1>8. /\ two \in Seq(T) /\ Len(two) = Len(own) + Len(pkgs)
      /\ \A i \in 1 .. Len(own) + Len(pkgs) :
           two[i] = IF i <= Len(own) THEN own[i] ELSE pkgs[i - Len(own)]
  <2>1. own \in Seq(T) /\ pkgs \in Seq(T)
    BY <1>2, <1>3
  <2> QED
    BY <2>1, ConcatProperties
<1> HIDE DEF two
<1>9. /\ three \in Seq(T) /\ Len(three) = Len(two) + Len(vulns)
      /\ \A i \in 1 .. Len(two) + Len(vulns) :
           three[i] = IF i <= Len(two) THEN two[i] ELSE vulns[i - Len(two)]
  <2>1. two \in Seq(T) /\ vulns \in Seq(T)
    BY <1>4, <1>8
  <2> QED
    BY <2>1, ConcatProperties
<1> HIDE DEF three
<1>10. /\ four \in Seq(T) /\ Len(four) = Len(three) + Len(tasks)
       /\ \A i \in 1 .. Len(three) + Len(tasks) :
            four[i] = IF i <= Len(three) THEN three[i] ELSE tasks[i - Len(three)]
  <2>1. three \in Seq(T) /\ tasks \in Seq(T)
    BY <1>5, <1>9
  <2> QED
    BY <2>1, ConcatProperties
<1>11. Plan(s, result) = four
  BY <1>6 DEF two, three
<1> HIDE DEF four
<1>12. Len(two) = 1 + Len(pkgs) /\ Len(three) = 1 + Len(pkgs) + Len(vulns)
  BY <1>2, <1>8, <1>9
<1>13. /\ Len(own) \in Nat /\ Len(pkgs) \in Nat /\ Len(vulns) \in Nat /\ Len(tasks) \in Nat
       /\ DOMAIN result.packages = 1 .. Len(pkgs)
       /\ DOMAIN result.vulnerabilities = 1 .. Len(vulns)
       /\ DOMAIN result.tasks = 1 .. Len(tasks)
  BY <1>1, <1>2, <1>3, <1>4, <1>5
<1>14. four[1] = own[1]
  BY <1>2, <1>8, <1>9, <1>10, <1>12, <1>13
<1>15. ASSUME NEW n \in 1 .. Len(pkgs)
       PROVE  four[1 + n] = pkgs[n]
  BY <1>2, <1>8, <1>9, <1>10, <1>12, <1>13
<1>16. ASSUME NEW n \in 1 .. Len(vulns)
       PROVE  four[1 + Len(pkgs) + n] = vulns[n]
  BY <1>9, <1>10, <1>12, <1>13
<1>17. ASSUME NEW n \in 1 .. Len(tasks)
       PROVE  four[1 + Len(pkgs) + Len(vulns) + n] = tasks[n]
  BY <1>10, <1>12, <1>13
<1>18. Len(four) = 1 + Len(result.packages) + Len(result.vulnerabilities) + Len(result.tasks)
  BY <1>3, <1>4, <1>5, <1>10, <1>12, <1>13
<1>19. Shape(four, s, result)
  BY <1>2, <1>3, <1>4, <1>7, <1>13, <1>14, <1>15, <1>16, <1>17, <1>18 DEF Shape, repo
<1> QED
  BY <1>10, <1>11, <1>19 DEF T

LEMMA ResultSizes ==
    ASSUME NEW result \in ScanResults
    PROVE  /\ Len(result.packages) \in Nat /\ Len(result.vulnerabilities) \in Nat
           /\ Len(result.tasks) \in Nat
           /\ DOMAIN result.packages = 1 .. Len(result.packages)
           /\ DOMAIN result.vulnerabilities = 1 .. Len(result.vulnerabilities)
           /\ DOMAIN result.tasks = 1 .. Len(result.tasks)
BY DEF ScanResults

LEMMA PlanSize ==
    ASSUME NEW s \in Scans, NEW result \in ScanResults, NEW p, Shape(p, s, result)
    PROVE  Len(p) = 1 + Len(result.packages) + Len(result.vulnerabilities) + Len(result.tasks)
BY DEF Shape

LEMMA PlanIsLong ==
    ASSUME NEW s \in Scans, NEW result \in ScanResults, NEW p, Shape(p, s, result)
    PROVE  Len(p) >= 1 + Len(result.packages) + Len(result.vulnerabilities) /\ Len(p) >= 1
<1>1. \A a, b, c \in Nat : 1 + a + b + c >= 1 + a + b /\ 1 + a + b + c >= 1
  OBVIOUS
<1> QED
  BY <1>1, PlanSize, ResultSizes, Zenon

\* An item of a plan is the scan's own, or one package's, vulnerability's or task's.
ItemIs(p, i, s, result) ==
    LET np == Len(result.packages)
        nv == Len(result.vulnerabilities)
    IN \/ /\ i = 1
          /\ p[i] = <<Organization(result.repo), Repo(result.repo), Scan(s, result.repo)>>
       \/ \E n \in DOMAIN result.packages :
            i = 1 + n /\ p[i] = <<Package(result.repo, result.packages[n])>>
       \/ \E n \in DOMAIN result.vulnerabilities :
            i = 1 + np + n /\ p[i] = VulnerabilityRows(result.vulnerabilities[n])
       \/ \E n \in DOMAIN result.tasks :
            i = 1 + np + nv + n /\ p[i] = TaskRows(result, result.tasks[n])

LEMMA ItemKinds ==
    ASSUME NEW s \in Scans, NEW result \in ScanResults, NEW p, Shape(p, s, result),
           NEW i \in 1 .. Len(p)
    PROVE  ItemIs(p, i, s, result)
<1> DEFINE np == Len(result.packages)
           nv == Len(result.vulnerabilities)
           nt == Len(result.tasks)
<1>1. /\ np \in Nat /\ nv \in Nat /\ nt \in Nat
      /\ DOMAIN result.packages = 1 .. np
      /\ DOMAIN result.vulnerabilities = 1 .. nv
      /\ DOMAIN result.tasks = 1 .. nt
  BY ResultSizes
<1>2. Len(p) = 1 + np + nv + nt
  BY PlanSize
<1> HIDE DEF np, nv, nt
<1>3. CASE i = 1
  BY <1>3 DEF Shape, ItemIs
<1>4. CASE i \in 2 .. 1 + np
  <2>1. i - 1 \in DOMAIN result.packages /\ i = 1 + (i - 1)
    BY <1>1, <1>4
  <2> QED
    BY <2>1 DEF Shape, ItemIs
<1>5. CASE i \in 2 + np .. 1 + np + nv
  <2>1. i - (1 + np) \in DOMAIN result.vulnerabilities /\ i = 1 + np + (i - (1 + np))
    BY <1>1, <1>5
  <2> QED
    BY <2>1 DEF Shape, ItemIs, np
<1>6. CASE i \in 2 + np + nv .. 1 + np + nv + nt
  <2>1. /\ i - (1 + np + nv) \in DOMAIN result.tasks
        /\ i = 1 + np + nv + (i - (1 + np + nv))
    BY <1>1, <1>6
  <2> QED
    BY <2>1 DEF Shape, ItemIs, np, nv
<1>7. \/ i = 1 \/ i \in 2 .. 1 + np \/ i \in 2 + np .. 1 + np + nv
      \/ i \in 2 + np + nv .. 1 + np + nv + nt
  BY <1>1, <1>2
<1> QED
  BY <1>3, <1>4, <1>5, <1>6, <1>7

\* A package and a vulnerability of a result have rows before those of any task.
RowBefore(p, last, row) == \E j \in 1 .. last : 1 \in DOMAIN p[j] /\ p[j][1] = row

LEMMA LinksBefore ==
    ASSUME NEW s \in Scans, NEW result \in ScanResults, NEW p, Shape(p, s, result),
           NEW pkg \in Range(result.packages), NEW v,
           \E n \in DOMAIN result.vulnerabilities :
             CanonicalId(result.vulnerabilities[n]) = v
    PROVE  LET first == 1 + Len(result.packages) + Len(result.vulnerabilities)
           IN RowBefore(p, first, Package(result.repo, pkg))
                /\ RowBefore(p, first, Vulnerability(v))
<1> DEFINE np == Len(result.packages)
           nv == Len(result.vulnerabilities)
<1>1. /\ np \in Nat /\ nv \in Nat
      /\ DOMAIN result.packages = 1 .. np
      /\ DOMAIN result.vulnerabilities = 1 .. nv
      /\ result.vulnerabilities \in Seq(Advisories)
  BY DEF ScanResults
<1>2. PICK n \in 1 .. np : result.packages[n] = pkg
  BY <1>1 DEF Range
<1>3. 1 \in DOMAIN p[1 + n] /\ p[1 + n][1] = Package(result.repo, pkg)
  <2>1. p[1 + n] = <<Package(result.repo, pkg)>>
    BY <1>1, <1>2 DEF Shape
  <2> QED
    BY <2>1
<1>4. PICK m \in 1 .. nv : CanonicalId(result.vulnerabilities[m]) = v
  BY <1>1
<1>5. 1 \in DOMAIN p[1 + np + m] /\ p[1 + np + m][1] = Vulnerability(v)
  <2>1. p[1 + np + m] = VulnerabilityRows(result.vulnerabilities[m])
    BY <1>1, <1>4 DEF Shape
  <2>2. result.vulnerabilities[m] \in Advisories
    BY <1>1
  <2> QED
    BY <1>4, <2>1, <2>2, VulnerabilityRowsAre
<1> HIDE DEF np, nv
<1>6. 1 + n \in 1 .. 1 + np + nv /\ 1 + np + m \in 1 .. 1 + np + nv
  BY <1>1
<1> QED
  BY <1>3, <1>5, <1>6 DEF RowBefore, np, nv

\* Every row of a plan comes after the rows its foreign keys point to.
LEMMA PlanParentsFirst ==
    ASSUME NEW s \in Scans, NEW result \in ScanResults, NEW p \in Seq(Seq(Rows \union {MissingLink})),
           Shape(p, s, result)
    PROVE  ParentsFirst(p)
<1> DEFINE repo == result.repo
<1>1. /\ repo \in Repos
      /\ result.packages \in Seq(Packages)
      /\ result.vulnerabilities \in Seq(Advisories)
      /\ result.tasks \in Seq(Packages \X AdvisoryIds)
  BY DEF ScanResults
<1>2. /\ 1 \in DOMAIN p /\ p[1] = <<Organization(repo), Repo(repo), Scan(s, repo)>>
      /\ 1 \in DOMAIN p[1] /\ p[1][1] = Organization(repo)
      /\ 2 \in DOMAIN p[1] /\ p[1][2] = Repo(repo)
  <2>1. p[1] = <<Organization(repo), Repo(repo), Scan(s, repo)>>
    BY DEF Shape
  <2>2. 1 \in DOMAIN p
    <3>1. Len(p) >= 1
      BY PlanIsLong
    <3> QED
      BY <3>1
  <2> QED
    BY <2>1, <2>2
<1> SUFFICES ASSUME NEW i \in DOMAIN p, NEW k \in DOMAIN p[i], p[i][k] # MissingLink,
                    NEW parent \in Parents(p[i][k])
             PROVE  \E j \in DOMAIN p : \E l \in DOMAIN p[j] :
                      Before(j, l, i, k) /\ p[j][l] = parent
  BY DEF ParentsFirst
<1> DEFINE First == \E j \in DOMAIN p : \E l \in DOMAIN p[j] :
                      Before(j, l, i, k) /\ p[j][l] = parent
<1>3. i \in 1 .. Len(p) /\ k \in Nat
  OBVIOUS
<1> DEFINE np == Len(result.packages)
           nv == Len(result.vulnerabilities)
<1>4. np \in Nat /\ nv \in Nat /\ Len(p) >= 1 + np + nv
  BY PlanIsLong, ResultSizes
<1> HIDE DEF repo
<1>5. CASE i = 1
  <2>1. k \in 1 .. 3 /\ p[i][k] = <<Organization(repo), Repo(repo), Scan(s, repo)>>[k]
    BY <1>2, <1>5
  <2>2. CASE k = 1
    BY <1>1, <1>5, <2>1, <2>2, ParentsAre
  <2>3. CASE k = 2
    <3>1. parent = Organization(repo)
      BY <1>1, <1>5, <2>1, <2>3, ParentsAre
    <3> QED
      BY <1>2, <1>5, <2>3, <3>1 DEF Before
  <2>4. CASE k = 3
    <3>1. parent = Repo(repo)
      BY <1>1, <1>5, <2>1, <2>4, ParentsAre
    <3> QED
      BY <1>2, <1>5, <2>4, <3>1 DEF Before
  <2> QED
    BY <2>1, <2>2, <2>3, <2>4
<1>6. ASSUME NEW n \in DOMAIN result.packages, i = 1 + n,
             p[i] = <<Package(repo, result.packages[n])>>
      PROVE  First
  <2>1. result.packages[n] \in Packages /\ k = 1 /\ i > 1
    BY <1>1, <1>6
  <2>2. p[i][k] = Package(repo, result.packages[n])
    BY <1>6, <2>1
  <2>3. parent = Repo(repo)
    BY <1>1, <2>1, <2>2, ParentsAre
  <2> QED
    BY <1>2, <2>1, <2>3 DEF Before
<1>7. ASSUME NEW n \in DOMAIN result.vulnerabilities, i = 1 + np + n,
             p[i] = VulnerabilityRows(result.vulnerabilities[n])
      PROVE  First
  <2> DEFINE v == CanonicalId(result.vulnerabilities[n])
  <2>1. result.vulnerabilities[n] \in Advisories
    BY <1>1, <1>7
  <2>2. v \in AdvisoryIds
    BY <2>1, CanonicalIsId
  <2> HIDE DEF v
  <2>3. /\ p[i] # <<>> /\ p[i] \in Seq(Rows) /\ p[i][1] = Vulnerability(v)
        /\ k > 1 => \/ \E id \in AdvisoryIds : p[i][k] = Alias(v, id)
                    \/ \E url \in Urls : p[i][k] = Reference(v, url)
    BY <1>7, <2>1, VulnerabilityRowsAre DEF v
  <2>4. k = 1 => FALSE
    BY <2>2, <2>3, ParentsAre
  <2>5. parent = Vulnerability(v)
    <3>1. k > 1
      BY <2>4
    <3>2. CASE \E id \in AdvisoryIds : p[i][k] = Alias(v, id)
      <4>1. PICK id \in AdvisoryIds : p[i][k] = Alias(v, id)
        BY <3>2
      <4>2. Parents(Alias(v, id)) = {Vulnerability(v)}
        BY <2>2, ParentsAre
      <4> QED
        BY <4>1, <4>2
    <3>3. CASE \E url \in Urls : p[i][k] = Reference(v, url)
      <4>1. PICK url \in Urls : p[i][k] = Reference(v, url)
        BY <3>3
      <4>2. Parents(Reference(v, url)) = {Vulnerability(v)}
        BY <2>2, ParentsAre
      <4> QED
        BY <4>1, <4>2
    <3> QED
      BY <2>3, <3>1, <3>2, <3>3
  <2>6. 1 \in DOMAIN p[i] /\ Before(i, 1, i, k)
    BY <2>3, <2>4 DEF Before
  <2> QED
    BY <2>3, <2>5, <2>6
<1>8. ASSUME NEW n \in DOMAIN result.tasks, i = 1 + np + nv + n,
             p[i] = TaskRows(result, result.tasks[n])
      PROVE  First
  <2> DEFINE pkg == result.tasks[n][1]
             v == result.tasks[n][2]
  <2>1. pkg \in Packages /\ v \in AdvisoryIds /\ result.tasks[n] \in Packages \X AdvisoryIds
    BY <1>1, <1>8
  <2>2. /\ pkg \in Range(result.packages)
        /\ \E m \in DOMAIN result.vulnerabilities :
             CanonicalId(result.vulnerabilities[m]) = v
        /\ p[i] = <<PackageVuln(repo, pkg, v), Assessment(repo, pkg, v), Task(repo, pkg, v)>>
    <3>1. p[i] # <<MissingLink>>
      OBVIOUS
    <3> QED
      BY <1>8, <2>1, <3>1, TaskRowsAre DEF repo
  <2> HIDE DEF pkg, v
  <2>3. /\ RowBefore(p, 1 + np + nv, Package(repo, pkg))
        /\ RowBefore(p, 1 + np + nv, Vulnerability(v))
    BY <2>2, LinksBefore DEF repo
  <2>4. \A j \in 1 .. 1 + np + nv : \A l : j \in DOMAIN p /\ Before(j, l, i, k)
    <3>1. n \in 1 .. Len(result.tasks) /\ Len(result.tasks) \in Nat
      BY <1>8, ResultSizes
    <3> HIDE DEF np, nv
    <3> QED
      BY <1>3, <1>4, <1>8, <3>1 DEF Before
  <2>5. k \in 1 .. 3
        /\ p[i][k] = <<PackageVuln(repo, pkg, v), Assessment(repo, pkg, v), Task(repo, pkg, v)>>[k]
    BY <2>2
  <2>6. CASE k = 1
    <3>1. Parents(PackageVuln(repo, pkg, v)) = {Package(repo, pkg), Vulnerability(v)}
      BY <1>1, <2>1, ParentsAre
    <3>2. parent = Package(repo, pkg) \/ parent = Vulnerability(v)
      BY <2>5, <2>6, <3>1
    <3> QED
      BY <2>3, <2>4, <3>2 DEF RowBefore
  <2>7. 1 \in DOMAIN p[i] /\ p[i][1] = PackageVuln(repo, pkg, v)
    BY <2>2
  <2>8. CASE k = 2
    <3>1. Parents(Assessment(repo, pkg, v)) = {PackageVuln(repo, pkg, v)}
      BY <1>1, <2>1, ParentsAre
    <3>2. parent = PackageVuln(repo, pkg, v)
      BY <2>5, <2>8, <3>1
    <3> QED
      BY <2>7, <2>8, <3>2 DEF Before
  <2>9. CASE k = 3
    <3>1. Parents(Task(repo, pkg, v)) = {Repo(repo), PackageVuln(repo, pkg, v)}
      BY <1>1, <2>1, ParentsAre
    <3>2. parent = Repo(repo) \/ parent = PackageVuln(repo, pkg, v)
      BY <2>5, <2>9, <3>1
    <3>3. i > 1
      <4>1. n \in 1 .. Len(result.tasks) /\ Len(result.tasks) \in Nat
        BY <1>8, ResultSizes
      <4> HIDE DEF np, nv
      <4> QED
        BY <1>4, <1>8, <4>1
    <3> QED
      BY <1>2, <2>7, <2>9, <3>2, <3>3 DEF Before
  <2> QED
    BY <2>5, <2>6, <2>8, <2>9
<1>9. ItemIs(p, i, s, result)
  BY <1>3, ItemKinds
<1> QED
  BY <1>5, <1>6, <1>7, <1>8, <1>9 DEF ItemIs, repo

\* Rows of links and assessments are the first two of a task's.
LinksTogether(p, i, result) ==
    \A k \in DOMAIN p[i] :
      Table(p[i][k]) \in {"package_vulnerability", "assessment"} =>
        \E pkg \in Packages, v \in AdvisoryIds :
          p[i] = <<PackageVuln(result.repo, pkg, v), Assessment(result.repo, pkg, v),
                   Task(result.repo, pkg, v)>>

\* The kinds of the rows of an item.
LEMMA ItemRowKinds ==
    ASSUME NEW s \in Scans, NEW result \in ScanResults,
           NEW p \in Seq(Seq(Rows \union {MissingLink})), Shape(p, s, result),
           NEW i \in DOMAIN p
    PROVE  p[i] # <<>> /\ ScanIsThird(s, p, i) /\ LinksTogether(p, i, result)
<1> DEFINE repo == result.repo
           Goal == p[i] # <<>> /\ ScanIsThird(s, p, i) /\ LinksTogether(p, i, result)
<1>1. /\ repo \in Repos
      /\ result.packages \in Seq(Packages)
      /\ result.vulnerabilities \in Seq(Advisories)
      /\ result.tasks \in Seq(Packages \X AdvisoryIds)
  BY DEF ScanResults
<1>2. ItemIs(p, i, s, result)
  BY ItemKinds
<1> HIDE DEF repo
<1>3. CASE i = 1 /\ p[i] = <<Organization(repo), Repo(repo), Scan(s, repo)>>
  <2>1. /\ Table(Organization(repo)) = "organization" /\ Table(Repo(repo)) = "repo"
        /\ Table(Scan(s, repo)) = "scan"
    BY KindsAre
  <2>2. DOMAIN p[i] = 1 .. 3 /\ p[i] # <<>>
        /\ p[i][1] = Organization(repo) /\ p[i][2] = Repo(repo) /\ p[i][3] = Scan(s, repo)
    BY <1>3
  <2>3. IsScanOf(s, p[i][3])
    BY <1>1, <2>2 DEF IsScanOf
  <2> QED
    BY <1>3, <2>1, <2>2, <2>3 DEF ScanIsThird, LinksTogether
<1>4. ASSUME NEW n \in DOMAIN result.packages,
             p[i] = <<Package(repo, result.packages[n])>>
      PROVE  Goal
  <2>1. Table(Package(repo, result.packages[n])) = "package"
    BY KindsAre
  <2>2. DOMAIN p[i] = {1} /\ p[i] # <<>> /\ p[i][1] = Package(repo, result.packages[n])
    BY <1>4
  <2> QED
    BY <2>1, <2>2 DEF ScanIsThird, LinksTogether
<1>5. ASSUME NEW n \in DOMAIN result.vulnerabilities,
             p[i] = VulnerabilityRows(result.vulnerabilities[n])
      PROVE  Goal
  <2> DEFINE v == CanonicalId(result.vulnerabilities[n])
  <2>1. result.vulnerabilities[n] \in Advisories
    BY <1>1
  <2>2. v \in AdvisoryIds
    BY <2>1, CanonicalIsId
  <2>3. /\ p[i] # <<>> /\ p[i] \in Seq(Rows) /\ p[i][1] = Vulnerability(v)
        /\ \A k \in DOMAIN p[i] : k > 1 =>
             \/ \E id \in AdvisoryIds : p[i][k] = Alias(v, id)
             \/ \E url \in Urls : p[i][k] = Reference(v, url)
    BY <1>5, <2>1, VulnerabilityRowsAre
  <2> HIDE DEF v
  <2>4. \A k \in DOMAIN p[i] : Table(p[i][k]) \in {"vulnerability", "alias", "reference"}
    <3> SUFFICES ASSUME NEW k \in DOMAIN p[i]
                 PROVE  Table(p[i][k]) \in {"vulnerability", "alias", "reference"}
      OBVIOUS
    <3>1. CASE \E id \in AdvisoryIds : p[i][k] = Alias(v, id)
      BY <3>1, KindsAre
    <3>2. CASE \E url \in Urls : p[i][k] = Reference(v, url)
      BY <3>2, KindsAre
    <3>3. CASE k = 1
      BY <2>3, <3>3, KindsAre
    <3>4. k = 1 \/ k > 1
      BY <2>3
    <3> QED
      BY <2>3, <3>1, <3>2, <3>3, <3>4
  <2> QED
    BY <2>3, <2>4 DEF ScanIsThird, LinksTogether
<1>6. ASSUME NEW n \in DOMAIN result.tasks, p[i] = TaskRows(result, result.tasks[n])
      PROVE  Goal
  <2> DEFINE pkg == result.tasks[n][1]
             v == result.tasks[n][2]
  <2>1. pkg \in Packages /\ v \in AdvisoryIds /\ result.tasks[n] \in Packages \X AdvisoryIds
    BY <1>1, <1>6
  <2>2. \/ p[i] = <<MissingLink>>
        \/ p[i] = <<PackageVuln(repo, pkg, v), Assessment(repo, pkg, v), Task(repo, pkg, v)>>
    BY <1>6, <2>1, TaskRowsAre DEF repo
  <2> HIDE DEF pkg, v
  <2>3. CASE p[i] = <<MissingLink>>
    <3>1. DOMAIN p[i] = {1} /\ p[i] # <<>> /\ p[i][1] = MissingLink
      BY <2>3
    <3> QED
      BY <3>1, KindsAre DEF ScanIsThird, LinksTogether
  <2>4. CASE p[i] = <<PackageVuln(repo, pkg, v), Assessment(repo, pkg, v),
                      Task(repo, pkg, v)>>
    <3>1. /\ DOMAIN p[i] = 1 .. 3 /\ p[i] # <<>>
          /\ p[i][1] = PackageVuln(repo, pkg, v) /\ p[i][2] = Assessment(repo, pkg, v)
          /\ p[i][3] = Task(repo, pkg, v)
      BY <2>4
    <3>2. \A k \in DOMAIN p[i] :
            Table(p[i][k]) \in {"package_vulnerability", "assessment", "task"}
      <4>1. /\ Table(PackageVuln(repo, pkg, v)) = "package_vulnerability"
            /\ Table(Assessment(repo, pkg, v)) = "assessment"
            /\ Table(Task(repo, pkg, v)) = "task"
        BY KindsAre
      <4> QED
        BY <3>1, <4>1
    <3> QED
      BY <2>1, <2>4, <3>1, <3>2 DEF ScanIsThird, LinksTogether, repo
  <2> QED
    BY <2>2, <2>3, <2>4
<1> QED
  BY <1>2, <1>3, <1>4, <1>5, <1>6 DEF ItemIs, repo

LEMMA LinksDiffer ==
    ASSUME NEW repo \in Repos, NEW p \in Packages, NEW v \in AdvisoryIds,
           NEW repo2 \in Repos, NEW p2 \in Packages, NEW v2 \in AdvisoryIds
    PROVE  /\ PackageVuln(repo, p, v) = PackageVuln(repo2, p2, v2) <=>
                Assessment(repo, p, v) = Assessment(repo2, p2, v2)
           /\ PackageVuln(repo, p, v) # Assessment(repo2, p2, v2)
           /\ PackageVuln(repo, p, v) # Task(repo2, p2, v2)
           /\ Assessment(repo, p, v) # Task(repo2, p2, v2)
BY DEF PackageVuln, Assessment, Task

LEMMA PlanIsGood ==
    ASSUME NEW s \in Scans, NEW result \in ScanResults
    PROVE  GoodPlan(s, Plan(s, result))
<1> DEFINE p == Plan(s, result)
<1>1. p \in Seq(Seq(Rows \union {MissingLink})) /\ Shape(p, s, result)
  BY PlanShape
<1> HIDE DEF p
<1>2. \A i \in DOMAIN p : p[i] # <<>>
  BY <1>1, ItemRowKinds
<1>3. ScanOnce(s, p)
  BY <1>1, ItemRowKinds DEF ScanOnce
<1>4. p # <<>>
  <2>1. Len(p) >= 1
    BY <1>1, PlanIsLong
  <2> QED
    BY <1>1, <2>1
<1>5. ASSUME NEW i \in DOMAIN p, NEW k \in DOMAIN p[i],
             NEW repo \in Repos, NEW pkg \in Packages, NEW v \in AdvisoryIds
      PROVE  /\ p[i][k] = PackageVuln(repo, pkg, v) =>
                  k + 1 \in DOMAIN p[i] /\ p[i][k + 1] = Assessment(repo, pkg, v)
             /\ p[i][k] = Assessment(repo, pkg, v) =>
                  k - 1 \in DOMAIN p[i] /\ p[i][k - 1] = PackageVuln(repo, pkg, v)
  <2> SUFFICES ASSUME \/ p[i][k] = PackageVuln(repo, pkg, v)
                      \/ p[i][k] = Assessment(repo, pkg, v)
               PROVE  /\ p[i][k] = PackageVuln(repo, pkg, v) =>
                           k + 1 \in DOMAIN p[i] /\ p[i][k + 1] = Assessment(repo, pkg, v)
                      /\ p[i][k] = Assessment(repo, pkg, v) =>
                           k - 1 \in DOMAIN p[i] /\ p[i][k - 1] = PackageVuln(repo, pkg, v)
    OBVIOUS
  <2>1. Table(p[i][k]) \in {"package_vulnerability", "assessment"}
    BY KindsAre
  <2>2. PICK pkg2 \in Packages, v2 \in AdvisoryIds :
          p[i] = <<PackageVuln(result.repo, pkg2, v2), Assessment(result.repo, pkg2, v2),
                   Task(result.repo, pkg2, v2)>>
    <3>1. LinksTogether(p, i, result)
      BY <1>1, ItemRowKinds
    <3> QED
      BY <2>1, <3>1 DEF LinksTogether
  <2> DEFINE link == PackageVuln(result.repo, pkg2, v2)
             assessed == Assessment(result.repo, pkg2, v2)
             task == Task(result.repo, pkg2, v2)
  <2>3. result.repo \in Repos
    BY DEF ScanResults
  <2>4. /\ PackageVuln(repo, pkg, v) = link <=> Assessment(repo, pkg, v) = assessed
        /\ PackageVuln(repo, pkg, v) # assessed /\ PackageVuln(repo, pkg, v) # task
        /\ link # Assessment(repo, pkg, v) /\ Assessment(repo, pkg, v) # task
    BY <2>3, LinksDiffer
  <2>5. /\ DOMAIN p[i] = 1 .. 3
        /\ p[i][1] = link /\ p[i][2] = assessed /\ p[i][3] = task
    BY <2>2
  <2> HIDE DEF link, assessed, task
  <2>6. k = 1 \/ k = 2 \/ k = 3
    BY <2>5
  <2> QED
    BY <2>4, <2>5, <2>6
<1> QED
  BY <1>1, <1>2, <1>3, <1>4, <1>5, PlanParentsFirst
     DEF GoodPlan, Planned, AssessmentsFollow, p

-----------------------------------------------------------------------------
(* The invariant holds initially *)

LEMMA InitEstablishes == Init => IInv
<1> SUFFICES ASSUME Init
             PROVE  IInv
  OBVIOUS
<1>1. PICK rows \in InitialRows :
        stored = [row \in Rows |-> IF row \in rows THEN 1 ELSE 0]
  BY DEF Init
<1>2. /\ rows \subseteq Rows
      /\ \A row \in rows : Parents(row) \subseteq rows
      /\ \A repo \in Repos, p \in Packages, v \in AdvisoryIds :
           PackageVuln(repo, p, v) \in rows => Assessment(repo, p, v) \in rows
      /\ \A s \in Scans, repo \in Repos : Scan(s, repo) \notin rows
  BY ConstantsAssumption
<1>3. \A row \in Rows : stored[row] \in {0, 1} /\ (stored[row] > 0 <=> row \in rows)
  BY <1>1
<1>4. \A s \in Scans : /\ pc[s] = "idle" /\ plan[s] = <<>> /\ inserted[s] = {}
                       /\ item[s] = 1 /\ place[s] = 1
  BY DEF Init
<1>5. TypeOK
  BY <1>1 DEF Init, TypeOK
<1>6. PlansGood /\ SessionsPlaced /\ SeenIsVisible /\ InsertedSeen /\ PendingUnique
        /\ LinkIsOwn
  BY <1>4 DEF PlansGood, SessionsPlaced, SessionPlaced, SeenIsVisible, InsertedSeen,
              PendingUnique, LinkIsOwn, Running
<1>7. ScansNew
  BY <1>2, <1>3, RowsAre DEF ScansNew
<1>8. LinksAssessed
  BY <1>2, <1>3, RowsAre DEF LinksAssessed
<1>9. NoDuplicateRows
  BY <1>3 DEF NoDuplicateRows
<1>10. ParentsStored
  BY <1>2, <1>3 DEF ParentsStored
<1>11. ResultsStoredWhole
  BY <1>4, <1>7 DEF ResultsStoredWhole, ScansNew
<1> QED
  BY <1>5, <1>6, <1>7, <1>8, <1>9, <1>10, <1>11 DEF IInv

-----------------------------------------------------------------------------
(* Seeing to a row *)

\* The row a session sees to is in its plan.
LEMMA DueIsPlanned ==
    ASSUME IInv, NEW s \in Scans, pc[s] \in {"query", "insert", "requery"}
    PROVE  /\ item[s] \in DOMAIN plan[s] /\ place[s] \in DOMAIN plan[s][item[s]]
           /\ Due(s) = plan[s][item[s]][place[s]]
           /\ Due(s) \in Rows \union {MissingLink}
           /\ GoodPlan(s, plan[s])
<1>1. item[s] \in DOMAIN plan[s] /\ place[s] \in DOMAIN plan[s][item[s]]
  BY DEF IInv, SessionsPlaced, SessionPlaced, Placed
<1>2. plan[s] \in Seq(Seq(Rows \union {MissingLink}))
  BY DEF IInv, TypeOK
<1>3. plan[s][item[s]][place[s]] \in Rows \union {MissingLink}
  BY <1>1, <1>2
<1>4. GoodPlan(s, plan[s])
  BY DEF IInv, PlansGood
<1> QED
  BY <1>1, <1>3, <1>4 DEF Due

\* Advance moves past the row that was due, and past no other.
Moved(s) ==
    /\ \A i \in DOMAIN plan[s] : \A k \in DOMAIN plan[s][i] :
         Seen(s, i, k)' <=> Seen(s, i, k) \/ (i = item[s] /\ k = place[s])
    /\ pc' = [pc EXCEPT ![s] = pc'[s]] /\ pc'[s] \in {"query", "commit"}
    /\ \A t \in Scans \ {s} : item'[t] = item[t] /\ place'[t] = place[t]
    /\ item' \in [Scans -> Nat \ {0}] /\ place' \in [Scans -> Nat \ {0}]
    /\ pc'[s] = "query" => Placed(plan[s], item'[s], place'[s])
    /\ pc'[s] = "commit" => item'[s] = Len(plan[s]) + 1

LEMMA AdvanceMoves ==
    ASSUME IInv, NEW s \in Scans, pc[s] \in {"query", "insert", "requery"}, Advance(s)
    PROVE  Moved(s)
<1> DEFINE p == plan[s]
           i0 == item[s]
           k0 == place[s]
<1>1. /\ p \in Seq(Seq(Rows \union {MissingLink}))
      /\ i0 \in DOMAIN p /\ k0 \in DOMAIN p[i0]
      /\ \A i \in DOMAIN p : p[i] # <<>>
  BY DueIsPlanned DEF GoodPlan, Planned
<1>2. /\ item \in [Scans -> Nat \ {0}] /\ place \in [Scans -> Nat \ {0}]
      /\ pc \in [Scans -> {"idle", "query", "insert", "requery", "commit", "done", "failed"}]
  BY DEF IInv, TypeOK
<1>3. /\ Len(p) \in Nat /\ DOMAIN p = 1 .. Len(p)
      /\ \A i \in DOMAIN p : Len(p[i]) \in Nat \ {0} /\ DOMAIN p[i] = 1 .. Len(p[i])
  BY <1>1
<1>4. CASE /\ k0 < Len(p[i0])
           /\ place' = [place EXCEPT ![s] = @ + 1]
           /\ pc' = [pc EXCEPT ![s] = "query"]
           /\ UNCHANGED item
  <2>1. place'[s] = k0 + 1 /\ item'[s] = i0 /\ pc'[s] = "query"
    BY <1>2, <1>4
  <2>2. Placed(p, item'[s], place'[s])
    BY <1>1, <1>2, <1>3, <1>4, <2>1 DEF Placed
  <2>3. \A i \in DOMAIN p : \A k \in DOMAIN p[i] :
          Before(i, k, i0, k0 + 1) <=> Before(i, k, i0, k0) \/ (i = i0 /\ k = k0)
    <3>1. \A i, k, j, l \in Nat :
            Before(i, k, j, l + 1) <=> Before(i, k, j, l) \/ (i = j /\ k = l)
      BY DEF Before
    <3>2. \A i \in DOMAIN p : i \in Nat /\ \A k \in DOMAIN p[i] : k \in Nat
      BY <1>3
    <3> QED
      BY <1>1, <3>1, <3>2
  <2>4. \A i \in DOMAIN p : \A k \in DOMAIN p[i] :
          Seen(s, i, k)' <=> Seen(s, i, k) \/ (i = i0 /\ k = k0)
    BY <2>1, <2>3 DEF Seen
  <2> QED
    BY <1>2, <1>4, <2>1, <2>2, <2>4 DEF Moved
<1>5. CASE /\ k0 = Len(p[i0])
           /\ place' = [place EXCEPT ![s] = 1]
           /\ item' = [item EXCEPT ![s] = @ + 1]
           /\ pc' = [pc EXCEPT ![s] = IF i0 < Len(p) THEN "query" ELSE "commit"]
  <2>1. place'[s] = 1 /\ item'[s] = i0 + 1
    BY <1>2, <1>5
  <2>2. pc'[s] = IF i0 < Len(p) THEN "query" ELSE "commit"
    BY <1>2, <1>5
  <2>3. pc'[s] = "query" => Placed(p, item'[s], place'[s])
    BY <1>1, <1>3, <2>1, <2>2 DEF Placed
  <2>4. pc'[s] = "commit" => item'[s] = Len(p) + 1
    BY <1>1, <1>3, <2>1, <2>2
  <2>5. \A i \in DOMAIN p : \A k \in DOMAIN p[i] :
          Before(i, k, i0 + 1, 1) <=> Before(i, k, i0, k0) \/ (i = i0 /\ k = k0)
    BY <1>1, <1>3, <1>5 DEF Before
  <2>6. \A i \in DOMAIN p : \A k \in DOMAIN p[i] :
          Seen(s, i, k)' <=> Seen(s, i, k) \/ (i = i0 /\ k = k0)
    BY <2>1, <2>5 DEF Seen
  <2> QED
    BY <1>2, <1>5, <2>1, <2>2, <2>3, <2>4, <2>6 DEF Moved
<1> QED
  BY <1>4, <1>5 DEF Advance

LEMMA InsertedRows ==
    ASSUME IInv, NEW s \in Scans, NEW row \in inserted[s]
    PROVE  /\ Running(s) /\ row \in Rows /\ GoodPlan(s, plan[s])
           /\ \E i \in DOMAIN plan[s] : \E k \in DOMAIN plan[s][i] :
                Seen(s, i, k) /\ plan[s][i][k] = row
<1>1. Running(s)
  BY DEF IInv, SessionsPlaced, SessionPlaced
<1>2. row \in Rows
  BY DEF IInv, TypeOK
<1>3. GoodPlan(s, plan[s])
  BY <1>1 DEF IInv, PlansGood, Running
<1> QED
  BY <1>1, <1>2, <1>3 DEF IInv, InsertedSeen

\* The rows a seen row points to were seen before, and are visible.
LEMMA ParentsVisible ==
    ASSUME IInv, NEW s \in Scans, Running(s),
           NEW i \in DOMAIN plan[s], NEW k \in DOMAIN plan[s][i], Seen(s, i, k),
           NEW parent \in Parents(plan[s][i][k])
    PROVE  Visible(s, parent)
<1> DEFINE p == plan[s]
<1>1. GoodPlan(s, p)
  BY DEF IInv, PlansGood, Running
<1>2. p[i][k] # MissingLink
  BY DEF IInv, SeenIsVisible
<1>3. p[i][k] \in Rows
  BY <1>1, <1>2 DEF GoodPlan, Planned
<1>4. PICK j \in DOMAIN p : \E l \in DOMAIN p[j] : Before(j, l, i, k) /\ p[j][l] = parent
  BY <1>1, <1>2 DEF GoodPlan, ParentsFirst
<1>5. PICK l \in DOMAIN p[j] : Before(j, l, i, k) /\ p[j][l] = parent
  BY <1>4
<1>6. Seen(s, j, l)
  <2>1. /\ i \in Nat /\ k \in Nat /\ j \in Nat /\ l \in Nat
        /\ item[s] \in Nat /\ place[s] \in Nat
    BY <1>1 DEF GoodPlan, Planned, IInv, TypeOK
  <2>2. \A a, b, c, d, e, f \in Nat : Before(a, b, c, d) /\ Before(c, d, e, f) => Before(a, b, e, f)
    BY DEF Before
  <2> QED
    BY <1>5, <2>1, <2>2 DEF Seen
<1>7. Table(parent) # "task"
  BY <1>3, ParentsAreRows
<1> QED
  BY <1>5, <1>6, <1>7, DecidedAreTasks DEF IInv, SeenIsVisible

LEMMA InsertedParentsVisible ==
    ASSUME IInv, NEW s \in Scans, NEW row \in inserted[s], NEW parent \in Parents(row)
    PROVE  Visible(s, parent)
<1>1. PICK i \in DOMAIN plan[s] : \E k \in DOMAIN plan[s][i] :
             Seen(s, i, k) /\ plan[s][i][k] = row
  BY InsertedRows
<1>2. PICK k \in DOMAIN plan[s][i] : Seen(s, i, k) /\ plan[s][i][k] = row
  BY <1>1
<1>3. Running(s)
  BY InsertedRows
<1> QED
  BY <1>2, <1>3, ParentsVisible

LEMMA InsertedScanIsOwn ==
    ASSUME IInv, NEW s \in Scans, NEW row \in inserted[s], Table(row) = "scan"
    PROVE  IsScanOf(s, row)
<1>1. PICK i \in DOMAIN plan[s] : \E k \in DOMAIN plan[s][i] : plan[s][i][k] = row
  BY InsertedRows
<1>2. ScanIsThird(s, plan[s], i)
  BY InsertedRows DEF GoodPlan, ScanOnce
<1> QED
  BY <1>1, <1>2 DEF ScanIsThird

LEMMA ScansDiffer ==
    ASSUME NEW s, NEW t, NEW row, IsScanOf(s, row), IsScanOf(t, row)
    PROVE  s = t
BY DEF IsScanOf, Scan

\* A row is inserted once: a unique index refuses it otherwise, a scan row is new,
\* and an assessment is inserted by whoever inserted its package vulnerability.
LEMMA InsertIsNew ==
    ASSUME IInv, NEW s \in Scans, Insert(s)
    PROVE  /\ Due(s) \in Rows /\ stored[Due(s)] = 0
           /\ \A t \in Scans \ {s} : Due(s) \notin inserted[t]
<1> DEFINE row == Due(s)
<1>1. pc[s] = "insert" /\ ~ InsertWaits(s, row) /\ (Unique(row) => stored[row] = 0)
  BY DEF Insert
<1>2. row \in Rows
  BY <1>1, DueIsPlanned DEF IInv, SessionsPlaced, SessionPlaced
<1>3. \A r \in Rows : stored[r] \in Nat
  BY DEF IInv, TypeOK
<1>4. Table(row) = "scan" => IsScanOf(s, row)
  <2>1. /\ item[s] \in DOMAIN plan[s] /\ place[s] \in DOMAIN plan[s][item[s]]
        /\ row = plan[s][item[s]][place[s]] /\ ScanOnce(s, plan[s])
    BY <1>1, DueIsPlanned DEF GoodPlan
  <2> HIDE DEF row
  <2> QED
    BY <2>1 DEF ScanOnce, ScanIsThird
<1> SUFFICES stored[row] = 0 /\ \A t \in Scans \ {s} : row \notin inserted[t]
  BY <1>2
<1> HIDE DEF row
<1>5. CASE Unique(row)
  BY <1>1, <1>5 DEF InsertWaits
<1>6. CASE Table(row) = "scan"
  <2>1. PICK repo \in Repos : row = Scan(s, repo)
    BY <1>4, <1>6 DEF IsScanOf
  <2>2. ~ (stored[row] > 0)
    BY <1>1, <2>1 DEF IInv, ScansNew
  <2>3. ASSUME NEW t \in Scans \ {s}, row \in inserted[t]
        PROVE  FALSE
    BY <1>4, <1>6, <2>3, InsertedScanIsOwn, ScansDiffer
  <2> QED
    BY <1>2, <1>3, <2>2, <2>3
<1>7. CASE Table(row) = "assessment"
  <2>1. PICK repo \in Repos, p \in Packages, v \in AdvisoryIds : row = Assessment(repo, p, v)
    BY <1>2, <1>7, AssessmentRows
  <2> DEFINE link == PackageVuln(repo, p, v)
  <2>2. link \in inserted[s] /\ link \in Rows
    BY <1>1, <2>1, RowsAre DEF IInv, LinkIsOwn, row
  <2>3. Parents(row) = {link}
    BY <2>1, ParentsAre
  <2> HIDE DEF link
  <2>4. stored[link] = 0 /\ \A t \in Scans \ {s} : link \notin inserted[t]
    BY <2>2 DEF IInv, PendingUnique
  <2>5. stored[row] > 0 => stored[link] > 0
    BY <1>2, <2>3 DEF IInv, ParentsStored
  <2>6. ASSUME NEW t \in Scans \ {s}, row \in inserted[t]
        PROVE  FALSE
    <3>1. Visible(t, link)
      BY <2>3, <2>6, InsertedParentsVisible
    <3> QED
      BY <2>4, <3>1 DEF Visible
  <2> QED
    BY <1>2, <1>3, <2>4, <2>5, <2>6
<1> QED
  BY <1>5, <1>6, <1>7 DEF Unique

\* What a step that commits nothing leaves as it was.
StoredStays == stored' = stored /\ plan' = plan /\ decided' = decided

LEMMA StoredKept ==
    ASSUME IInv, StoredStays,
           NEW s \in Scans, pc' = [pc EXCEPT ![s] = pc'[s]], pc[s] # "idle", Running(s),
           pc'[s] \in {"query", "insert", "requery", "commit", "failed"}
    PROVE  /\ PlansGood' /\ ScansNew' /\ LinksAssessed' /\ NoDuplicateRows'
           /\ ParentsStored' /\ ResultsStoredWhole'
<1>1. pc \in [Scans -> {"idle", "query", "insert", "requery", "commit", "done", "failed"}]
  BY DEF IInv, TypeOK
<1>2. \A t \in Scans : t # s => pc'[t] = pc[t]
  BY <1>1
<1>3. PlansGood'
  BY <1>2 DEF IInv, PlansGood, StoredStays
<1>4. ScansNew'
  <2>1. \A repo \in Repos : ~ (stored[Scan(s, repo)] > 0)
    BY DEF IInv, ScansNew, Running
  <2> QED
    BY <1>2, <2>1 DEF IInv, ScansNew, StoredStays
<1>5. LinksAssessed' /\ NoDuplicateRows' /\ ParentsStored'
  BY DEF IInv, LinksAssessed, NoDuplicateRows, ParentsStored, StoredStays
<1>6. ResultsStoredWhole'
  <2> SUFFICES ASSUME NEW t \in Scans,
                      pc'[t] = "done" \/ \E repo \in Repos : stored[Scan(t, repo)] > 0
               PROVE  \A i \in DOMAIN plan[t] : \A row \in Range(plan[t][i]) :
                        row # MissingLink /\ (stored[row] > 0 \/ row \in decided[t])
    BY DEF ResultsStoredWhole, StoredStays
  <2>1. pc[t] = "done" \/ \E repo \in Repos : stored[Scan(t, repo)] > 0
    BY <1>2
  <2> QED
    BY <2>1 DEF IInv, ResultsStoredWhole
<1> QED
  BY <1>3, <1>4, <1>5, <1>6

\* Passing a row keeps the invariant if it is visible or new.
LEMMA PassKeeps ==
    ASSUME IInv, NEW s \in Scans, pc[s] \in {"query", "insert", "requery"},
           Advance(s), Due(s) # MissingLink, StoredStays, NEW new \in SUBSET {Due(s)},
           inserted' = [inserted EXCEPT ![s] = @ \union new],
           new = {} => Visible(s, Due(s)),
           new # {} => /\ stored[Due(s)] = 0
                       /\ \A t \in Scans \ {s} : Due(s) \notin inserted[t]
    PROVE  IInv'
<1>1. /\ item[s] \in DOMAIN plan[s] /\ place[s] \in DOMAIN plan[s][item[s]]
      /\ Due(s) = plan[s][item[s]][place[s]] /\ Due(s) \in Rows
  BY DueIsPlanned
<1>2. Moved(s)
  BY AdvanceMoves
<1>3. /\ stored \in [Rows -> Nat]
      /\ pc \in [Scans -> {"idle", "query", "insert", "requery", "commit", "done", "failed"}]
      /\ plan \in [Scans -> Seq(Seq(Rows \union {MissingLink}))]
      /\ inserted \in [Scans -> SUBSET Rows]
  BY DEF IInv, TypeOK
<1>4. /\ pc' = [pc EXCEPT ![s] = pc'[s]] /\ pc'[s] \in {"query", "commit"}
      /\ \A t \in Scans \ {s} : item'[t] = item[t] /\ place'[t] = place[t]
      /\ item' \in [Scans -> Nat \ {0}] /\ place' \in [Scans -> Nat \ {0}]
  BY <1>2 DEF Moved
<1>5. /\ inserted'[s] = inserted[s] \union new
      /\ \A t \in Scans \ {s} : inserted'[t] = inserted[t] /\ pc'[t] = pc[t]
  BY <1>3, <1>4
<1>6. Running(s)
  BY DEF Running
<1>7. TypeOK'
  <2>1. decided' \in [Scans -> SUBSET {row \in Rows : Table(row) = "task"}]
    BY DEF IInv, TypeOK, StoredStays
  <2>2. inserted' \in [Scans -> SUBSET Rows]
    BY <1>1, <1>3
  <2> QED
    BY <1>3, <1>4, <2>1, <2>2 DEF TypeOK, StoredStays
<1>8. /\ PlansGood' /\ ScansNew' /\ LinksAssessed' /\ NoDuplicateRows'
      /\ ParentsStored' /\ ResultsStoredWhole'
  BY <1>4, <1>6, StoredKept DEF Running
<1>9. SessionsPlaced'
  <2> SUFFICES ASSUME NEW t \in Scans
               PROVE  SessionPlaced(t)'
    BY DEF SessionsPlaced
  <2>1. SessionPlaced(t)
    BY DEF IInv, SessionsPlaced
  <2>2. CASE t = s
    BY <1>2, <1>4, <2>2 DEF Moved, SessionPlaced, Running, StoredStays
  <2>3. CASE t # s
    BY <1>4, <1>5, <2>1, <2>3 DEF SessionPlaced, Running, Due, StoredStays
  <2> QED
    BY <2>2, <2>3
<1>10. SeenIsVisible'
  <2> SUFFICES ASSUME NEW t \in Scans, Running(t)', NEW i \in DOMAIN plan[t],
                      NEW k \in DOMAIN plan[t][i], Seen(t, i, k)'
               PROVE  /\ plan[t][i][k] # MissingLink
                      /\ \/ stored[plan[t][i][k]] > 0 \/ plan[t][i][k] \in inserted'[t]
                         \/ plan[t][i][k] \in decided[t]
    BY DEF SeenIsVisible, StoredStays, Visible
  <2>1. CASE t = s
    <3>1. Seen(s, i, k) \/ (i = item[s] /\ k = place[s])
      BY <1>2, <2>1 DEF Moved
    <3>2. CASE Seen(s, i, k)
      BY <1>5, <1>6, <2>1, <3>2 DEF IInv, SeenIsVisible, Visible
    <3>3. CASE i = item[s] /\ k = place[s]
      <4>1. plan[t][i][k] = Due(s)
        BY <1>1, <2>1, <3>3
      <4>2. new = {} \/ Due(s) \in new
        OBVIOUS
      <4>3. stored[Due(s)] > 0 \/ Due(s) \in inserted'[s]
        BY <1>5, <4>2 DEF Visible
      <4> QED
        BY <2>1, <4>1, <4>3
    <3> QED
      BY <3>1, <3>2, <3>3
  <2>2. CASE t # s
    <3>1. Running(t) /\ Seen(t, i, k)
      BY <1>4, <1>5, <2>2 DEF Running, Seen
    <3> QED
      BY <1>5, <2>2, <3>1 DEF IInv, SeenIsVisible, Visible
  <2> QED
    BY <2>1, <2>2
<1>11. InsertedSeen'
  <2> SUFFICES ASSUME NEW t \in Scans, NEW row \in inserted'[t]
               PROVE  \E i \in DOMAIN plan[t] : \E k \in DOMAIN plan[t][i] :
                        Seen(t, i, k)' /\ plan[t][i][k] = row
    BY DEF InsertedSeen, StoredStays
  <2>1. CASE t = s /\ row \in inserted[s]
    <3>1. PICK i \in DOMAIN plan[s] : \E k \in DOMAIN plan[s][i] :
             Seen(s, i, k) /\ plan[s][i][k] = row
      BY <2>1, InsertedRows
    <3> QED
      BY <1>2, <2>1, <3>1 DEF Moved
  <2>2. CASE t = s /\ row = Due(s)
    BY <1>1, <1>2, <2>2 DEF Moved
  <2>3. CASE t # s
    <3>1. row \in inserted[t]
      BY <1>5, <2>3
    <3>2. PICK i \in DOMAIN plan[t] : \E k \in DOMAIN plan[t][i] :
             Seen(t, i, k) /\ plan[t][i][k] = row
      BY <3>1, InsertedRows
    <3>3. \A k : Seen(t, i, k)' <=> Seen(t, i, k)
      BY <1>4, <2>3 DEF Seen
    <3> QED
      BY <3>2, <3>3
  <2> QED
    BY <1>5, <2>1, <2>2, <2>3
<1>12. PendingUnique'
  <2> SUFFICES ASSUME NEW t \in Scans, NEW row \in inserted'[t]
               PROVE  stored[row] = 0 /\ \A u \in Scans \ {t} : row \notin inserted'[u]
    BY DEF PendingUnique, StoredStays
  <2>1. \A u \in Scans : \A r \in inserted[u] :
          stored[r] = 0 /\ \A w \in Scans \ {u} : r \notin inserted[w]
    BY DEF IInv, PendingUnique
  <2>2. CASE row \in inserted[t]
    BY <1>5, <2>1, <2>2
  <2>3. CASE row \notin inserted[t]
    BY <1>5, <2>1, <2>3
  <2> QED
    BY <2>2, <2>3
<1>13. LinkIsOwn'
  <2> SUFFICES ASSUME NEW t \in Scans, pc'[t] = "insert",
                      NEW repo \in Repos, NEW p \in Packages, NEW v \in AdvisoryIds,
                      Due(t)' = Assessment(repo, p, v)
               PROVE  PackageVuln(repo, p, v) \in inserted'[t]
    BY DEF LinkIsOwn
  <2>1. t # s
    BY <1>4
  <2>2. Due(t)' = Due(t) /\ pc[t] = "insert" /\ inserted'[t] = inserted[t]
    BY <1>4, <1>5, <2>1 DEF Due, StoredStays
  <2> QED
    BY <2>2 DEF IInv, LinkIsOwn
<1> QED
  BY <1>7, <1>8, <1>9, <1>10, <1>11, <1>12, <1>13 DEF IInv

LEMMA FoundKeeps ==
    ASSUME IInv, NEW s \in Scans, Found(s) \/ FoundAgain(s)
    PROVE  IInv'
<1>1. /\ pc[s] \in {"query", "insert", "requery"} /\ Advance(s) /\ Due(s) # MissingLink
      /\ StoredStays /\ inserted' = inserted /\ Visible(s, Due(s))
  BY DEF Found, FoundAgain, StoredStays, IInv, SessionsPlaced, SessionPlaced
<1>2. inserted' = [inserted EXCEPT ![s] = @ \union {}]
  BY <1>1 DEF IInv, TypeOK
<1> QED
  BY <1>1, <1>2, PassKeeps

LEMMA InsertKeeps ==
    ASSUME IInv, NEW s \in Scans, Insert(s)
    PROVE  IInv'
<1>1. /\ pc[s] \in {"query", "insert", "requery"} /\ Advance(s) /\ Due(s) # MissingLink
      /\ StoredStays /\ inserted' = [inserted EXCEPT ![s] = @ \union {Due(s)}]
  BY DEF Insert, StoredStays, IInv, SessionsPlaced, SessionPlaced
<1>2. stored[Due(s)] = 0 /\ \A t \in Scans \ {s} : Due(s) \notin inserted[t]
  BY InsertIsNew
<1> QED
  BY <1>1, <1>2, PassKeeps

-----------------------------------------------------------------------------
(* The other steps of a session *)

\* A step that moves a session within its row.
LEMMA StayKeeps ==
    ASSUME IInv, NEW s \in Scans, pc[s] \in {"query", "insert"}, Due(s) # MissingLink,
           UNCHANGED <<stored, plan, item, place, inserted, decided>>,
           NEW next \in {"insert", "requery"}, pc' = [pc EXCEPT ![s] = next],
           next = "insert" => ~ Visible(s, Due(s))
    PROVE  IInv'
<1>1. pc \in [Scans -> {"idle", "query", "insert", "requery", "commit", "done", "failed"}]
  BY DEF IInv, TypeOK
<1>2. pc'[s] = next /\ \A t \in Scans : t # s => pc'[t] = pc[t]
  BY <1>1
<1>3. TypeOK'
  BY <1>1 DEF IInv, TypeOK
<1>4. /\ PlansGood' /\ ScansNew' /\ LinksAssessed' /\ NoDuplicateRows'
      /\ ParentsStored' /\ ResultsStoredWhole'
  BY <1>2, StoredKept DEF StoredStays, Running
<1>5. SessionsPlaced'
  BY <1>2 DEF IInv, SessionsPlaced, SessionPlaced, Running, Due
<1>6. SeenIsVisible'
  BY <1>2 DEF IInv, SeenIsVisible, Seen, Visible, Running
<1>7. InsertedSeen' /\ PendingUnique'
  BY DEF IInv, InsertedSeen, PendingUnique, Seen
<1>8. LinkIsOwn'
  <2> SUFFICES ASSUME NEW t \in Scans, pc'[t] = "insert",
                      NEW repo \in Repos, NEW p \in Packages, NEW v \in AdvisoryIds,
                      Due(t) = Assessment(repo, p, v)
               PROVE  PackageVuln(repo, p, v) \in inserted[t]
    BY DEF LinkIsOwn, Due
  <2>1. CASE t # s
    BY <1>2, <2>1 DEF IInv, LinkIsOwn
  <2>2. CASE t = s
    <3> DEFINE link == PackageVuln(repo, p, v)
               q == plan[s]
               i == item[s]
               k == place[s]
    <3>1. /\ i \in DOMAIN q /\ k \in DOMAIN q[i] /\ Due(s) = q[i][k]
          /\ AssessmentsFollow(q) /\ q \in Seq(Seq(Rows \union {MissingLink}))
      BY DueIsPlanned DEF GoodPlan, Planned
    <3>2. k - 1 \in DOMAIN q[i] /\ q[i][k - 1] = link
      <4>1. q[i][k] = Assessment(repo, p, v)
        BY <2>2, <3>1
      <4> HIDE DEF q, i, k
      <4> QED
        BY <3>1, <4>1 DEF AssessmentsFollow, link
    <3>3. Seen(s, i, k - 1)
      BY <3>1 DEF Seen, Before
    <3>4. Table(link) # "task"
      BY KindsAre
    <3>5. Visible(s, link)
      <4>1. Visible(s, link) \/ link \in decided[s]
        BY <3>1, <3>2, <3>3 DEF IInv, SeenIsVisible, Running
      <4>2. link \notin decided[s]
        BY <3>4, DecidedAreTasks
      <4> QED
        BY <4>1, <4>2
    <3>6. ~ (stored[link] > 0)
      <4>1. ~ (stored[Assessment(repo, p, v)] > 0)
        BY <1>2, <2>2 DEF Visible
      <4> QED
        BY <4>1 DEF IInv, LinksAssessed
    <3> QED
      BY <2>2, <3>5, <3>6 DEF Visible
  <2> QED
    BY <2>1, <2>2
<1> QED
  BY <1>3, <1>4, <1>5, <1>6, <1>7, <1>8 DEF IInv

LEMMA MissedKeeps ==
    ASSUME IInv, NEW s \in Scans, Missed(s)
    PROVE  IInv'
BY StayKeeps DEF Missed

LEMMA ConflictKeeps ==
    ASSUME IInv, NEW s \in Scans, Conflict(s)
    PROVE  IInv'
<1>1. pc[s] = "insert" /\ Due(s) # MissingLink
  BY DEF Conflict, IInv, SessionsPlaced, SessionPlaced
<1> QED
  BY <1>1, StayKeeps DEF Conflict

\* What is left of a session that is over.
LEMMA ClosedKept ==
    ASSUME IInv, NEW s \in Scans, Running(s), Close(s), plan' = plan, decided' = decided,
           NEW end \in {"done", "failed"}, pc' = [pc EXCEPT ![s] = end],
           \A t \in Scans \ {s} : \A row \in inserted[t] : stored'[row] = stored[row],
           \A row \in Rows : stored[row] > 0 => stored'[row] > 0
    PROVE  /\ PlansGood' /\ SessionsPlaced' /\ SeenIsVisible' /\ InsertedSeen'
           /\ PendingUnique' /\ LinkIsOwn'
<1>1. /\ pc \in [Scans -> {"idle", "query", "insert", "requery", "commit", "done", "failed"}]
      /\ item \in [Scans -> Nat \ {0}] /\ place \in [Scans -> Nat \ {0}]
      /\ inserted \in [Scans -> SUBSET Rows] /\ stored \in [Rows -> Nat]
  BY DEF IInv, TypeOK
<1>2. /\ pc'[s] = end /\ item'[s] = 1 /\ place'[s] = 1 /\ inserted'[s] = {}
      /\ \A t \in Scans : t # s => /\ pc'[t] = pc[t] /\ item'[t] = item[t]
                                   /\ place'[t] = place[t] /\ inserted'[t] = inserted[t]
  BY <1>1 DEF Close
<1>3. PlansGood'
  BY <1>2 DEF IInv, PlansGood, Running
<1>4. SessionsPlaced'
  <2> SUFFICES ASSUME NEW t \in Scans
               PROVE  SessionPlaced(t)'
    BY DEF SessionsPlaced
  <2>1. SessionPlaced(t)
    BY DEF IInv, SessionsPlaced
  <2>2. CASE t = s
    BY <1>2, <2>1, <2>2 DEF SessionPlaced, Running
  <2>3. CASE t # s
    BY <1>2, <2>1, <2>3 DEF SessionPlaced, Running, Due
  <2> QED
    BY <2>2, <2>3
<1>5. SeenIsVisible'
  <2> SUFFICES ASSUME NEW t \in Scans, Running(t)', NEW i \in DOMAIN plan[t],
                      NEW k \in DOMAIN plan[t][i], Seen(t, i, k)'
               PROVE  /\ plan[t][i][k] # MissingLink
                      /\ \/ stored'[plan[t][i][k]] > 0 \/ plan[t][i][k] \in inserted'[t]
                         \/ plan[t][i][k] \in decided[t]
    BY DEF SeenIsVisible, Visible
  <2> DEFINE row == plan[t][i][k]
  <2>1. t # s /\ Running(t) /\ Seen(t, i, k)
    BY <1>2 DEF Running, Seen
  <2>2. row # MissingLink /\ (Visible(t, row) \/ row \in decided[t])
    BY <2>1 DEF IInv, SeenIsVisible
  <2>3. row \in Rows
    <3>1. plan[t] \in Seq(Seq(Rows \union {MissingLink}))
      BY DEF IInv, TypeOK
    <3> QED
      BY <2>2, <3>1
  <2> HIDE DEF row
  <2>4. stored'[row] > 0 \/ row \in inserted'[t] \/ row \in decided[t]
    BY <1>2, <2>1, <2>2, <2>3 DEF Visible
  <2> QED
    BY <2>2, <2>4 DEF row
<1>6. InsertedSeen'
  <2> SUFFICES ASSUME NEW t \in Scans, NEW row \in inserted'[t]
               PROVE  \E i \in DOMAIN plan[t] : \E k \in DOMAIN plan[t][i] :
                        Seen(t, i, k)' /\ plan[t][i][k] = row
    BY DEF InsertedSeen
  <2>1. t # s /\ row \in inserted[t]
    BY <1>2
  <2>2. \A i, k : Seen(t, i, k)' <=> Seen(t, i, k)
    BY <1>2, <2>1 DEF Seen
  <2> QED
    BY <2>1, <2>2, InsertedRows
<1>7. PendingUnique'
  BY <1>2 DEF IInv, PendingUnique
<1>8. LinkIsOwn'
  BY <1>2 DEF IInv, LinkIsOwn, Due
<1> QED
  BY <1>3, <1>4, <1>5, <1>6, <1>7, <1>8

LEMMA RollbackKeeps ==
    ASSUME IInv, NEW s \in Scans, Running(s), Rollback(s)
    PROVE  IInv'
<1>1. /\ pc' = [pc EXCEPT ![s] = "failed"] /\ Close(s) /\ StoredStays
  BY DEF Rollback, StoredStays
<1>2. /\ \A t \in Scans \ {s} : \A row \in inserted[t] : stored'[row] = stored[row]
      /\ \A row \in Rows : stored[row] > 0 => stored'[row] > 0
  BY <1>1 DEF StoredStays
<1>3. /\ PlansGood' /\ SessionsPlaced' /\ SeenIsVisible' /\ InsertedSeen'
      /\ PendingUnique' /\ LinkIsOwn'
  BY <1>1, <1>2, ClosedKept DEF StoredStays
<1>4. pc' = [pc EXCEPT ![s] = pc'[s]] /\ pc'[s] = "failed"
  BY <1>1 DEF IInv, TypeOK
<1>5. /\ ScansNew' /\ LinksAssessed' /\ NoDuplicateRows' /\ ParentsStored'
      /\ ResultsStoredWhole'
  BY <1>1, <1>4, StoredKept DEF StoredStays, Running
<1>6. TypeOK'
  BY <1>1 DEF IInv, TypeOK, Close, StoredStays
<1> QED
  BY <1>3, <1>5, <1>6 DEF IInv

LEMMA EndsKeep ==
    ASSUME IInv, NEW s \in Scans,
           LostAgain(s) \/ RefuseLink(s) \/ Fail(s) \/ DeadlockVictim(s)
    PROVE  IInv'
<1>1. Rollback(s)
  BY DEF LostAgain, RefuseLink, Fail, DeadlockVictim
<1>2. Running(s)
  BY DEF LostAgain, RefuseLink, Fail, DeadlockVictim, WaitsFor, Running
<1> QED
  BY <1>1, <1>2, RollbackKeeps

-----------------------------------------------------------------------------
(* The commit *)

LEMMA CommitStores ==
    ASSUME IInv, NEW s \in Scans, Commit(s)
    PROVE  /\ stored' \in [Rows -> Nat]
           /\ \A row \in Rows :
                /\ row \in inserted[s] => stored[row] = 0 /\ stored'[row] = 1
                /\ row \notin inserted[s] => stored'[row] = stored[row]
                /\ Visible(s, row) <=> stored'[row] > 0
<1>1. stored \in [Rows -> Nat]
  BY DEF IInv, TypeOK
<1>2. stored' = [row \in Rows |-> stored[row] + IF row \in inserted[s] THEN 1 ELSE 0]
  BY DEF Commit
<1>3. \A row \in inserted[s] : stored[row] = 0
  BY DEF IInv, PendingUnique
<1>4. stored' \in [Rows -> Nat]
  BY <1>1, <1>2
<1>5. ASSUME NEW row \in Rows
      PROVE  /\ row \in inserted[s] => stored[row] = 0 /\ stored'[row] = 1
             /\ row \notin inserted[s] => stored'[row] = stored[row]
             /\ Visible(s, row) <=> stored'[row] > 0
  BY <1>1, <1>2, <1>3 DEF Visible
<1> QED
  BY <1>4, <1>5

\* Whoever commits has seen to every row of its plan.
LEMMA CommitSawAll ==
    ASSUME IInv, NEW s \in Scans, Commit(s),
           NEW i \in DOMAIN plan[s], NEW k \in DOMAIN plan[s][i]
    PROVE  /\ plan[s][i][k] \in Rows /\ plan[s][i][k] # MissingLink
           /\ Visible(s, plan[s][i][k]) \/ plan[s][i][k] \in decided[s]
<1>1. pc[s] = "commit" /\ Running(s)
  BY DEF Commit, Running
<1>2. plan[s] \in Seq(Seq(Rows \union {MissingLink}))
  BY DEF IInv, TypeOK
<1>3. i < item[s]
  <2>1. item[s] = Len(plan[s]) + 1
    BY <1>1 DEF IInv, SessionsPlaced, SessionPlaced
  <2> QED
    BY <1>2, <2>1
<1>4. Seen(s, i, k)
  BY <1>3 DEF Seen, Before
<1> QED
  BY <1>1, <1>2, <1>4 DEF IInv, SeenIsVisible

LEMMA CommitKeeps ==
    ASSUME IInv, NEW s \in Scans, Commit(s)
    PROVE  IInv'
<1>1. PICK end \in {"done", "failed"} : pc' = [pc EXCEPT ![s] = end]
  BY DEF Commit
<1>2. /\ Close(s) /\ plan' = plan /\ decided' = decided
      /\ Running(s) /\ pc[s] = "commit"
  BY DEF Commit, Running
<1>3. /\ pc \in [Scans -> {"idle", "query", "insert", "requery", "commit", "done", "failed"}]
      /\ inserted \in [Scans -> SUBSET Rows] /\ stored \in [Rows -> Nat]
  BY DEF IInv, TypeOK
<1>4. /\ stored' \in [Rows -> Nat]
      /\ \A row \in Rows :
           /\ row \in inserted[s] => stored[row] = 0 /\ stored'[row] = 1
           /\ row \notin inserted[s] => stored'[row] = stored[row]
           /\ Visible(s, row) <=> stored'[row] > 0
  BY CommitStores
<1>5. \A row \in Rows : stored[row] > 0 => stored'[row] > 0
  BY <1>3, <1>4
<1>6. \A t \in Scans \ {s} : \A row \in inserted[t] : stored'[row] = stored[row]
  BY <1>3, <1>4 DEF IInv, PendingUnique
<1>7. /\ PlansGood' /\ SessionsPlaced' /\ SeenIsVisible' /\ InsertedSeen'
      /\ PendingUnique' /\ LinkIsOwn'
  BY <1>1, <1>2, <1>5, <1>6, ClosedKept
<1>8. pc'[s] = end /\ \A t \in Scans : t # s => pc'[t] = pc[t]
  BY <1>1, <1>3
<1>9. TypeOK'
  BY <1>1, <1>2, <1>4 DEF IInv, TypeOK, Close
<1>10. ScansNew'
  <2> SUFFICES ASSUME NEW t \in Scans, NEW repo \in Repos, stored'[Scan(t, repo)] > 0
               PROVE  pc'[t] \in {"done", "failed"}
    BY DEF ScansNew
  <2> DEFINE row == Scan(t, repo)
  <2>1. row \in Rows
    BY RowsAre
  <2>2. Table(row) = "scan" /\ IsScanOf(t, row)
    BY KindsAre DEF IsScanOf
  <2> HIDE DEF row
  <2>3. CASE row \in inserted[s]
    <3>1. t = s
      BY <2>2, <2>3, InsertedScanIsOwn, ScansDiffer
    <3> QED
      BY <1>8, <3>1
  <2>4. CASE row \notin inserted[s]
    <3>1. stored[row] > 0
      BY <1>4, <2>1, <2>4 DEF row
    <3>2. pc[t] \in {"done", "failed"}
      BY <3>1 DEF IInv, ScansNew, row
    <3> QED
      BY <1>2, <1>8, <3>2
  <2> QED
    BY <2>3, <2>4
<1>11. LinksAssessed'
  <2> SUFFICES ASSUME NEW repo \in Repos, NEW p \in Packages, NEW v \in AdvisoryIds,
                      stored'[PackageVuln(repo, p, v)] > 0
               PROVE  stored'[Assessment(repo, p, v)] > 0
    BY DEF LinksAssessed
  <2> DEFINE link == PackageVuln(repo, p, v)
             assessed == Assessment(repo, p, v)
  <2>1. link \in Rows /\ assessed \in Rows /\ Table(assessed) # "task"
    BY RowsAre, KindsAre
  <2>2. stored[link] > 0 => stored[assessed] > 0
    BY DEF IInv, LinksAssessed
  <2>3. CASE link \notin inserted[s]
    <3>1. stored[link] > 0
      BY <1>4, <2>1, <2>3
    <3> QED
      BY <1>5, <2>1, <2>2, <3>1
  <2>4. CASE link \in inserted[s]
    <3>1. PICK i \in DOMAIN plan[s] : \E k \in DOMAIN plan[s][i] : plan[s][i][k] = link
      BY <2>4, InsertedRows
    <3>2. PICK k \in DOMAIN plan[s][i] : plan[s][i][k] = link
      BY <3>1
    <3>3. AssessmentsFollow(plan[s])
      BY <2>4, InsertedRows DEF GoodPlan
    <3>4. k + 1 \in DOMAIN plan[s][i] /\ plan[s][i][k + 1] = assessed
      BY <3>2, <3>3 DEF AssessmentsFollow
    <3>5. Visible(s, assessed)
      BY <2>1, <3>4, CommitSawAll, DecidedAreTasks
    <3> QED
      BY <1>4, <2>1, <3>5
  <2> QED
    BY <2>3, <2>4
<1>12. NoDuplicateRows'
  BY <1>3, <1>4 DEF IInv, NoDuplicateRows
<1>13. ParentsStored'
  <2> SUFFICES ASSUME NEW row \in Rows, stored'[row] > 0, NEW parent \in Parents(row)
               PROVE  stored'[parent] > 0
    BY DEF ParentsStored
  <2>1. parent \in Rows
    BY ParentsAreRows
  <2>2. CASE row \in inserted[s]
    <3>1. Visible(s, parent)
      BY <2>2, InsertedParentsVisible
    <3> QED
      BY <1>4, <2>1, <3>1
  <2>3. CASE row \notin inserted[s]
    <3>1. stored[row] > 0
      BY <1>4, <2>3
    <3>2. stored[parent] > 0
      BY <3>1 DEF IInv, ParentsStored
    <3> QED
      BY <1>5, <2>1, <3>2
  <2> QED
    BY <2>2, <2>3
<1>14. ResultsStoredWhole'
  <2> SUFFICES ASSUME NEW t \in Scans,
                      pc'[t] = "done" \/ \E repo \in Repos : stored'[Scan(t, repo)] > 0,
                      NEW i \in DOMAIN plan[t], NEW row \in Range(plan[t][i])
               PROVE  row # MissingLink /\ (stored'[row] > 0 \/ row \in decided[t])
    BY <1>2 DEF ResultsStoredWhole
  <2>1. PICK k \in DOMAIN plan[t][i] : plan[t][i][k] = row
    BY DEF Range
  <2>2. CASE t = s
    BY <1>4, <2>1, <2>2, CommitSawAll
  <2>3. CASE t # s
    <3>1. pc[t] = "done" \/ \E repo \in Repos : stored[Scan(t, repo)] > 0
      <4>1. ASSUME NEW repo \in Repos, stored'[Scan(t, repo)] > 0
            PROVE  stored[Scan(t, repo)] > 0
        <5>1. Scan(t, repo) \in Rows /\ Table(Scan(t, repo)) = "scan"
                /\ IsScanOf(t, Scan(t, repo))
          BY RowsAre, KindsAre DEF IsScanOf
        <5>2. Scan(t, repo) \notin inserted[s]
          BY <2>3, <5>1, InsertedScanIsOwn, ScansDiffer
        <5> QED
          BY <1>4, <4>1, <5>1, <5>2
      <4> QED
        BY <1>8, <2>3, <4>1
    <3>2. row # MissingLink /\ (stored[row] > 0 \/ row \in decided[t])
      BY <3>1 DEF IInv, ResultsStoredWhole
    <3>3. row \in Rows
      <4>1. plan[t] \in Seq(Seq(Rows \union {MissingLink}))
        BY DEF IInv, TypeOK
      <4> QED
        BY <2>1, <3>2, <4>1
    <3> QED
      BY <1>5, <3>2, <3>3
  <2> QED
    BY <2>2, <2>3
<1> QED
  BY <1>7, <1>9, <1>10, <1>11, <1>12, <1>13, <1>14 DEF IInv

-----------------------------------------------------------------------------
(* Beginnings and decisions *)

LEMMA BeginKeeps ==
    ASSUME IInv, NEW s \in Scans, Begin(s)
    PROVE  IInv'
<1>1. PICK result \in Results : plan' = [plan EXCEPT ![s] = Plan(s, result)]
  BY DEF Begin
<1>2. /\ pc[s] = "idle" /\ pc' = [pc EXCEPT ![s] = "query"]
      /\ UNCHANGED <<stored, item, place, inserted, decided>>
  BY DEF Begin
<1>3. /\ pc \in [Scans -> {"idle", "query", "insert", "requery", "commit", "done", "failed"}]
      /\ plan \in [Scans -> Seq(Seq(Rows \union {MissingLink}))]
  BY DEF IInv, TypeOK
<1>4. GoodPlan(s, Plan(s, result))
  BY ConstantsAssumption, PlanIsGood
<1> DEFINE p == Plan(s, result)
<1>5. /\ pc'[s] = "query" /\ plan'[s] = p
      /\ \A t \in Scans : t # s => pc'[t] = pc[t] /\ plan'[t] = plan[t]
  BY <1>1, <1>2, <1>3
<1> HIDE DEF p
<1>6. GoodPlan(s, p) /\ p \in Seq(Seq(Rows \union {MissingLink}))
  BY <1>4 DEF GoodPlan, Planned, p
<1>7. inserted[s] = {} /\ item[s] = 1 /\ place[s] = 1
  BY <1>2 DEF IInv, SessionsPlaced, SessionPlaced, Running
<1>8. TypeOK'
  BY <1>1, <1>2, <1>3, <1>6 DEF IInv, TypeOK, p
<1>9. PlansGood'
  BY <1>5, <1>6 DEF IInv, PlansGood
<1>10. SessionsPlaced'
  <2>1. Placed(p, 1, 1)
    BY <1>6 DEF GoodPlan, Planned, Placed
  <2> SUFFICES ASSUME NEW t \in Scans
               PROVE  SessionPlaced(t)'
    BY DEF SessionsPlaced
  <2>2. CASE t = s
    BY <1>2, <1>5, <1>7, <2>1, <2>2 DEF SessionPlaced, Running
  <2>3. CASE t # s
    <3>1. SessionPlaced(t)
      BY DEF IInv, SessionsPlaced
    <3> QED
      BY <1>2, <1>5, <2>3, <3>1 DEF SessionPlaced, Running, Due
  <2> QED
    BY <2>2, <2>3
<1>11. SeenIsVisible'
  <2> SUFFICES ASSUME NEW t \in Scans, Running(t)', NEW i \in DOMAIN plan'[t],
                      NEW k \in DOMAIN plan'[t][i], Seen(t, i, k)
               PROVE  /\ plan'[t][i][k] # MissingLink
                      /\ Visible(t, plan'[t][i][k]) \/ plan'[t][i][k] \in decided[t]
    BY <1>2 DEF SeenIsVisible, Seen, Visible
  <2>1. CASE t = s
    <3>1. i \in Nat \ {0} /\ k \in Nat \ {0}
      BY <1>5, <1>6, <2>1
    <3> QED
      BY <1>7, <2>1, <3>1 DEF Seen, Before
  <2>2. CASE t # s
    BY <1>5, <2>2 DEF IInv, SeenIsVisible, Running
  <2> QED
    BY <2>1, <2>2
<1>12. InsertedSeen'
  <2> SUFFICES ASSUME NEW t \in Scans, NEW row \in inserted[t]
               PROVE  \E i \in DOMAIN plan'[t] : \E k \in DOMAIN plan'[t][i] :
                        Seen(t, i, k) /\ plan'[t][i][k] = row
    BY <1>2 DEF InsertedSeen, Seen
  <2>1. t # s
    BY <1>7
  <2> QED
    BY <1>5, <2>1, InsertedRows
<1>13. PendingUnique' /\ LinksAssessed' /\ NoDuplicateRows' /\ ParentsStored'
  BY <1>2 DEF IInv, PendingUnique, LinksAssessed, NoDuplicateRows, ParentsStored
<1>14. \A repo \in Repos : ~ (stored[Scan(s, repo)] > 0)
  BY <1>2 DEF IInv, ScansNew
<1>15. ScansNew'
  BY <1>2, <1>5, <1>14 DEF IInv, ScansNew
<1>16. LinkIsOwn'
  BY <1>2, <1>5 DEF IInv, LinkIsOwn, Due
<1>17. ResultsStoredWhole'
  BY <1>2, <1>5, <1>14 DEF IInv, ResultsStoredWhole
<1> QED
  BY <1>8, <1>9, <1>10, <1>11, <1>12, <1>13, <1>15, <1>16, <1>17 DEF IInv

LEMMA DecideKeeps ==
    ASSUME IInv, NEW row \in Rows, Decide(row)
    PROVE  IInv'
<1>1. /\ Table(row) = "task" /\ stored[row] > 0
      /\ stored' = [stored EXCEPT ![row] = 0]
      /\ UNCHANGED <<pc, plan, item, place, inserted>>
  BY DEF Decide
<1>2. /\ stored \in [Rows -> Nat] /\ inserted \in [Scans -> SUBSET Rows]
      /\ plan \in [Scans -> Seq(Seq(Rows \union {MissingLink}))]
  BY DEF IInv, TypeOK
<1>3. /\ \A r \in Rows : r # row => stored'[r] = stored[r]
      /\ stored'[row] = 0 /\ stored' \in [Rows -> Nat]
  BY <1>1, <1>2
<1>4. \A r \in Rows : Table(r) # "task" => stored'[r] = stored[r]
  BY <1>1, <1>3
<1>14. /\ \A t \in Scans : decided[t] \subseteq decided'[t]
       /\ \A t \in Scans : pc[t] # "idle" => row \in decided'[t]
  BY DEF Decide
<1>15. \A t \in Scans, r \in Rows :
         pc[t] # "idle" /\ (stored[r] > 0 \/ r \in decided[t]) =>
           stored'[r] > 0 \/ r \in decided'[t]
  BY <1>3, <1>14
<1>5. TypeOK'
  <2>1. decided' \in [Scans -> SUBSET {r \in Rows : Table(r) = "task"}]
    BY <1>1 DEF Decide, IInv, TypeOK
  <2> QED
    BY <1>1, <1>3, <2>1 DEF IInv, TypeOK
<1>6. PlansGood' /\ SessionsPlaced' /\ InsertedSeen' /\ LinkIsOwn'
  <2>1. PlansGood'
    BY <1>1 DEF IInv, PlansGood
  <2>2. SessionsPlaced'
    BY <1>1 DEF IInv, SessionsPlaced, SessionPlaced, Running, Due
  <2>3. InsertedSeen'
    BY <1>1 DEF IInv, InsertedSeen, Seen
  <2>4. LinkIsOwn'
    BY <1>1 DEF IInv, LinkIsOwn, Due
  <2> QED
    BY <2>1, <2>2, <2>3, <2>4
<1>7. SeenIsVisible'
  <2> SUFFICES ASSUME NEW t \in Scans, Running(t), NEW i \in DOMAIN plan[t],
                      NEW k \in DOMAIN plan[t][i], Seen(t, i, k)
               PROVE  /\ plan[t][i][k] # MissingLink
                      /\ \/ stored'[plan[t][i][k]] > 0 \/ plan[t][i][k] \in inserted[t]
                         \/ plan[t][i][k] \in decided'[t]
    BY <1>1 DEF SeenIsVisible, Visible, Running, Seen
  <2>1. /\ plan[t][i][k] # MissingLink
        /\ Visible(t, plan[t][i][k]) \/ plan[t][i][k] \in decided[t]
    BY DEF IInv, SeenIsVisible
  <2>2. plan[t][i][k] \in Rows
    BY <1>2, <2>1
  <2> QED
    BY <1>15, <2>1, <2>2 DEF Visible, Running
<1>8. PendingUnique'
  <2> SUFFICES ASSUME NEW t \in Scans, NEW r \in inserted[t]
               PROVE  stored'[r] = 0 /\ \A u \in Scans \ {t} : r \notin inserted[u]
    BY <1>1 DEF PendingUnique
  <2> QED
    BY <1>2, <1>3 DEF IInv, PendingUnique
<1>9. ScansNew'
  <2>1. \A t \in Scans, repo \in Repos :
          Scan(t, repo) \in Rows /\ Table(Scan(t, repo)) # "task"
    BY RowsAre, KindsAre
  <2> QED
    BY <1>1, <1>4, <2>1 DEF IInv, ScansNew
<1>10. LinksAssessed'
  <2>1. \A repo \in Repos, p \in Packages, v \in AdvisoryIds :
          /\ PackageVuln(repo, p, v) \in Rows /\ Table(PackageVuln(repo, p, v)) # "task"
          /\ Assessment(repo, p, v) \in Rows /\ Table(Assessment(repo, p, v)) # "task"
    BY RowsAre, KindsAre
  <2> QED
    BY <1>4, <2>1 DEF IInv, LinksAssessed
<1>11. NoDuplicateRows'
  BY <1>3 DEF IInv, NoDuplicateRows
<1>12. ParentsStored'
  <2> SUFFICES ASSUME NEW r \in Rows, stored'[r] > 0, NEW parent \in Parents(r)
               PROVE  stored'[parent] > 0
    BY DEF ParentsStored
  <2>1. parent \in Rows /\ Table(parent) # "task"
    BY ParentsAreRows
  <2>2. stored[r] > 0
    BY <1>3
  <2> QED
    BY <1>4, <2>1, <2>2 DEF IInv, ParentsStored
<1>13. ResultsStoredWhole'
  <2> SUFFICES ASSUME NEW t \in Scans,
                      pc[t] = "done" \/ \E repo \in Repos : stored'[Scan(t, repo)] > 0,
                      NEW i \in DOMAIN plan[t], NEW r \in Range(plan[t][i])
               PROVE  r # MissingLink /\ (stored'[r] > 0 \/ r \in decided'[t])
    BY <1>1 DEF ResultsStoredWhole
  <2>1. pc[t] = "done" \/ \E repo \in Repos : stored[Scan(t, repo)] > 0
    <3>1. \A repo \in Repos : Scan(t, repo) \in Rows /\ Table(Scan(t, repo)) # "task"
      BY RowsAre, KindsAre
    <3> QED
      BY <1>4, <3>1
  <2>2. r # MissingLink /\ (stored[r] > 0 \/ r \in decided[t])
    BY <2>1 DEF IInv, ResultsStoredWhole
  <2>3. r \in Rows
    <3>1. PICK k \in DOMAIN plan[t][i] : plan[t][i][k] = r
      BY DEF Range
    <3> QED
      BY <1>2, <2>2, <3>1
  <2>4. pc[t] # "idle"
    BY <2>1 DEF IInv, ScansNew
  <2> QED
    BY <1>15, <2>2, <2>3, <2>4
<1> QED
  BY <1>5, <1>6, <1>7, <1>8, <1>9, <1>10, <1>11, <1>12, <1>13 DEF IInv

LEMMA StutterKeeps ==
    ASSUME IInv, UNCHANGED vars
    PROVE  IInv'
BY DEF IInv, vars, TypeOK, PlansGood, SessionsPlaced, SessionPlaced, SeenIsVisible,
       InsertedSeen, PendingUnique, ScansNew, LinksAssessed, LinkIsOwn, NoDuplicateRows,
       ParentsStored, ResultsStoredWhole, Running, Visible, Seen, Due

LEMMA NextKeeps ==
    ASSUME IInv, [Next]_vars
    PROVE  IInv'
<1>1. ASSUME NEW s \in Scans, Begin(s)
      PROVE  IInv'
  BY <1>1, BeginKeeps
<1>2. ASSUME NEW s \in Scans, Step(s)
      PROVE  IInv'
  BY <1>2, FoundKeeps, MissedKeeps, InsertKeeps, ConflictKeeps, EndsKeep, CommitKeeps DEF Step
<1>3. ASSUME NEW s \in Scans, DeadlockVictim(s) \/ Fail(s)
      PROVE  IInv'
  BY <1>3, EndsKeep
<1>4. ASSUME NEW row \in Rows, Decide(row)
      PROVE  IInv'
  BY <1>4, DecideKeeps
<1> QED
  BY <1>1, <1>2, <1>3, <1>4, StutterKeeps DEF Next

-----------------------------------------------------------------------------
(* Theorems *)

\* The invariant holds in every state.
THEOREM PersistenceInvariant == Spec => []IInv
BY InitEstablishes, NextKeeps, PTL DEF Spec

\* Every row has its table and key, every plan is a sequence of rows.
THEOREM PersistenceTypeCorrect == Spec => []TypeOK
<1>1. IInv => TypeOK
  BY DEF IInv
<1> QED
  BY <1>1, PersistenceInvariant, PTL

\* add_or_get_existing: however many scans find and create the same rows at the same
\* time, one row of each is stored, assessments too, which have no unique index.
THEOREM RowsStayUnique == Spec => []NoDuplicateRows
<1>1. IInv => NoDuplicateRows
  BY DEF IInv
<1> QED
  BY <1>1, PersistenceInvariant, PTL

\* The order of _persist_scan_result: no commit, rollback or decision leaves a
\* committed row whose foreign key dangles.
THEOREM ForeignKeysHold == Spec => []ParentsStored
<1>1. IInv => ParentsStored
  BY DEF IInv
<1> QED
  BY <1>1, PersistenceInvariant, PTL

\* persist_scan_result: a stored scan row, or an answer of success, means that every
\* row of the result is stored, the tasks too but for those decided since it began.
THEOREM AllOrNothing == Spec => []ResultsStoredWhole
<1>1. IInv => ResultsStoredWhole
  BY DEF IInv
<1> QED
  BY <1>1, PersistenceInvariant, PTL
=============================================================================
