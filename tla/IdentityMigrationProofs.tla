----------------------- MODULE IdentityMigrationProofs -----------------------
(***************************************************************************)
(* The safety properties of IdentityMigration for every set of keys, every *)
(* number of rows and every database whose foreign keys hold, and that it  *)
(* implements IdentityLedger: whatever upgrade() merges, however often it  *)
(* fails and whatever sessions commit meanwhile, the tables forget nothing.*)
(***************************************************************************)
EXTENDS IdentityMigration, OrderLemmas

Typed(t) == DOMAIN t \subseteq Ids /\ \A i \in DOMAIN t : t[i] \in Rows

\* No two rows of the table have one identity.
NoTwins(t, table) ==
    \A i, j \in DOMAIN t :
      t[i].table = table /\ Identified(t[i]) /\ t[i] = t[j] => i = j

SameRows(t, u, table) ==
    \A i \in DOMAIN t \union DOMAIN u :
      (i \in DOMAIN t /\ t[i].table = table) \/ (i \in DOMAIN u /\ u[i].table = table) =>
        i \in DOMAIN t /\ i \in DOMAIN u /\ t[i] = u[i]

-----------------------------------------------------------------------------
(* Duplicates *)

\* The canonical row of a row is the first that is equal to it.
LEMMA CanonicalIsFirst ==
    ASSUME NEW t, Typed(t), NEW i \in DOMAIN t
    PROVE  /\ Canonical(t, i) \in DOMAIN t
           /\ t[Canonical(t, i)] = t[i]
           /\ \A k \in DOMAIN t : t[k] = t[i] => Canonical(t, i) <= k
<1> DEFINE S == {j \in DOMAIN t : t[j] = t[i]}
<1>1. S \in SUBSET Nat /\ S # {}
  BY MaxIdAssumption DEF Typed, Ids
<1>2. \E j \in S : \A k \in S : j <= k
  BY <1>1, LeastNatural
<1> QED
  BY <1>2 DEF Canonical

LEMMA EqualRowsOneCanonical ==
    ASSUME NEW t, Typed(t), NEW i \in DOMAIN t, NEW j \in DOMAIN t, t[i] = t[j]
    PROVE  Canonical(t, i) = Canonical(t, j)
<1>1. Canonical(t, i) <= Canonical(t, j) /\ Canonical(t, j) <= Canonical(t, i)
  BY CanonicalIsFirst
<1>2. Canonical(t, i) \in Nat /\ Canonical(t, j) \in Nat
  BY CanonicalIsFirst, MaxIdAssumption DEF Typed, Ids
<1> QED
  BY <1>1, <1>2

LEMMA CanonicalStays ==
    ASSUME NEW t, Typed(t), NEW i \in DOMAIN t, NEW table
    PROVE  Canonical(t, i) \in DOMAIN t \ Duplicates(t, table)
<1>1. Canonical(t, i) \in DOMAIN t /\ t[Canonical(t, i)] = t[i]
  BY CanonicalIsFirst
<1>2. Canonical(t, Canonical(t, i)) = Canonical(t, i)
  BY <1>1, EqualRowsOneCanonical
<1> QED
  BY <1>1, <1>2 DEF Duplicates

LEMMA NoDuplicatesNoTwins ==
    ASSUME NEW t, Typed(t), NEW table
    PROVE  Duplicates(t, table) = {} <=> NoTwins(t, table)
<1>1. ASSUME Duplicates(t, table) = {}
      PROVE  NoTwins(t, table)
  <2> SUFFICES ASSUME NEW i \in DOMAIN t, NEW j \in DOMAIN t, t[i].table = table,
                      Identified(t[i]), t[i] = t[j]
               PROVE  i = j
    BY DEF NoTwins
  <2>1. Canonical(t, i) = i /\ Canonical(t, j) = j
    BY <1>1 DEF Duplicates
  <2> QED
    BY <2>1, EqualRowsOneCanonical
<1>2. ASSUME NoTwins(t, table)
      PROVE  Duplicates(t, table) = {}
  BY <1>2, CanonicalIsFirst DEF NoTwins, Duplicates
<1> QED
  BY <1>1, <1>2

\* What is a duplicate in a table depends on the rows of that table alone.
LEMMA SameRowsSameDuplicates ==
    ASSUME NEW t, Typed(t), NEW u, Typed(u), NEW table, SameRows(t, u, table)
    PROVE  Duplicates(t, table) = Duplicates(u, table)
<1>1. ASSUME NEW i \in DOMAIN t, i \in DOMAIN u, t[i] = u[i], t[i].table = table
      PROVE  Canonical(t, i) = Canonical(u, i)
  <2>1. /\ Canonical(t, i) \in DOMAIN t /\ t[Canonical(t, i)] = t[i]
        /\ Canonical(u, i) \in DOMAIN u /\ u[Canonical(u, i)] = u[i]
    BY <1>1, CanonicalIsFirst
  <2>2. /\ Canonical(t, i) \in DOMAIN u /\ u[Canonical(t, i)] = u[i]
        /\ Canonical(u, i) \in DOMAIN t /\ t[Canonical(u, i)] = t[i]
    BY <1>1, <2>1 DEF SameRows
  <2>3. Canonical(t, i) <= Canonical(u, i) /\ Canonical(u, i) <= Canonical(t, i)
    BY <1>1, <2>2, CanonicalIsFirst
  <2>4. Canonical(t, i) \in Nat /\ Canonical(u, i) \in Nat
    BY <2>1, MaxIdAssumption DEF Typed, Ids
  <2> QED
    BY <2>3, <2>4
<1> QED
  BY <1>1 DEF Duplicates, SameRows

-----------------------------------------------------------------------------
(* Statements *)

LEMMA ColumnsOfRows ==
    ASSUME NEW r \in Rows, NEW c \in Columns
    PROVE  /\ r.table \in Tables
           /\ \A i \in Ids :
                LET s == [r EXCEPT ![c] = i]
                IN /\ s \in Rows /\ s.table = r.table /\ s[c] = i
                   /\ \A d \in Columns \ {c} : s[d] = r[d]
BY DEF Rows, Columns, Target

LEMMA ReferencesAreColumns ==
    \A table \in Tables : ReferencesOf[table] \subseteq Columns
BY DEF Tables, ReferencesOf, Columns, Target

\* A row keeps its table and what its other columns refer to; the row it refers
\* to by the re-pointed column is equal to the one before.
LEMMA RepointEffect ==
    ASSUME NEW t, Typed(t), NEW child \in Tables, NEW column \in Columns
    PROVE  LET u == Repoint(t, child, column)
           IN /\ Typed(u) /\ DOMAIN u = DOMAIN t
              /\ \A table : table # child => SameRows(t, u, table)
              /\ \A i \in DOMAIN t :
                   /\ u[i].table = t[i].table
                   /\ \A c \in Columns \ {column} : u[i][c] = t[i][c]
                   /\ \/ u[i][column] = t[i][column]
                      \/ /\ t[i][column] \in DOMAIN t
                         /\ u[i][column] = Canonical(t, t[i][column])
                   /\ t[i].table = child =>
                        u[i][column] \notin Duplicates(t, Target[column])
<1> DEFINE u == Repoint(t, child, column)
           T == Target[column]
<1>1. DOMAIN u = DOMAIN t
  BY DEF Repoint
<1>2. ASSUME NEW i \in DOMAIN t
      PROVE  /\ u[i] \in Rows
             /\ u[i].table = t[i].table
             /\ t[i].table # child => u[i] = t[i]
             /\ \A c \in Columns \ {column} : u[i][c] = t[i][c]
             /\ \/ u[i][column] = t[i][column]
                \/ /\ t[i][column] \in DOMAIN t
                   /\ u[i][column] = Canonical(t, t[i][column])
             /\ t[i].table = child => u[i][column] \notin Duplicates(t, T)
  <2>1. t[i] \in Rows
    BY DEF Typed
  <2>2. CASE ~ (t[i].table = child /\ t[i][column] \in Duplicates(t, T))
    <3>1. u[i] = t[i]
      BY <2>2 DEF Repoint
    <3> QED
      BY <2>1, <2>2, <3>1
  <2>3. CASE t[i].table = child /\ t[i][column] \in Duplicates(t, T)
    <3> DEFINE j == Canonical(t, t[i][column])
    <3>1. u[i] = [t[i] EXCEPT ![column] = j]
      BY <2>3 DEF Repoint
    <3>2. t[i][column] \in DOMAIN t
      BY <2>3 DEF Duplicates
    <3>3. j \in DOMAIN t \ Duplicates(t, T)
      BY <3>2, CanonicalStays
    <3>4. j \in Ids
      BY <3>3 DEF Typed
    <3> HIDE DEF j, u, T
    <3>5. /\ u[i] \in Rows /\ u[i].table = t[i].table /\ u[i][column] = j
          /\ \A c \in Columns \ {column} : u[i][c] = t[i][c]
      BY <2>1, <3>1, <3>4, ColumnsOfRows
    <3> QED
      BY <2>3, <3>2, <3>3, <3>5 DEF j
  <2> QED
    BY <2>2, <2>3
<1> HIDE DEF u
<1>3. Typed(u)
  BY <1>1, <1>2 DEF Typed
<1>4. \A table : table # child => SameRows(t, u, table)
  BY <1>1, <1>2 DEF SameRows
<1> QED
  BY <1>1, <1>2, <1>3, <1>4 DEF u

LEMMA RepointKeepsReferences ==
    ASSUME NEW t, Typed(t), Dangling(t) = {}, NEW child \in Tables, NEW column \in Columns
    PROVE  Dangling(Repoint(t, child, column)) = {}
<1> DEFINE u == Repoint(t, child, column)
<1> HIDE DEF u
<1> SUFFICES ASSUME NEW i \in DOMAIN u, NEW c \in ReferencesOf[u[i].table]
             PROVE  u[i][c] \in DOMAIN u /\ u[u[i][c]].table = Target[c]
  BY DEF Dangling, u
<1>1. /\ DOMAIN u = DOMAIN t
      /\ u[i].table = t[i].table
      /\ c \in ReferencesOf[t[i].table]
      /\ \A k \in DOMAIN t : u[k].table = t[k].table
  BY RepointEffect DEF u
<1>2. c \in Columns
  BY <1>1, ReferencesAreColumns, ColumnsOfRows DEF Typed
<1>3. t[i][c] \in DOMAIN t /\ t[t[i][c]].table = Target[c]
  BY <1>1 DEF Dangling
<1>4. u[i][c] = t[i][c] \/ u[i][c] = Canonical(t, t[i][c])
  BY <1>1, <1>2, RepointEffect DEF u
<1>5. u[i][c] \in DOMAIN t /\ t[u[i][c]].table = Target[c]
  BY <1>3, <1>4, CanonicalIsFirst
<1> QED
  BY <1>1, <1>5

LEMMA DeleteEffect ==
    ASSUME NEW t, Typed(t), NEW table
    PROVE  LET u == DeleteDuplicates(t, table)
           IN /\ Typed(u) /\ DOMAIN u = DOMAIN t \ Duplicates(t, table)
              /\ \A i \in DOMAIN u : u[i] = t[i]
              /\ Duplicates(u, table) = {}
              /\ \A other : other # table => SameRows(t, u, other)
<1> DEFINE u == DeleteDuplicates(t, table)
<1>1. /\ DOMAIN u = DOMAIN t \ Duplicates(t, table)
      /\ \A i \in DOMAIN u : u[i] = t[i]
  BY DEF DeleteDuplicates
<1> HIDE DEF u
<1>2. Typed(u)
  BY <1>1 DEF Typed
<1>3. NoTwins(u, table)
  <2> SUFFICES ASSUME NEW i \in DOMAIN u, NEW j \in DOMAIN u, u[i].table = table,
                      Identified(u[i]), u[i] = u[j]
               PROVE  i = j
    BY DEF NoTwins
  <2>1. Canonical(t, i) = i /\ Canonical(t, j) = j
    BY <1>1 DEF Duplicates
  <2> QED
    BY <1>1, <2>1, EqualRowsOneCanonical
<1>4. \A other : other # table => SameRows(t, u, other)
  BY <1>1 DEF SameRows, Duplicates
<1> QED
  BY <1>1, <1>2, <1>3, <1>4, NoDuplicatesNoTwins DEF u

-----------------------------------------------------------------------------
(* Upgrade: a table is merged after its parents, when all its children have   *)
(* been re-pointed, and before its index is created.                          *)

Merge == 1..15

LEMMA UpgradeLength == Len(Upgrade) = 22
BY DEF Upgrade, MergeRepos, MergeAdvisoryLeaves, MergePackages,
       MergePackageVulnerabilities, MergeOpenTasks, CreateIndexes, StampStep

LEMMA UpgradeStatements ==
    /\ Upgrade[1] = RepointStep("scans", "repo")
    /\ Upgrade[2] = RepointStep("packages", "repo")
    /\ Upgrade[3] = RepointStep("repo_files", "repo")
    /\ Upgrade[4] = RepointStep("embeddings", "repo")
    /\ Upgrade[5] = RepointStep("remediation_tasks", "repo")
    /\ Upgrade[6] = DeleteStep("repos")
    /\ Upgrade[7] = DeleteStep("vulnerability_aliases")
    /\ Upgrade[8] = DeleteStep("advisory_references")
    /\ Upgrade[9] = RepointStep("package_vulnerabilities", "package")
    /\ Upgrade[10] = DeleteStep("packages")
    /\ Upgrade[11] = RepointStep("reachability_assessments", "finding")
    /\ Upgrade[12] = RepointStep("remediation_tasks", "finding")
    /\ Upgrade[13] = DeleteStep("package_vulnerabilities")
    /\ Upgrade[14] = RepointStep("human_approvals", "task")
    /\ Upgrade[15] = DeleteStep("remediation_tasks")
    /\ Upgrade[16] = IndexStep("repos")
    /\ Upgrade[17] = IndexStep("vulnerability_aliases")
    /\ Upgrade[18] = IndexStep("advisory_references")
    /\ Upgrade[19] = IndexStep("packages")
    /\ Upgrade[20] = IndexStep("package_vulnerabilities")
    /\ Upgrade[21] = IndexStep("remediation_tasks")
    /\ Upgrade[22] = StampStep
BY DEF Upgrade, MergeRepos, MergeAdvisoryLeaves, MergePackages,
       MergePackageVulnerabilities, MergeOpenTasks, CreateIndexes, StampStep

LEMMA UpgradeTyped ==
    ASSUME NEW k \in 1..21
    PROVE  /\ Upgrade[k].table \in Tables
           /\ Upgrade[k].op \in {"repoint", "delete", "index"}
           /\ Upgrade[k].op = "index" <=> k \in 16..21
           /\ Upgrade[k].op = "repoint" =>
                Upgrade[k].column \in Columns /\ Upgrade[k].table # Target[Upgrade[k].column]
BY UpgradeStatements DEF RepointStep, DeleteStep, IndexStep, Tables, ReferencesOf, Columns, Target

LEMMA StampIsLast ==
    ASSUME NEW k \in 1..22
    PROVE  Upgrade[k].op = "stamp" <=> k = 22
<1>1. k \in 1..21 => Upgrade[k].op \in {"repoint", "delete", "index"}
  BY UpgradeTyped
<1> QED
  BY <1>1, UpgradeStatements DEF StampStep

\* A statement that re-points changes no table that was re-pointed to or merged.
LEMMA RepointedBeforeMerged ==
    ASSUME NEW k \in 1..21, Upgrade[k].op = "repoint", NEW j \in 1..21, j < k
    PROVE  /\ Upgrade[j].op = "repoint" => Upgrade[k].table # Target[Upgrade[j].column]
           /\ Upgrade[j].op = "delete" => Upgrade[k].table # Upgrade[j].table
<1> USE UpgradeStatements DEF RepointStep, DeleteStep, IndexStep, Target
<1>1. k \in {1, 2, 3, 4, 5, 9, 11, 12, 14}
  OBVIOUS
<1>2. CASE k \in {1, 2, 3, 4, 5}
  <2>1. j \in {1, 2, 3, 4}
    BY <1>2
  <2> QED
    BY <1>2, <2>1
<1>3. CASE k = 9
  <2>1. j \in 1..8
    BY <1>3
  <2> QED
    BY <1>3, <2>1
<1>4. CASE k \in {11, 12}
  <2>1. j \in 1..11
    BY <1>4
  <2> QED
    BY <1>4, <2>1
<1>5. CASE k = 14
  <2>1. j \in 1..13
    BY <1>5
  <2> QED
    BY <1>5, <2>1
<1> QED
  BY <1>1, <1>2, <1>3, <1>4, <1>5

\* A table is merged when all references to it have been re-pointed.
LEMMA ChildrenRepointed ==
    ASSUME NEW k \in 1..21, Upgrade[k].op = "delete", NEW child \in Tables,
           NEW c \in ReferencesOf[child], Target[c] = Upgrade[k].table
    PROVE  \E j \in 1..21 : j < k /\ Upgrade[j] = RepointStep(child, c)
<1>1. k \in {6, 7, 8, 10, 13, 15}
  BY UpgradeStatements DEF RepointStep, DeleteStep, IndexStep
<1>2. \/ c = "repo" /\ child \in {"scans", "packages", "repo_files", "embeddings",
                                   "remediation_tasks"}
      \/ c = "package" /\ child = "package_vulnerabilities"
      \/ c = "finding" /\ child \in {"reachability_assessments", "remediation_tasks"}
      \/ c = "task" /\ child = "human_approvals"
  BY DEF Tables, ReferencesOf
<1>3. /\ c = "repo" => k = 6
      /\ c = "package" => k = 10
      /\ c = "finding" => k = 13
      /\ c = "task" => k = 15
  BY <1>1, <1>2, UpgradeStatements DEF Target, DeleteStep
<1>4. \E j \in {1, 2, 3, 4, 5, 9, 11, 12, 14} : j < k /\ Upgrade[j] = RepointStep(child, c)
  BY <1>2, <1>3, UpgradeStatements
<1> QED
  BY <1>4

LEMMA IndexedWhenMerged ==
    ASSUME NEW k \in 1..21, Upgrade[k].op = "index"
    PROVE  \E j \in 1..21 : j < k /\ Upgrade[j] = DeleteStep(Upgrade[k].table)
<1>1. k \in 16..21
  BY UpgradeTyped
<1>2. \E j \in {6, 7, 8, 10, 13, 15} : j < k /\ Upgrade[j] = DeleteStep(Upgrade[k].table)
  BY <1>1, UpgradeStatements DEF IndexStep
<1> QED
  BY <1>2

LEMMA IdentitiesIndexed ==
    \A r : Identified(r) => \E k \in 16..21 : Upgrade[k].table = r.table
BY UpgradeStatements DEF Identified, IdentityTables, IndexStep

\* What a statement has achieved: no row of the child refers to a duplicate, or
\* the table has no duplicates.
Done(t, s) ==
    /\ s.op = "repoint" =>
         \A i \in DOMAIN t :
           t[i].table = s.table => t[i][s.column] \notin Duplicates(t, Target[s.column])
    /\ s.op = "delete" => Duplicates(t, s.table) = {}

LEMMA RepointKeepsDone ==
    ASSUME NEW t, Typed(t), NEW k \in 1..21, Upgrade[k].op = "repoint",
           \A j \in 1..21 : j < k => Done(t, Upgrade[j]),
           NEW n \in 1..21, n <= k
    PROVE  Done(Repoint(t, Upgrade[k].table, Upgrade[k].column), Upgrade[n])
<1> DEFINE s == Upgrade[k]
           u == Repoint(t, s.table, s.column)
           o == Upgrade[n]
<1>1. s.table \in Tables /\ s.column \in Columns /\ s.table # Target[s.column]
  BY UpgradeTyped
<1> SUFFICES Done(u, o)
  OBVIOUS
<1> HIDE DEF u
<1>2. /\ Typed(u) /\ DOMAIN u = DOMAIN t
      /\ \A table : table # s.table => SameRows(t, u, table)
      /\ \A i \in DOMAIN t :
           /\ u[i].table = t[i].table
           /\ \A c \in Columns \ {s.column} : u[i][c] = t[i][c]
           /\ \/ u[i][s.column] = t[i][s.column]
              \/ /\ t[i][s.column] \in DOMAIN t
                 /\ u[i][s.column] = Canonical(t, t[i][s.column])
           /\ t[i].table = s.table => u[i][s.column] \notin Duplicates(t, Target[s.column])
  BY <1>1, RepointEffect DEF u
<1>3. \A table : table # s.table => Duplicates(t, table) = Duplicates(u, table)
  BY <1>2, SameRowsSameDuplicates
<1>4. CASE n = k
  BY <1>1, <1>2, <1>3, <1>4 DEF Done
<1>5. CASE n < k
  <2>1. Done(t, o)
    BY <1>5
  <2>2. CASE o.op = "repoint"
    <3>1. o.column \in Columns /\ s.table # Target[o.column]
      BY <1>5, <2>2, UpgradeTyped, RepointedBeforeMerged
    <3>2. Duplicates(u, Target[o.column]) = Duplicates(t, Target[o.column])
      BY <1>3, <3>1
    <3> SUFFICES ASSUME NEW i \in DOMAIN u, u[i].table = o.table
                 PROVE  u[i][o.column] \notin Duplicates(t, Target[o.column])
      BY <2>2, <3>2 DEF Done
    <3>3. t[i][o.column] \notin Duplicates(t, Target[o.column])
      BY <1>2, <2>1, <2>2 DEF Done
    <3>4. \/ u[i][o.column] = t[i][o.column]
          \/ t[i][o.column] \in DOMAIN t /\ u[i][o.column] = Canonical(t, t[i][o.column])
      BY <1>2, <3>1
    <3> QED
      BY <3>3, <3>4, CanonicalStays
  <2>3. CASE o.op = "delete"
    BY <1>3, <1>5, <2>1, <2>3, RepointedBeforeMerged DEF Done
  <2> QED
    BY <2>2, <2>3 DEF Done
<1> QED
  BY <1>4, <1>5

LEMMA DeleteKeepsDone ==
    ASSUME NEW t, Typed(t), NEW table, NEW s, Done(t, s) \/ s = DeleteStep(table)
    PROVE  Done(DeleteDuplicates(t, table), s)
<1> DEFINE u == DeleteDuplicates(t, table)
<1> SUFFICES Done(u, s)
  OBVIOUS
<1> HIDE DEF u
<1>1. /\ Typed(u) /\ DOMAIN u = DOMAIN t \ Duplicates(t, table)
      /\ \A i \in DOMAIN u : u[i] = t[i]
      /\ Duplicates(u, table) = {}
      /\ \A other : other # table => SameRows(t, u, other)
  BY DeleteEffect DEF u
<1>2. \A other : Duplicates(u, other) \in {{}, Duplicates(t, other)}
  BY <1>1, SameRowsSameDuplicates
<1>3. CASE s = DeleteStep(table)
  BY <1>1, <1>3 DEF Done, DeleteStep
<1>4. CASE Done(t, s)
  BY <1>1, <1>2, <1>4 DEF Done
<1> QED
  BY <1>3, <1>4

-----------------------------------------------------------------------------
(* Sessions *)

\* The rows of u are those of t and row r of id i; they are typed and refer to
\* rows of u, and r makes twins only of what it is equal to.
RowAdded(t, i, r, u) ==
    /\ Typed(u) /\ DOMAIN u = DOMAIN t \union {i}
    /\ u[i] = r
    /\ \A j \in DOMAIN t : u[j] = t[j]
    /\ Dangling(u) = {}
    /\ \A table :
         /\ NoTwins(t, table)
         /\ r.table # table \/ ~ Identified(r) \/ \A j \in DOMAIN t : t[j] # r
         => NoTwins(u, table)

\* The rows of u are those of t, in the same tables, with no new twins.
TaskSettled(t, u) ==
    /\ Typed(u) /\ DOMAIN u = DOMAIN t
    /\ \A j \in DOMAIN t : u[j].table = t[j].table
    /\ Dangling(u) = {}
    /\ \A table : NoTwins(t, table) => NoTwins(u, table)

LEMMA AddedEffect ==
    ASSUME NEW t, Typed(t), Dangling(t) = {}, NEW i \in Ids, i \notin DOMAIN t, NEW r \in Rows,
           \A c \in ReferencesOf[r.table] : r[c] \in DOMAIN t /\ t[r[c]].table = Target[c],
           NEW u, u = Added(t, i, r)
    PROVE  RowAdded(t, i, r, u)
<1>1. /\ DOMAIN u = DOMAIN t \union {i}
      /\ u[i] = r
      /\ \A j \in DOMAIN t : u[j] = t[j]
  BY DEF Added
<1>2. Typed(u)
  BY <1>1 DEF Typed
<1>3. Dangling(u) = {}
  <2> SUFFICES ASSUME NEW j \in DOMAIN u, NEW c \in ReferencesOf[u[j].table]
               PROVE  u[j][c] \in DOMAIN u /\ u[u[j][c]].table = Target[c]
    BY DEF Dangling
  <2>1. CASE j = i
    BY <1>1, <2>1
  <2>2. CASE j \in DOMAIN t
    <3>1. t[j][c] \in DOMAIN t /\ t[t[j][c]].table = Target[c]
      BY <1>1, <2>2 DEF Dangling
    <3> QED
      BY <1>1, <2>2, <3>1
  <2> QED
    BY <1>1, <2>1, <2>2
<1>4. ASSUME NEW table, NoTwins(t, table),
             r.table # table \/ ~ Identified(r) \/ \A j \in DOMAIN t : t[j] # r
      PROVE  NoTwins(u, table)
  BY <1>1, <1>4 DEF NoTwins
<1> QED
  BY <1>1, <1>2, <1>3, <1>4 DEF RowAdded

LEMMA SettledEffect ==
    ASSUME NEW t, Typed(t), Dangling(t) = {}, NEW i \in DOMAIN t,
           t[i].table = "remediation_tasks", NEW v \in Verdicts,
           NEW s, s = [t[i] EXCEPT !.status = v],
           NEW u, u = [t EXCEPT ![i] = s]
    PROVE  TaskSettled(t, u)
<1>1. /\ s \in Rows /\ s.table = "remediation_tasks" /\ s.status = v
      /\ \A c \in Columns : s[c] = t[i][c]
  BY DEF Typed, Rows, Columns, Target
<1>2. ~ Identified(s)
  BY <1>1, VerdictsAssumption DEF Identified, IdentityTables
<1>3. /\ DOMAIN u = DOMAIN t
      /\ u[i] = s
      /\ \A j \in DOMAIN t \ {i} : u[j] = t[j]
  OBVIOUS
<1>4. Typed(u)
  BY <1>1, <1>3 DEF Typed
<1>5. \A j \in DOMAIN t : u[j].table = t[j].table
  BY <1>1, <1>3
<1>6. Dangling(u) = {}
  <2> SUFFICES ASSUME NEW j \in DOMAIN t, NEW c \in ReferencesOf[u[j].table]
               PROVE  u[j][c] \in DOMAIN t /\ u[u[j][c]].table = Target[c]
    BY <1>3 DEF Dangling
  <2>1. c \in ReferencesOf[t[j].table] /\ t[j].table \in Tables
    BY <1>5 DEF Typed, Rows
  <2>2. t[j][c] \in DOMAIN t /\ t[t[j][c]].table = Target[c]
    BY <2>1 DEF Dangling
  <2>3. u[j][c] = t[j][c]
    BY <1>1, <1>3, <2>1, ReferencesAreColumns
  <2> QED
    BY <1>5, <2>2, <2>3
<1>7. \A table : NoTwins(t, table) => NoTwins(u, table)
  BY <1>2, <1>3 DEF NoTwins
<1> QED
  BY <1>3, <1>4, <1>5, <1>6, <1>7 DEF TaskSettled

LEMMA ApprovalRow ==
    ASSUME NEW i \in Ids
    PROVE  LET r == [Blank("human_approvals") EXCEPT !.task = i]
           IN /\ r \in Rows /\ r.table = "human_approvals" /\ ~ Identified(r)
              /\ ReferencesOf[r.table] = {"task"}
              /\ r["task"] = i /\ Target["task"] = "remediation_tasks"
BY DEF Blank, Rows, Tables, ReferencesOf, Target, Identified, IdentityTables

\* The columns of a row that a session may commit hold ids and keys.
LEMMA NewRowsTyped ==
    ASSUME Typed(rows), NEW r \in NewRows, Writable(r)
    PROVE  r \in Rows
<1>1. \A table : Of(table) \subseteq Ids
  BY DEF Of, Typed
<1>2. \/ \E table \in {"repos", "vulnerability_aliases", "advisory_references"}, k \in Keys :
           r = [Blank(table) EXCEPT !.key = k]
      \/ \E table \in {"scans", "embeddings"}, i \in Ids : r = [Blank(table) EXCEPT !.repo = i]
      \/ \E i \in Ids, k \in Keys : r = NewPackage(i, k)
      \/ \E i \in Ids, k \in Keys : r = NewFinding(i, k)
      \/ \E i \in Ids : r = [Blank("reachability_assessments") EXCEPT !.finding = i]
      \/ \E i \in Ids : r = NewTask(i)
  BY <1>1 DEF NewRows
<1> USE DEF Blank, Rows, Tables, ReferencesOf
<1>3. CASE \E table \in {"repos", "vulnerability_aliases", "advisory_references"}, k \in Keys :
             r = [Blank(table) EXCEPT !.key = k]
  BY <1>3
<1>4. CASE \E table \in {"scans", "embeddings"}, i \in Ids : r = [Blank(table) EXCEPT !.repo = i]
  BY <1>4
<1>5. CASE \E i \in Ids, k \in Keys : r = NewPackage(i, k)
  BY <1>5 DEF NewPackage
<1>6. CASE \E i \in Ids, k \in Keys : r = NewFinding(i, k)
  BY <1>6 DEF NewFinding
<1>7. CASE \E i \in Ids : r = [Blank("reachability_assessments") EXCEPT !.finding = i]
  BY <1>7
<1>8. CASE \E i \in Ids : r = NewTask(i)
  <2>1. PICK i \in Ids : r = NewTask(i)
    BY <1>8
  <2>2. r.table = "remediation_tasks" /\ "repo" \in ReferencesOf[r.table]
    BY <2>1 DEF NewTask
  <2>3. r.repo \in Ids
    BY <2>2 DEF Writable, Typed
  <2> QED
    BY <2>1, <2>3 DEF NewTask
<1> QED
  BY <1>2, <1>3, <1>4, <1>5, <1>6, <1>7, <1>8

-----------------------------------------------------------------------------
(* The invariant *)

\* Foreign keys hold, for sessions and for the migration.
ReferencesHold ==
    /\ Dangling(rows) = {} /\ Dangling(seen) = {}
    /\ \A i \in DOMAIN seen : seen[i].table = rows[i].table

\* An index that exists, or is being created, keeps twins out.
IndexesHold ==
    /\ revision = "0002" => pc = 0 /\ \A table : NoTwins(rows, table)
    /\ \A table \in indexed : NoTwins(seen, table)
    /\ pc <= 16 => indexed = {}
    /\ \A k \in 16..21 : k < pc => Upgrade[k].table \in indexed

\* Until a session commits, what the migration has achieved stays.
AloneProgresses ==
    pc > 0 /\ undisturbed => \A k \in 1..21 : k < pc => Done(seen, Upgrade[k])

IInv == TypeOK /\ ReferencesHold /\ IndexesHold /\ AloneProgresses

LEMMA TypedTables == TypeOK => Typed(rows) /\ Typed(seen)
BY DEF TypeOK, Typed

LEMMA InitEstablishes == Init => IInv
<1> SUFFICES ASSUME Init
             PROVE  IInv
  OBVIOUS
<1> USE DEF Init
<1>1. DOMAIN rows \subseteq Ids /\ (\A i \in DOMAIN rows : rows[i] \in Rows) /\ Dangling(rows) = {}
  BY DatabasesAssumption
<1>2. TypeOK
  BY <1>1, UpgradeLength DEF TypeOK
<1>3. ReferencesHold
  BY <1>1 DEF ReferencesHold
<1>4. IndexesHold /\ AloneProgresses
  BY DEF IndexesHold, AloneProgresses
<1> QED
  BY <1>2, <1>3, <1>4 DEF IInv

LEMMA StartKeeps == IInv /\ Start => IInv'
<1> SUFFICES ASSUME IInv, Start
             PROVE  IInv'
  OBVIOUS
<1> USE DEF IInv, Start
<1>1. TypeOK'
  BY UpgradeLength DEF TypeOK
<1>2. ReferencesHold'
  BY DEF ReferencesHold
<1>3. IndexesHold'
  BY DEF IndexesHold, TypeOK
<1>4. AloneProgresses'
  BY DEF AloneProgresses
<1> QED
  BY <1>1, <1>2, <1>3, <1>4

LEMMA RepointChildrenKeeps == IInv /\ RepointChildren => IInv'
<1> SUFFICES ASSUME IInv, RepointChildren
             PROVE  IInv'
  OBVIOUS
<1>1. /\ pc \in 1..21 /\ Upgrade[pc].op = "repoint" /\ pc' = pc + 1
      /\ seen' = Repoint(seen, Upgrade[pc].table, Upgrade[pc].column)
      /\ UNCHANGED <<fresh, rows, revision, indexed, undisturbed, version_width>>
  BY UpgradeLength, StampIsLast DEF RepointChildren, Executes, Statement
<1>2. /\ Upgrade[pc].table \in Tables /\ Upgrade[pc].column \in Columns
      /\ pc <= 15
  BY <1>1, UpgradeTyped
<1>3. Typed(seen)
  BY TypedTables DEF IInv
<1>4. Typed(seen') /\ DOMAIN seen' = DOMAIN seen /\ \A i \in DOMAIN seen : seen'[i].table = seen[i].table
  BY <1>1, <1>2, <1>3, RepointEffect
<1>5. TypeOK'
  BY <1>1, <1>2, <1>4, UpgradeLength DEF IInv, TypeOK, Typed
<1>6. ReferencesHold'
  BY <1>1, <1>2, <1>3, <1>4, RepointKeepsReferences DEF IInv, ReferencesHold
<1>7. IndexesHold'
  BY <1>1, <1>2 DEF IInv, IndexesHold
<1>8. AloneProgresses'
  <2> SUFFICES ASSUME undisturbed, NEW k \in 1..21, k < pc + 1
               PROVE  Done(seen', Upgrade[k])
    BY <1>1 DEF AloneProgresses
  <2>1. k <= pc /\ \A j \in 1..21 : j < pc => Done(seen, Upgrade[j])
    BY <1>1 DEF IInv, AloneProgresses
  <2> QED
    BY <1>1, <1>3, <2>1, RepointKeepsDone
<1> QED
  BY <1>5, <1>6, <1>7, <1>8 DEF IInv

LEMMA RemoveKeeps == IInv /\ Remove => IInv'
<1> SUFFICES ASSUME IInv, Remove
             PROVE  IInv'
  OBVIOUS
<1>1. /\ pc \in 1..21 /\ Upgrade[pc].op = "delete" /\ pc' = pc + 1
      /\ seen' = DeleteDuplicates(seen, Upgrade[pc].table)
      /\ Dangling(seen') = {}
      /\ UNCHANGED <<fresh, rows, revision, indexed, undisturbed, version_width>>
  BY UpgradeLength, StampIsLast DEF Remove, Executes, Statement
<1>2. Upgrade[pc].table \in Tables /\ pc <= 15
  BY <1>1, UpgradeTyped
<1>3. Typed(seen)
  BY TypedTables DEF IInv
<1>4. /\ Typed(seen') /\ DOMAIN seen' = DOMAIN seen \ Duplicates(seen, Upgrade[pc].table)
      /\ \A i \in DOMAIN seen' : seen'[i] = seen[i]
  BY <1>1, <1>3, DeleteEffect
<1>5. TypeOK'
  BY <1>1, <1>2, <1>4, UpgradeLength DEF IInv, TypeOK, Typed
<1>6. ReferencesHold'
  BY <1>1, <1>4 DEF IInv, ReferencesHold
<1>7. IndexesHold'
  BY <1>1, <1>2 DEF IInv, IndexesHold
<1>8. AloneProgresses'
  <2> SUFFICES ASSUME undisturbed, NEW k \in 1..21, k < pc + 1
               PROVE  Done(seen', Upgrade[k])
    BY <1>1 DEF AloneProgresses
  <2>1. CASE k < pc
    <3>1. Done(seen, Upgrade[k])
      BY <1>1, <2>1 DEF IInv, AloneProgresses
    <3> QED
      BY <1>1, <1>3, <3>1, DeleteKeepsDone
  <2>2. CASE k = pc
    <3>1. Duplicates(seen', Upgrade[pc].table) = {}
      BY <1>1, <1>3, DeleteEffect
    <3> QED
      BY <1>1, <2>2, <3>1 DEF Done
  <2> QED
    BY <1>1, <2>1, <2>2
<1> QED
  BY <1>5, <1>6, <1>7, <1>8 DEF IInv

LEMMA CreateIndexKeeps == IInv /\ CreateIndex => IInv'
<1> SUFFICES ASSUME IInv, CreateIndex
             PROVE  IInv'
  OBVIOUS
<1>1. /\ pc \in 1..21 /\ Upgrade[pc].op = "index" /\ pc' = pc + 1
      /\ Duplicates(seen, Upgrade[pc].table) = {}
      /\ indexed' = indexed \union {Upgrade[pc].table}
      /\ UNCHANGED <<fresh, rows, revision, seen, undisturbed, version_width>>
  BY UpgradeLength, StampIsLast DEF CreateIndex, Executes, Statement
<1>2. Upgrade[pc].table \in Tables /\ pc \in 16..21
  BY <1>1, UpgradeTyped
<1>3. NoTwins(seen, Upgrade[pc].table)
  BY <1>1, TypedTables, NoDuplicatesNoTwins DEF IInv
<1>4. TypeOK'
  BY <1>1, <1>2, UpgradeLength DEF IInv, TypeOK
<1>5. ReferencesHold'
  BY <1>1 DEF IInv, ReferencesHold
<1>6. IndexesHold'
  BY <1>1, <1>2, <1>3 DEF IInv, IndexesHold
<1>7. AloneProgresses'
  <2> SUFFICES ASSUME undisturbed, NEW k \in 1..21, k < pc + 1
               PROVE  Done(seen, Upgrade[k])
    BY <1>1 DEF AloneProgresses
  <2>1. CASE k < pc
    BY <1>1, <2>1 DEF IInv, AloneProgresses
  <2>2. CASE k = pc
    BY <1>1, <2>2 DEF Done
  <2> QED
    BY <1>1, <2>1, <2>2
<1> QED
  BY <1>4, <1>5, <1>6, <1>7 DEF IInv

LEMMA StampKeeps == IInv /\ Stamp => IInv'
<1> SUFFICES ASSUME IInv, Stamp
             PROVE  IInv'
  OBVIOUS
<1>1. /\ pc = 22 /\ pc' = 23
      /\ UNCHANGED <<fresh, rows, revision, seen, indexed, undisturbed, version_width>>
  BY UpgradeLength, StampIsLast DEF Stamp, Executes, Statement
<1>2. TypeOK' /\ ReferencesHold'
  BY <1>1, UpgradeLength DEF IInv, TypeOK, ReferencesHold
<1>3. IndexesHold' /\ AloneProgresses'
  BY <1>1 DEF IInv, IndexesHold, AloneProgresses
<1> QED
  BY <1>2, <1>3 DEF IInv

LEMMA RollbackKeeps == IInv /\ Rollback /\ undisturbed' \in BOOLEAN => IInv'
<1> SUFFICES ASSUME IInv, Rollback, undisturbed' \in BOOLEAN
             PROVE  IInv'
  OBVIOUS
<1> USE DEF Rollback, IInv
<1>1. TypeOK'
  BY UpgradeLength DEF TypeOK
<1>2. ReferencesHold'
  BY DEF ReferencesHold
<1>3. IndexesHold' /\ AloneProgresses'
  BY DEF IndexesHold, AloneProgresses
<1> QED
  BY <1>1, <1>2, <1>3

LEMMA CommitKeeps == IInv /\ Commit => IInv'
<1> SUFFICES ASSUME IInv, Commit
             PROVE  IInv'
  OBVIOUS
<1>1. /\ pc = 23 /\ pc' = 0 /\ rows' = seen /\ seen' = seen /\ revision' = "0002" /\ indexed' = {}
      /\ fresh' = fresh /\ undisturbed' = undisturbed /\ version_width' = version_width
  BY UpgradeLength DEF Commit
<1>2. TypeOK'
  BY <1>1 DEF IInv, TypeOK
<1>3. ReferencesHold'
  BY <1>1 DEF IInv, ReferencesHold
<1>4. \A table : NoTwins(seen, table)
  <2> SUFFICES ASSUME NEW table, NEW i \in DOMAIN seen, NEW j \in DOMAIN seen,
                      seen[i].table = table, Identified(seen[i]), seen[i] = seen[j]
               PROVE  i = j
    BY DEF NoTwins
  <2>1. table \in indexed
    BY <1>1, IdentitiesIndexed DEF IInv, IndexesHold
  <2> QED
    BY <2>1 DEF IInv, IndexesHold, NoTwins
<1>5. IndexesHold' /\ AloneProgresses'
  BY <1>1, <1>4 DEF IndexesHold, AloneProgresses
<1> QED
  BY <1>2, <1>3, <1>5 DEF IInv

LEMMA DowngradeKeeps == IInv /\ Downgrade => IInv'
<1> SUFFICES ASSUME IInv, Downgrade
             PROVE  IInv'
  OBVIOUS
<1> USE DEF Downgrade, IInv
<1>1. TypeOK' /\ ReferencesHold'
  BY DEF TypeOK, ReferencesHold
<1>2. IndexesHold' /\ AloneProgresses'
  BY DEF IndexesHold, AloneProgresses
<1> QED
  BY <1>1, <1>2

LEMMA InsertKeeps ==
    ASSUME IInv, NEW i \in fresh, NEW r \in NewRows, Insert(i, r)
    PROVE  IInv'
<1>1. /\ Typed(rows) /\ Typed(seen)
      /\ i \in Ids /\ i \notin DOMAIN rows /\ i \notin DOMAIN seen
      /\ r \in Rows
      /\ DOMAIN seen \subseteq DOMAIN rows
  BY TypedTables, NewRowsTyped DEF IInv, TypeOK, Insert
<1>2. \A c \in ReferencesOf[r.table] :
        /\ r[c] \in DOMAIN rows /\ rows[r[c]].table = Target[c]
        /\ r[c] \in DOMAIN seen /\ seen[r[c]].table = Target[c]
  BY DEF Insert, Writable, IInv, ReferencesHold
<1>3. RowAdded(rows, i, r, rows')
  <2>1. rows' = Added(rows, i, r) /\ Dangling(rows) = {}
    BY DEF Insert, IInv, ReferencesHold
  <2> QED
    BY <1>1, <1>2, <2>1, AddedEffect
<1>4. RowAdded(seen, i, r, seen')
  <2>1. seen' = Added(seen, i, r) /\ Dangling(seen) = {}
    BY DEF Insert, IInv, ReferencesHold
  <2> QED
    BY <1>1, <1>2, <2>1, AddedEffect
<1> USE DEF RowAdded
<1>5. TypeOK'
  <2>1. pc = 0 => seen' = rows'
    BY DEF IInv, TypeOK, Insert
  <2>2. fresh' \subseteq Ids /\ DOMAIN rows' \subseteq Ids \ fresh'
    BY <1>1, <1>3 DEF IInv, TypeOK, Insert
  <2>3. DOMAIN seen' \subseteq DOMAIN rows'
    BY <1>1, <1>3, <1>4
  <2> QED
    BY <1>3, <1>4, <2>1, <2>2, <2>3 DEF IInv, TypeOK, Insert, Typed
<1>6. ReferencesHold'
  BY <1>1, <1>3, <1>4 DEF IInv, ReferencesHold
<1>7. IndexesHold'
  <2>1. revision' = "0002" => pc' = 0 /\ \A table : NoTwins(rows', table)
    BY <1>3 DEF IInv, IndexesHold, Insert
  <2>2. \A table \in indexed' : NoTwins(seen', table)
    BY <1>4 DEF IInv, IndexesHold, Insert, Writable
  <2> QED
    BY <2>1, <2>2 DEF IInv, IndexesHold, Insert
<1>8. AloneProgresses'
  BY DEF AloneProgresses, Insert
<1> QED
  BY <1>5, <1>6, <1>7, <1>8 DEF IInv

LEMMA DecideKeeps ==
    ASSUME IInv, NEW i \in DOMAIN rows, NEW approval \in fresh, NEW v \in Verdicts,
           Decide(i, approval, v)
    PROVE  IInv'
<1> DEFINE settled == [rows[i] EXCEPT !.status = v]
           record == [Blank("human_approvals") EXCEPT !.task = i]
           u == [rows EXCEPT ![i] = settled]
           w == [seen EXCEPT ![i] = settled]
<1> HIDE DEF settled
<1>1. /\ rows[i].table = "remediation_tasks"
      /\ i \in DOMAIN seen /\ seen[i] = rows[i]
      /\ fresh' = fresh \ {approval}
      /\ rows' = Added(u, approval, record) /\ seen' = Added(w, approval, record)
      /\ undisturbed' = FALSE
      /\ UNCHANGED <<revision, pc, indexed, version_width>>
  BY DEF Decide, settled
<1>2. /\ Typed(rows) /\ Typed(seen)
      /\ i \in Ids /\ approval \in Ids /\ approval \notin DOMAIN rows /\ approval \notin DOMAIN seen
      /\ DOMAIN seen \subseteq DOMAIN rows
  BY TypedTables DEF IInv, TypeOK, Typed
<1>3. TaskSettled(rows, u)
  <2>1. settled = [rows[i] EXCEPT !.status = v] /\ Dangling(rows) = {}
    BY DEF settled, IInv, ReferencesHold
  <2> QED
    BY <1>1, <1>2, <2>1, SettledEffect
<1>4. TaskSettled(seen, w)
  <2>1. settled = [seen[i] EXCEPT !.status = v] /\ Dangling(seen) = {}
    BY <1>1 DEF settled, IInv, ReferencesHold
  <2> QED
    BY <1>1, <1>2, <2>1, SettledEffect
<1>5. /\ record \in Rows /\ ~ Identified(record)
      /\ ReferencesOf[record.table] = {"task"}
      /\ record["task"] = i /\ Target["task"] = "remediation_tasks"
  BY <1>2, ApprovalRow
<1> HIDE DEF record, u, w
<1>6. RowAdded(u, approval, record, rows')
  <2>1. \A c \in ReferencesOf[record.table] :
          record[c] \in DOMAIN u /\ u[record[c]].table = Target[c]
    BY <1>1, <1>3, <1>5 DEF TaskSettled
  <2>2. Typed(u) /\ Dangling(u) = {} /\ approval \notin DOMAIN u
    BY <1>2, <1>3 DEF TaskSettled
  <2> QED
    BY <1>1, <1>2, <1>5, <2>1, <2>2, AddedEffect
<1>7. RowAdded(w, approval, record, seen')
  <2>1. \A c \in ReferencesOf[record.table] :
          record[c] \in DOMAIN w /\ w[record[c]].table = Target[c]
    BY <1>1, <1>4, <1>5 DEF TaskSettled
  <2>2. Typed(w) /\ Dangling(w) = {} /\ approval \notin DOMAIN w
    BY <1>2, <1>4 DEF TaskSettled
  <2> QED
    BY <1>1, <1>2, <1>5, <2>1, <2>2, AddedEffect
<1> USE <1>3, <1>4, <1>5 DEF RowAdded, TaskSettled
<1>8. TypeOK'
  <2>1. pc = 0 => seen' = rows'
    BY <1>1 DEF IInv, TypeOK, u, w
  <2>2. fresh' \subseteq Ids /\ DOMAIN rows' \subseteq Ids \ fresh'
    BY <1>1, <1>2, <1>6 DEF IInv, TypeOK
  <2>3. DOMAIN seen' \subseteq DOMAIN rows'
    BY <1>2, <1>6, <1>7
  <2> QED
    BY <1>1, <1>6, <1>7, <2>1, <2>2, <2>3 DEF IInv, TypeOK, Typed
<1>9. ReferencesHold'
  <2>1. \A j \in DOMAIN seen : seen'[j].table = rows'[j].table
    BY <1>2, <1>3, <1>4, <1>6, <1>7 DEF IInv, ReferencesHold
  <2> QED
    BY <1>6, <1>7, <2>1 DEF ReferencesHold
<1>10. IndexesHold'
  BY <1>1, <1>6, <1>7 DEF IInv, IndexesHold
<1>11. AloneProgresses'
  BY <1>1 DEF AloneProgresses
<1> QED
  BY <1>8, <1>9, <1>10, <1>11 DEF IInv

LEMMA NextKeeps == IInv /\ [Next]_vars => IInv'
<1> SUFFICES ASSUME IInv, [Next]_vars
             PROVE  IInv'
  OBVIOUS
<1>1. CASE Migrate
  <2>1. ASSUME StatementFails
        PROVE  IInv'
    BY <2>1, RollbackKeeps DEF StatementFails, IInv, TypeOK
  <2>2. ASSUME LosesConnection
        PROVE  IInv'
    BY <2>2, RollbackKeeps DEF LosesConnection
  <2> QED
    BY <1>1, <2>1, <2>2, StartKeeps, RepointChildrenKeeps, RemoveKeeps, CreateIndexKeeps,
       StampKeeps, CommitKeeps, DowngradeKeeps DEF Migrate
<1>2. CASE Write
  BY <1>2, InsertKeeps, DecideKeeps DEF Write
<1>3. CASE UNCHANGED vars
  <2> USE <1>3 DEF vars
  <2>1. TypeOK' /\ ReferencesHold'
    BY DEF IInv, TypeOK, ReferencesHold
  <2>2. IndexesHold' /\ AloneProgresses'
    BY DEF IInv, IndexesHold, AloneProgresses
  <2> QED
    BY <2>1, <2>2 DEF IInv
<1> QED
  BY <1>1, <1>2, <1>3 DEF Next

-----------------------------------------------------------------------------
(* Theorems *)

\* The invariant holds in every state.
THEOREM InvariantHolds == Spec => []IInv
BY InitEstablishes, NextKeeps, PTL DEF Spec

\* The ids, rows, columns and statements of upgrade() are what they should be, and
\* outside the migration its transaction has left nothing.
THEOREM TypeCorrect == Spec => []TypeOK
<1>1. IInv => TypeOK
  BY DEF IInv
<1> QED
  BY <1>1, InvariantHolds, PTL

\* 0002's indexes: at the new revision no two rows have one identity, whatever
\* sessions insert while upgrade() runs and however often it fails.
THEOREM IdentitiesStayUnique == Spec => []IdentitiesUnique
<1>1. IInv => IdentitiesUnique
  BY TypedTables, NoDuplicatesNoTwins DEF IInv, IndexesHold, IdentitiesUnique
<1> QED
  BY <1>1, InvariantHolds, PTL

\* upgrade() left alone fails at most where it stores its revision's id: when a
\* table is merged nothing refers to what is deleted, when its index is created it
\* has no duplicates, and the id fits a column that is wide enough.
LEMMA OnlyStampFails ==
    IInv => (StatementFails =>
               ~undisturbed \/ (Executes("stamp") /\ version_width < RevisionLength))
<1>1. SUFFICES ASSUME IInv, StatementFails, undisturbed,
                      ~(Executes("stamp") /\ version_width < RevisionLength)
               PROVE  FALSE
  OBVIOUS
<1>2. QED
  <2> DEFINE T == Upgrade[pc].table
  <2>0. ~(Executes("stamp") /\ RevisionLength > version_width)
    BY <1>1
  <2>1. /\ pc \in 1..21
        /\ \/ Upgrade[pc].op = "delete" /\ Dangling(DeleteDuplicates(seen, T)) # {}
           \/ Upgrade[pc].op = "index" /\ Duplicates(seen, T) # {}
    BY <1>1, <2>0, UpgradeLength, StampIsLast DEF StatementFails, Executes, Statement
  <2>2. \A k \in 1..21 : k < pc => Done(seen, Upgrade[k])
    BY <1>1, <2>1 DEF IInv, AloneProgresses
  <2>3. CASE Upgrade[pc].op = "delete" /\ Dangling(DeleteDuplicates(seen, T)) # {}
    <3> DEFINE u == DeleteDuplicates(seen, T)
    <3>1. /\ DOMAIN u = DOMAIN seen \ Duplicates(seen, T)
          /\ \A i \in DOMAIN u : u[i] = seen[i]
      BY DEF DeleteDuplicates
    <3> HIDE DEF u
    <3>2. PICK i \in DOMAIN u : \E c \in ReferencesOf[u[i].table] :
            u[i][c] \notin DOMAIN u \/ u[u[i][c]].table # Target[c]
      BY <2>3 DEF Dangling, u
    <3>3. PICK c \in ReferencesOf[u[i].table] :
            u[i][c] \notin DOMAIN u \/ u[u[i][c]].table # Target[c]
      BY <3>2
    <3>4. i \in DOMAIN seen /\ c \in ReferencesOf[seen[i].table] /\ u[i] = seen[i]
      BY <3>1, <3>3
    <3>5. seen[i][c] \in DOMAIN seen /\ seen[seen[i][c]].table = Target[c]
      BY <1>1, <3>4 DEF IInv, ReferencesHold, Dangling
    <3>6. seen[i][c] \in Duplicates(seen, T)
      BY <3>1, <3>3, <3>4, <3>5
    <3>7. Target[c] = T
      BY <3>5, <3>6 DEF Duplicates
    <3>8. seen[i].table \in Tables
      BY <1>1, <3>4, TypedTables DEF IInv, Typed, Rows
    <3>9. PICK j \in 1..21 : j < pc /\ Upgrade[j] = RepointStep(seen[i].table, c)
      BY <2>1, <2>3, <3>4, <3>7, <3>8, ChildrenRepointed
    <3>10. seen[i][c] \notin Duplicates(seen, T)
      BY <2>2, <3>4, <3>7, <3>9 DEF Done, RepointStep
    <3> QED
      BY <3>6, <3>10
  <2>4. CASE Upgrade[pc].op = "index" /\ Duplicates(seen, T) # {}
    <3>1. PICK j \in 1..21 : j < pc /\ Upgrade[j] = DeleteStep(T)
      BY <2>1, <2>4, IndexedWhenMerged
    <3>2. Done(seen, DeleteStep(T))
      BY <2>2, <3>1
    <3> QED
      BY <2>4, <3>2 DEF Done, DeleteStep
  <2> QED
    BY <2>1, <2>3, <2>4

\* Left alone, upgrade() fails only where the id of 0002 does not fit version_num.
THEOREM SucceedsUndisturbed == Spec => FailsOnlyIfDisturbed
<1>1. IInv /\ [Next]_vars =>
        [StatementFails =>
           ~undisturbed \/ (Executes("stamp") /\ version_width < RevisionLength)]_vars
  BY OnlyStampFails
<1> QED
  BY <1>1, InvariantHolds, PTL DEF Spec, FailsOnlyIfDisturbed

\* Where version_num holds the id of 0002, `alembic upgrade head` left alone brings
\* every database of revision 0001 to it without an error.
THEOREM SucceedsWhereItFits ==
    ASSUME \A w \in VersionWidths : RevisionLength <= w
    PROVE  Spec => UpgradeHeadSucceeds
<1>1. IInv => (StatementFails => ~undisturbed)
  <2>1. IInv => RevisionLength <= version_width /\ version_width \in Nat
    BY VersionWidthsAssumption DEF IInv, TypeOK
  <2>2. IInv => ~(version_width < RevisionLength)
    BY <2>1 DEF RevisionLength
  <2> QED
    BY <2>2, OnlyStampFails
<1>2. IInv /\ [Next]_vars => [StatementFails => ~undisturbed]_vars
  BY <1>1
<1> QED
  BY <1>2, InvariantHolds, PTL DEF Spec, UpgradeHeadSucceeds

-----------------------------------------------------------------------------
(* Names *)

\* The name of a row, in terms of the names of the rows it refers to.
NamedByParents(t, i) ==
    /\ t[i].table \in {"repos", "vulnerability_aliases", "advisory_references"} =>
         Name(t, i) = t[i].key
    /\ t[i].table \in {"scans", "repo_files", "embeddings"} => Name(t, i) = Name(t, t[i].repo)
    /\ t[i].table = "packages" => Name(t, i) = <<Name(t, t[i].repo), t[i].key>>
    /\ t[i].table = "package_vulnerabilities" => Name(t, i) = <<Name(t, t[i].package), t[i].key>>
    /\ t[i].table = "reachability_assessments" => Name(t, i) = Name(t, t[i].finding)
    /\ t[i].table = "remediation_tasks" =>
         Name(t, i) = <<Name(t, t[i].repo), Name(t, t[i].finding)>>
    /\ t[i].table = "human_approvals" => Name(t, i) = Name(t, t[i].task)

LEMMA NameOf ==
    ASSUME NEW t, Typed(t), Dangling(t) = {}, NEW i \in DOMAIN t
    PROVE  NamedByParents(t, i)
<1>1. \A c \in ReferencesOf[t[i].table] : t[t[i][c]].table = Target[c]
  BY DEF Dangling
<1>2. \A j : t[j].table = "repos" => Name(t, j) = t[j].key
  BY DEF Name
<1>3. \A j : t[j].table = "packages" => Name(t, j) = PackageName(t, j)
  BY DEF Name
<1>4. \A j : t[j].table = "package_vulnerabilities" => Name(t, j) = FindingName(t, j)
  BY DEF Name
<1>5. \A j : t[j].table = "remediation_tasks" => Name(t, j) = TaskName(t, j)
  BY DEF Name
<1>6. t[i].table \in {"scans", "repo_files", "embeddings", "packages"} =>
        t[t[i].repo].table = "repos"
  BY <1>1 DEF ReferencesOf, Target
<1>7. t[i].table = "package_vulnerabilities" => t[t[i].package].table = "packages"
  BY <1>1 DEF ReferencesOf, Target
<1>8. t[i].table = "reachability_assessments" =>
        t[t[i].finding].table = "package_vulnerabilities"
  BY <1>1 DEF ReferencesOf, Target
<1>9. t[i].table = "remediation_tasks" =>
        /\ t[t[i].repo].table = "repos"
        /\ t[t[i].finding].table = "package_vulnerabilities"
  BY <1>1 DEF ReferencesOf, Target
<1>10. t[i].table = "human_approvals" => t[t[i].task].table = "remediation_tasks"
  BY <1>1 DEF ReferencesOf, Target
<1>11. CASE t[i].table \in {"repos", "vulnerability_aliases", "advisory_references"}
  BY <1>11 DEF Name, NamedByParents
<1>12. CASE t[i].table \in {"scans", "repo_files", "embeddings"}
  BY <1>2, <1>6, <1>12 DEF Name, NamedByParents
<1>13. CASE t[i].table = "packages"
  BY <1>2, <1>3, <1>6, <1>13 DEF PackageName, NamedByParents
<1>14. CASE t[i].table = "package_vulnerabilities"
  BY <1>3, <1>4, <1>7, <1>14 DEF FindingName, NamedByParents
<1>15. CASE t[i].table = "reachability_assessments"
  BY <1>4, <1>8, <1>15 DEF Name, NamedByParents
<1>16. CASE t[i].table = "remediation_tasks"
  BY <1>2, <1>4, <1>5, <1>9, <1>16 DEF TaskName, NamedByParents
<1>17. CASE t[i].table = "human_approvals"
  BY <1>5, <1>10, <1>17 DEF Name, NamedByParents
<1> QED
  BY <1>11, <1>12, <1>13, <1>14, <1>15, <1>16, <1>17 DEF NamedByParents

LEMMA TableOfRow ==
    ASSUME NEW t, Typed(t), NEW i \in DOMAIN t
    PROVE  t[i].table \in {"repos", "vulnerability_aliases", "advisory_references", "scans",
                           "repo_files", "embeddings", "packages", "package_vulnerabilities",
                           "reachability_assessments", "remediation_tasks", "human_approvals"}
BY DEF Typed, Rows, Tables, ReferencesOf

\* Rows of one table and key have one name if what they refer to has.
LEMMA EqualNames ==
    ASSUME NEW t, Typed(t), Dangling(t) = {}, NEW i \in DOMAIN t,
           NEW u, Typed(u), Dangling(u) = {}, NEW j \in DOMAIN u,
           t[i].table = u[j].table, t[i].key = u[j].key,
           \A c \in ReferencesOf[t[i].table] : Name(t, t[i][c]) = Name(u, u[j][c])
    PROVE  Name(t, i) = Name(u, j)
<1>0. NamedByParents(t, i) /\ NamedByParents(u, j)
  BY NameOf
<1>1. CASE t[i].table \in {"repos", "vulnerability_aliases", "advisory_references"}
  BY <1>0, <1>1 DEF NamedByParents
<1>2. CASE t[i].table \in {"scans", "repo_files", "embeddings"}
  <2>1. Name(t, t[i].repo) = Name(u, u[j].repo)
    BY <1>2 DEF ReferencesOf
  <2>2. Name(t, i) = Name(t, t[i].repo)
    BY <1>0, <1>2 DEF NamedByParents
  <2>3. Name(u, j) = Name(u, u[j].repo)
    BY <1>0, <1>2 DEF NamedByParents
  <2> QED
    BY <2>1, <2>2, <2>3
<1>3. CASE t[i].table = "packages"
  <2>1. Name(t, t[i].repo) = Name(u, u[j].repo)
    BY <1>3 DEF ReferencesOf
  <2>2. Name(t, i) = <<Name(t, t[i].repo), t[i].key>>
    BY <1>0, <1>3 DEF NamedByParents
  <2>3. Name(u, j) = <<Name(u, u[j].repo), u[j].key>>
    BY <1>0, <1>3 DEF NamedByParents
  <2> QED
    BY <2>1, <2>2, <2>3
<1>4. CASE t[i].table = "package_vulnerabilities"
  <2>1. Name(t, t[i].package) = Name(u, u[j].package)
    BY <1>4 DEF ReferencesOf
  <2>2. Name(t, i) = <<Name(t, t[i].package), t[i].key>>
    BY <1>0, <1>4 DEF NamedByParents
  <2>3. Name(u, j) = <<Name(u, u[j].package), u[j].key>>
    BY <1>0, <1>4 DEF NamedByParents
  <2> QED
    BY <2>1, <2>2, <2>3
<1>5. CASE t[i].table = "reachability_assessments"
  <2>1. Name(t, t[i].finding) = Name(u, u[j].finding)
    BY <1>5 DEF ReferencesOf
  <2>2. Name(t, i) = Name(t, t[i].finding)
    BY <1>0, <1>5 DEF NamedByParents
  <2>3. Name(u, j) = Name(u, u[j].finding)
    BY <1>0, <1>5 DEF NamedByParents
  <2> QED
    BY <2>1, <2>2, <2>3
<1>6. CASE t[i].table = "remediation_tasks"
  <2>1. Name(t, t[i].repo) = Name(u, u[j].repo) /\ Name(t, t[i].finding) = Name(u, u[j].finding)
    BY <1>6 DEF ReferencesOf
  <2>2. Name(t, i) = <<Name(t, t[i].repo), Name(t, t[i].finding)>>
    BY <1>0, <1>6 DEF NamedByParents
  <2>3. Name(u, j) = <<Name(u, u[j].repo), Name(u, u[j].finding)>>
    BY <1>0, <1>6 DEF NamedByParents
  <2> QED
    BY <2>1, <2>2, <2>3
<1>7. CASE t[i].table = "human_approvals"
  <2>1. Name(t, t[i].task) = Name(u, u[j].task)
    BY <1>7 DEF ReferencesOf
  <2>2. Name(t, i) = Name(t, t[i].task)
    BY <1>0, <1>7 DEF NamedByParents
  <2>3. Name(u, j) = Name(u, u[j].task)
    BY <1>0, <1>7 DEF NamedByParents
  <2> QED
    BY <2>1, <2>2, <2>3
<1> QED
  BY <1>1, <1>2, <1>3, <1>4, <1>5, <1>6, <1>7, TableOfRow

LEMMA EqualRowsEqualNames ==
    ASSUME NEW t, NEW i, NEW j, t[i] = t[j]
    PROVE  Name(t, i) = Name(t, j)
BY DEF Name, PackageName, FindingName, TaskName

\* The rows of u are rows of t of the same name.
SameNames(u, t) ==
    /\ DOMAIN u \subseteq DOMAIN t
    /\ \A i \in DOMAIN u :
         u[i].table = t[i].table /\ u[i].key = t[i].key /\ Name(u, i) = Name(t, i)

\* Names are kept where the rows referred to are, or are exchanged for equal ones.
LEMMA NamesKept ==
    ASSUME NEW t, Typed(t), Dangling(t) = {}, NEW u, Typed(u), Dangling(u) = {},
           DOMAIN u \subseteq DOMAIN t,
           \A i \in DOMAIN u :
             /\ u[i].table = t[i].table /\ u[i].key = t[i].key
             /\ \A c \in ReferencesOf[u[i].table] : t[u[i][c]] = t[t[i][c]]
    PROVE  SameNames(u, t)
<1> DEFINE Kept(table) ==
             \A i \in DOMAIN u : u[i].table = table => Name(u, i) = Name(t, i)
<1>1. ASSUME NEW table, \A c \in ReferencesOf[table] : Kept(Target[c])
      PROVE  Kept(table)
  <2> SUFFICES ASSUME NEW i \in DOMAIN u, u[i].table = table
               PROVE  Name(u, i) = Name(t, i)
    OBVIOUS
  <2>1. ASSUME NEW c \in ReferencesOf[table]
        PROVE  Name(u, u[i][c]) = Name(t, t[i][c])
    <3>1. u[i][c] \in DOMAIN u /\ u[u[i][c]].table = Target[c]
      BY <2>1 DEF Dangling
    <3>2. Name(u, u[i][c]) = Name(t, u[i][c])
      BY <1>1, <2>1, <3>1
    <3>3. t[u[i][c]] = t[t[i][c]]
      BY <2>1
    <3> QED
      BY <3>2, <3>3, EqualRowsEqualNames
  <2>2. i \in DOMAIN t /\ u[i].table = t[i].table /\ u[i].key = t[i].key
    OBVIOUS
  <2> HIDE DEF Kept
  <2> QED
    BY <2>1, <2>2, EqualNames
<1> HIDE DEF Kept
<1>2. /\ Kept("repos") /\ Kept("vulnerability_aliases") /\ Kept("advisory_references")
  BY <1>1 DEF ReferencesOf
<1>3. /\ Kept("scans") /\ Kept("repo_files") /\ Kept("embeddings") /\ Kept("packages")
  BY <1>1, <1>2 DEF ReferencesOf, Target
<1>4. Kept("package_vulnerabilities")
  BY <1>1, <1>3 DEF ReferencesOf, Target
<1>5. Kept("reachability_assessments") /\ Kept("remediation_tasks")
  BY <1>1, <1>2, <1>4 DEF ReferencesOf, Target
<1>6. Kept("human_approvals")
  BY <1>1, <1>5 DEF ReferencesOf, Target
<1>7. \A i \in DOMAIN u : Name(u, i) = Name(t, i)
  BY <1>2, <1>3, <1>4, <1>5, <1>6, TableOfRow DEF Kept
<1> QED
  BY <1>7 DEF SameNames

-----------------------------------------------------------------------------
(* Facts *)

\* The rows of u are rows of t and tell the same.
TellsAs(u, t) == SameNames(u, t) /\ \A i \in DOMAIN u : u[i].status = t[i].status

LEMMA SameFacts ==
    ASSUME NEW u, NEW t, TellsAs(u, t)
    PROVE  /\ \A i \in DOMAIN u : Fact(u, i) = Fact(t, i) /\ (Identified(u[i]) <=> Identified(t[i]))
           /\ Facts(u) \subseteq Facts(t)
<1>1. \A i \in DOMAIN u : Fact(u, i) = Fact(t, i) /\ (Identified(u[i]) <=> Identified(t[i]))
  BY DEF TellsAs, SameNames, Fact, Identified
<1>2. DOMAIN u \subseteq DOMAIN t
  BY DEF TellsAs, SameNames
<1> QED
  BY <1>1, <1>2 DEF Facts

LEMMA TellsAsTransitive ==
    ASSUME NEW t, NEW u, NEW w, TellsAs(t, u), TellsAs(u, w)
    PROVE  TellsAs(t, w)
BY DEF TellsAs, SameNames

\* Re-pointing changes no name: duplicates have the name of the row that stays.
LEMMA RepointTells ==
    ASSUME NEW t, Typed(t), Dangling(t) = {}, NEW child \in Tables, NEW column \in Columns,
           NEW u, u = Repoint(t, child, column)
    PROVE  TellsAs(u, t) /\ DOMAIN u = DOMAIN t
<1>1. /\ Typed(u) /\ DOMAIN u = DOMAIN t
      /\ \A i \in DOMAIN t :
           /\ u[i].table = t[i].table
           /\ \A c \in Columns \ {column} : u[i][c] = t[i][c]
           /\ \/ u[i][column] = t[i][column]
              \/ /\ t[i][column] \in DOMAIN t
                 /\ u[i][column] = Canonical(t, t[i][column])
  BY RepointEffect
<1>2. Dangling(u) = {}
  BY RepointKeepsReferences
<1>3. ASSUME NEW i \in DOMAIN t
      PROVE  u[i].key = t[i].key /\ u[i].status = t[i].status
  <2>1. t[i] \in Rows
    BY DEF Typed
  <2>2. u[i] = t[i] \/ \E k : u[i] = [t[i] EXCEPT ![column] = k]
    BY DEF Repoint
  <2>3. column # "key" /\ column # "status"
    BY DEF Columns, Target
  <2> QED
    BY <2>1, <2>2, <2>3 DEF Rows
<1>4. ASSUME NEW i \in DOMAIN t, NEW c \in ReferencesOf[u[i].table]
      PROVE  t[u[i][c]] = t[t[i][c]]
  <2>1. c \in Columns
    BY <1>1, ReferencesAreColumns DEF Typed, Rows
  <2>2. u[i][c] = t[i][c] \/ (t[i][c] \in DOMAIN t /\ u[i][c] = Canonical(t, t[i][c]))
    BY <1>1, <2>1
  <2> QED
    BY <2>2, CanonicalIsFirst
<1>5. SameNames(u, t)
  BY <1>1, <1>2, <1>3, <1>4, NamesKept
<1> QED
  BY <1>1, <1>3, <1>5 DEF TellsAs

\* A duplicate that is deleted told what the row that stays tells.
LEMMA DeleteTells ==
    ASSUME NEW t, Typed(t), Dangling(t) = {}, NEW table,
           NEW u, u = DeleteDuplicates(t, table), Dangling(u) = {}
    PROVE  /\ TellsAs(u, t)
           /\ \A i \in DOMAIN t \ DOMAIN u : Identified(t[i])
           /\ Facts(u) = Facts(t)
<1>1. /\ Typed(u) /\ DOMAIN u = DOMAIN t \ Duplicates(t, table)
      /\ \A i \in DOMAIN u : u[i] = t[i]
  BY DeleteEffect
<1>2. SameNames(u, t)
  BY <1>1, NamesKept
<1>3. TellsAs(u, t)
  BY <1>1, <1>2 DEF TellsAs
<1>4. \A i \in DOMAIN t \ DOMAIN u : Identified(t[i])
  BY <1>1 DEF Duplicates
<1>5. ASSUME NEW i \in DOMAIN t
      PROVE  Fact(t, i) \in Facts(u)
  <2>1. CASE i \in DOMAIN u
    BY <1>3, <2>1, SameFacts DEF Facts
  <2>2. CASE i \notin DOMAIN u
    <3> DEFINE j == Canonical(t, i)
    <3>1. j \in DOMAIN u /\ t[j] = t[i]
      BY <1>1, CanonicalStays, CanonicalIsFirst
    <3> HIDE DEF j
    <3>2. Identified(t[i]) /\ Identified(t[j])
      BY <1>4, <2>2, <3>1
    <3>3. Fact(t, i) = Fact(t, j)
      BY <3>1, <3>2, EqualRowsEqualNames DEF Fact
    <3>4. Fact(t, j) = Fact(u, j)
      BY <1>3, <3>1, SameFacts
    <3> QED
      BY <3>1, <3>3, <3>4 DEF Facts
  <2> QED
    BY <2>1, <2>2
<1>6. Facts(t) \subseteq Facts(u)
  BY <1>5 DEF Facts
<1> QED
  BY <1>3, <1>4, <1>6, SameFacts

\* A row that is added changes no other's name.
LEMMA AddTells ==
    ASSUME NEW t, Typed(t), Dangling(t) = {}, NEW i, i \notin DOMAIN t, NEW r, NEW u,
           RowAdded(t, i, r, u)
    PROVE  TellsAs(t, u)
<1>1. /\ Typed(u) /\ DOMAIN u = DOMAIN t \union {i} /\ Dangling(u) = {}
      /\ \A j \in DOMAIN t : u[j] = t[j]
  BY DEF RowAdded
<1>2. SameNames(t, u)
  BY <1>1, NamesKept
<1> QED
  BY <1>1, <1>2 DEF TellsAs

\* Nor does a change of one row's status, of any row.
LEMMA StatusKeepsNames ==
    ASSUME NEW t, Typed(t), Dangling(t) = {}, NEW u, Typed(u), Dangling(u) = {},
           DOMAIN u = DOMAIN t, NEW i \in DOMAIN t,
           \A j \in DOMAIN t \ {i} : u[j] = t[j],
           u[i].table = t[i].table, u[i].key = t[i].key,
           \A c \in Columns : u[i][c] = t[i][c]
    PROVE  SameNames(t, u)
<1>1. ASSUME NEW j \in DOMAIN t
      PROVE  /\ t[j].table = u[j].table /\ t[j].key = u[j].key
             /\ \A c \in ReferencesOf[t[j].table] : u[t[j][c]] = u[u[j][c]]
  <2>1. \A c \in ReferencesOf[t[j].table] : c \in Columns
    BY ReferencesAreColumns DEF Typed, Rows
  <2>2. CASE j = i
    BY <2>1, <2>2
  <2>3. CASE j # i
    BY <2>3
  <2> QED
    BY <2>2, <2>3
<1> QED
  BY <1>1, NamesKept

LEMMA SettledRow ==
    ASSUME NEW t, Typed(t), Dangling(t) = {}, NEW i \in DOMAIN t,
           t[i].table = "remediation_tasks", NEW v \in Verdicts
    PROVE  LET s == [t[i] EXCEPT !.status = v]
               u == [t EXCEPT ![i] = s]
           IN /\ TaskSettled(t, u)
              /\ u[i] = s /\ s.status = v /\ ~ Identified(s)
              /\ \A j \in DOMAIN t \ {i} : u[j] = t[j]
              /\ SameNames(t, u)
<1> DEFINE s == [t[i] EXCEPT !.status = v]
           u == [t EXCEPT ![i] = s]
<1>1. /\ s.table = "remediation_tasks" /\ s.key = t[i].key /\ s.status = v
      /\ \A c \in Columns : s[c] = t[i][c]
  BY DEF Typed, Rows, Columns, Target
<1>2. /\ u[i] = s
      /\ \A j \in DOMAIN t \ {i} : u[j] = t[j]
  OBVIOUS
<1>3. TaskSettled(t, u)
  BY SettledEffect
<1>4. ~ Identified(s)
  BY <1>1, VerdictsAssumption DEF Identified, IdentityTables
<1> HIDE DEF s, u
<1>5. Typed(u) /\ DOMAIN u = DOMAIN t /\ Dangling(u) = {}
  BY <1>3 DEF TaskSettled
<1>6. SameNames(t, u)
  BY <1>1, <1>2, <1>5, StatusKeepsNames
<1> QED
  BY <1>1, <1>2, <1>3, <1>4, <1>6 DEF s, u

-----------------------------------------------------------------------------
(* What the migration's transaction sees tells what is committed *)

OnlyTasksHaveStatus(t) ==
    \A i \in DOMAIN t : t[i].status # None => t[i].table = "remediation_tasks"

\* The migration has only deleted rows that are copies.
Story ==
    /\ OnlyTasksHaveStatus(rows)
    /\ TellsAs(seen, rows)
    /\ \A i \in DOMAIN rows \ DOMAIN seen : Identified(rows[i])

LEMMA SeenStatus == Story => OnlyTasksHaveStatus(seen)
BY DEF Story, OnlyTasksHaveStatus, TellsAs, SameNames

LEMMA TellsItself == \A t : TellsAs(t, t)
BY DEF TellsAs, SameNames

LEMMA Tables0 == IInv => /\ Typed(rows) /\ Typed(seen)
                         /\ Dangling(rows) = {} /\ Dangling(seen) = {}
BY TypedTables DEF IInv, ReferencesHold

LEMMA InitTells == Init => Story
<1> SUFFICES ASSUME Init
             PROVE  Story
  OBVIOUS
<1>1. OnlyTasksHaveStatus(rows)
  BY DatabasesAssumption DEF Init, OnlyTasksHaveStatus
<1>2. seen = rows
  BY DEF Init
<1> QED
  BY <1>1, <1>2, TellsItself DEF Story

\* A step is one of the ledger's, or tells nothing new.
Told == Ledger!Learn \/ Ledger!Decide \/ Facts(seen') = Facts(seen)

LEMMA RepointChildrenTells == IInv /\ Story /\ RepointChildren => Story' /\ Told
<1> SUFFICES ASSUME IInv, Story, RepointChildren
             PROVE  Story' /\ Told
  OBVIOUS
<1>1. /\ pc \in 1..21 /\ Upgrade[pc].op = "repoint" /\ rows' = rows
      /\ seen' = Repoint(seen, Upgrade[pc].table, Upgrade[pc].column)
  BY UpgradeLength, StampIsLast DEF RepointChildren, Executes, Statement
<1>2. Upgrade[pc].table \in Tables /\ Upgrade[pc].column \in Columns
  BY <1>1, UpgradeTyped
<1>3. TellsAs(seen', seen) /\ DOMAIN seen' = DOMAIN seen
  BY <1>1, <1>2, Tables0, RepointTells
<1>4. Facts(seen') = Facts(seen)
  BY <1>3, SameFacts DEF Facts
<1>5. TellsAs(seen', rows)
  BY <1>3, TellsAsTransitive DEF Story
<1> QED
  BY <1>1, <1>3, <1>4, <1>5 DEF Story, Told

LEMMA RemoveTells == IInv /\ Story /\ Remove => Story' /\ Told
<1> SUFFICES ASSUME IInv, Story, Remove
             PROVE  Story' /\ Told
  OBVIOUS
<1>1. /\ seen' = DeleteDuplicates(seen, Statement.table)
      /\ Dangling(seen') = {}
      /\ rows' = rows
  BY DEF Remove
<1>2. /\ TellsAs(seen', seen)
      /\ \A i \in DOMAIN seen \ DOMAIN seen' : Identified(seen[i])
      /\ Facts(seen') = Facts(seen)
  BY <1>1, Tables0, DeleteTells
<1>3. TellsAs(seen', rows)
  BY <1>2, TellsAsTransitive DEF Story
<1>4. \A i \in DOMAIN seen : Identified(seen[i]) => Identified(rows[i])
  BY SameFacts DEF Story
<1>5. \A i \in DOMAIN rows \ DOMAIN seen' : Identified(rows[i])
  BY <1>2, <1>4 DEF Story
<1> QED
  BY <1>1, <1>2, <1>3, <1>5 DEF Story, Told

\* What is back after a rollback was a copy of what was there.
LEMMA RollbackTells == IInv /\ Story /\ Rollback => Story' /\ Told
<1> SUFFICES ASSUME IInv, Story, Rollback
             PROVE  Story' /\ Told
  OBVIOUS
<1>1. seen' = rows /\ rows' = rows
  BY DEF Rollback
<1>2. Facts(seen) \subseteq Facts(rows)
  BY SameFacts DEF Story
<1>3. ASSUME NEW f \in Facts(rows), f \notin Facts(seen)
      PROVE  f.table # "human_approvals" /\ f.status \notin Verdicts
  <2>1. PICK i \in DOMAIN rows : f = Fact(rows, i)
    BY <1>3 DEF Facts
  <2>2. i \notin DOMAIN seen
    BY <1>3, <2>1, SameFacts DEF Facts, Story
  <2>3. Identified(rows[i]) /\ f.table = rows[i].table /\ f.status = rows[i].status
    BY <2>1, <2>2 DEF Story, Fact
  <2>4. rows[i].status \in {"open", None}
    BY <2>3 DEF Story, OnlyTasksHaveStatus, Identified, IdentityTables
  <2> QED
    BY <2>3, <2>4, NoneAssumption, VerdictsAssumption DEF Identified, IdentityTables
<1>4. Ledger!Learn
  BY <1>1, <1>2, <1>3 DEF Ledger!Learn
<1> QED
  BY <1>1, <1>4, TellsItself DEF Story, Told

LEMMA CommitTells == IInv /\ Story /\ Commit => Story' /\ Told
<1> SUFFICES ASSUME IInv, Story, Commit
             PROVE  Story' /\ Told
  OBVIOUS
<1>1. rows' = seen /\ seen' = seen
  BY DEF Commit
<1> QED
  BY <1>1, SeenStatus, TellsItself DEF Story, Told

\* Sessions add rows without a status, and open tasks.
LEMMA NewRowsOpen ==
    ASSUME NEW r \in NewRows
    PROVE  /\ r.table # "human_approvals" /\ r.status \in {"open", None}
           /\ r.status # None => r.table = "remediation_tasks"
<1>1. \/ \E table \in {"repos", "vulnerability_aliases", "advisory_references"}, k \in Keys :
           r = [Blank(table) EXCEPT !.key = k]
      \/ \E table \in {"scans", "embeddings"}, i \in Of("repos") :
           r = [Blank(table) EXCEPT !.repo = i]
      \/ \E i \in Of("repos"), k \in Keys : r = NewPackage(i, k)
      \/ \E i \in Of("packages"), k \in Keys : r = NewFinding(i, k)
      \/ \E i \in Of("package_vulnerabilities") :
           r = [Blank("reachability_assessments") EXCEPT !.finding = i]
      \/ \E i \in Of("package_vulnerabilities") : r = NewTask(i)
  BY DEF NewRows
<1> USE DEF Blank
<1>2. CASE \E table \in {"repos", "vulnerability_aliases", "advisory_references"}, k \in Keys :
             r = [Blank(table) EXCEPT !.key = k]
  BY <1>2
<1>3. CASE \E table \in {"scans", "embeddings"}, i \in Of("repos") :
             r = [Blank(table) EXCEPT !.repo = i]
  BY <1>3
<1>4. CASE \E i \in Of("repos"), k \in Keys : r = NewPackage(i, k)
  BY <1>4 DEF NewPackage
<1>5. CASE \E i \in Of("packages"), k \in Keys : r = NewFinding(i, k)
  BY <1>5 DEF NewFinding
<1>6. CASE \E i \in Of("package_vulnerabilities") :
             r = [Blank("reachability_assessments") EXCEPT !.finding = i]
  BY <1>6
<1>7. CASE \E i \in Of("package_vulnerabilities") : r = NewTask(i)
  BY <1>7 DEF NewTask
<1> QED
  BY <1>1, <1>2, <1>3, <1>4, <1>5, <1>6, <1>7

LEMMA InsertTells ==
    ASSUME IInv, Story, NEW i \in fresh, NEW r \in NewRows, Insert(i, r)
    PROVE  Story' /\ Told
<1>1. /\ Typed(rows) /\ Typed(seen) /\ Dangling(rows) = {} /\ Dangling(seen) = {}
      /\ i \in Ids /\ i \notin DOMAIN rows /\ i \notin DOMAIN seen
      /\ r \in Rows
  BY Tables0, NewRowsTyped DEF IInv, TypeOK, Insert
<1>2. \A c \in ReferencesOf[r.table] :
        /\ r[c] \in DOMAIN rows /\ rows[r[c]].table = Target[c]
        /\ r[c] \in DOMAIN seen /\ seen[r[c]].table = Target[c]
  BY DEF Insert, Writable, IInv, ReferencesHold
<1>3. RowAdded(rows, i, r, rows')
  <2>1. rows' = Added(rows, i, r)
    BY DEF Insert
  <2> QED
    BY <1>1, <1>2, <2>1, AddedEffect
<1>4. RowAdded(seen, i, r, seen')
  <2>1. seen' = Added(seen, i, r)
    BY DEF Insert
  <2> QED
    BY <1>1, <1>2, <2>1, AddedEffect
<1>5. TellsAs(rows, rows') /\ TellsAs(seen, seen')
  BY <1>1, <1>3, <1>4, AddTells
<1>6. /\ Typed(rows') /\ Dangling(rows') = {} /\ DOMAIN rows' = DOMAIN rows \union {i}
      /\ Typed(seen') /\ Dangling(seen') = {} /\ DOMAIN seen' = DOMAIN seen \union {i}
      /\ rows'[i] = r /\ seen'[i] = r
      /\ \A j \in DOMAIN rows : rows'[j] = rows[j]
      /\ \A j \in DOMAIN seen : seen'[j] = seen[j]
  BY <1>3, <1>4 DEF RowAdded
<1>7. \A j \in DOMAIN seen : Name(seen', j) = Name(rows', j)
  BY <1>5 DEF Story, TellsAs, SameNames
<1>8. Name(seen', i) = Name(rows', i)
  <2>1. \A c \in ReferencesOf[r.table] : Name(seen', r[c]) = Name(rows', r[c])
    BY <1>2, <1>7
  <2> QED
    BY <1>6, <2>1, EqualNames
<1>9. r.table # "human_approvals" /\ r.status \in {"open", None}
      /\ (r.status # None => r.table = "remediation_tasks")
  BY NewRowsOpen
<1>10. Story'
  <2>1. OnlyTasksHaveStatus(rows')
    BY <1>6, <1>9 DEF Story, OnlyTasksHaveStatus
  <2>2. TellsAs(seen', rows')
    BY <1>6, <1>7, <1>8 DEF Story, TellsAs, SameNames
  <2>3. \A j \in DOMAIN rows' \ DOMAIN seen' : Identified(rows'[j])
    BY <1>6 DEF Story
  <2> QED
    BY <2>1, <2>2, <2>3 DEF Story
<1>11. Ledger!Learn
  <2>1. Facts(seen) \subseteq Facts(seen')
    BY <1>5, SameFacts
  <2>2. ASSUME NEW f \in Facts(seen'), f \notin Facts(seen)
        PROVE  f.table # "human_approvals" /\ f.status \notin Verdicts
    <3>1. PICK j \in DOMAIN seen' : f = Fact(seen', j)
      BY <2>2 DEF Facts
    <3>2. j = i
      BY <1>5, <1>6, <2>2, <3>1, SameFacts DEF Facts
    <3>3. f.table = r.table /\ f.status = r.status
      BY <1>6, <3>1, <3>2 DEF Fact
    <3> QED
      BY <1>9, <3>3, NoneAssumption, VerdictsAssumption
  <2> QED
    BY <2>1, <2>2 DEF Ledger!Learn
<1> QED
  BY <1>10, <1>11 DEF Told

LEMMA DecideTells ==
    ASSUME IInv, Story, NEW i \in DOMAIN rows, NEW approval \in fresh, NEW v \in Verdicts,
           Decide(i, approval, v)
    PROVE  Story' /\ Told
<1> DEFINE settled == [rows[i] EXCEPT !.status = v]
           record == [Blank("human_approvals") EXCEPT !.task = i]
           u == [rows EXCEPT ![i] = settled]
           w == [seen EXCEPT ![i] = settled]
<1>1. /\ rows[i].table = "remediation_tasks" /\ rows[i].status = "open"
      /\ i \in DOMAIN seen /\ seen[i] = rows[i]
      /\ rows' = Added(u, approval, record) /\ seen' = Added(w, approval, record)
  BY DEF Decide
<1>2. /\ Typed(rows) /\ Typed(seen) /\ Dangling(rows) = {} /\ Dangling(seen) = {}
      /\ i \in Ids /\ approval \in Ids /\ approval \notin DOMAIN rows /\ approval \notin DOMAIN seen
      /\ DOMAIN seen \subseteq DOMAIN rows
  BY Tables0 DEF IInv, TypeOK, Typed
<1>3. /\ TaskSettled(rows, u) /\ SameNames(rows, u)
      /\ u[i] = settled /\ settled.status = v /\ ~ Identified(settled)
      /\ \A j \in DOMAIN rows \ {i} : u[j] = rows[j]
  BY <1>1, <1>2, SettledRow
<1>4. /\ TaskSettled(seen, w) /\ SameNames(seen, w)
      /\ w[i] = settled
      /\ \A j \in DOMAIN seen \ {i} : w[j] = seen[j]
  BY <1>1, <1>2, SettledRow
<1>5. /\ record \in Rows /\ ~ Identified(record) /\ record.table = "human_approvals"
      /\ ReferencesOf[record.table] = {"task"}
      /\ record["task"] = i /\ Target["task"] = "remediation_tasks"
  BY <1>2, ApprovalRow
<1>6. record.status = None
  BY DEF Blank
<1> HIDE DEF settled, record, u, w
<1>7. RowAdded(u, approval, record, rows')
  <2>1. \A c \in ReferencesOf[record.table] :
          record[c] \in DOMAIN u /\ u[record[c]].table = Target[c]
    BY <1>1, <1>3, <1>5 DEF TaskSettled
  <2>2. Typed(u) /\ Dangling(u) = {} /\ approval \notin DOMAIN u
    BY <1>2, <1>3 DEF TaskSettled
  <2> QED
    BY <1>1, <1>2, <1>5, <2>1, <2>2, AddedEffect
<1>8. RowAdded(w, approval, record, seen')
  <2>1. \A c \in ReferencesOf[record.table] :
          record[c] \in DOMAIN w /\ w[record[c]].table = Target[c]
    BY <1>1, <1>4, <1>5 DEF TaskSettled
  <2>2. Typed(w) /\ Dangling(w) = {} /\ approval \notin DOMAIN w
    BY <1>2, <1>4 DEF TaskSettled
  <2> QED
    BY <1>1, <1>2, <1>5, <2>1, <2>2, AddedEffect
<1>9. TellsAs(u, rows') /\ TellsAs(w, seen')
  <2>1. Typed(u) /\ Dangling(u) = {} /\ approval \notin DOMAIN u
    BY <1>2, <1>3 DEF TaskSettled
  <2>2. Typed(w) /\ Dangling(w) = {} /\ approval \notin DOMAIN w
    BY <1>2, <1>4 DEF TaskSettled
  <2> QED
    BY <1>7, <1>8, <2>1, <2>2, AddTells
\* The rows of the new tables.
<1>10. /\ Typed(seen') /\ Dangling(seen') = {} /\ DOMAIN seen' = DOMAIN seen \union {approval}
       /\ Typed(rows') /\ Dangling(rows') = {} /\ DOMAIN rows' = DOMAIN rows \union {approval}
       /\ seen'[i] = settled /\ seen'[approval] = record
       /\ rows'[i] = settled /\ rows'[approval] = record
       /\ \A j \in DOMAIN rows \ {i} : rows'[j] = rows[j]
       /\ \A j \in DOMAIN seen \ {i} : seen'[j] = seen[j]
  BY <1>1, <1>3, <1>4, <1>7, <1>8 DEF RowAdded, TaskSettled
<1>11. /\ \A j \in DOMAIN seen : Name(seen', j) = Name(seen, j) /\ seen'[j].table = seen[j].table
       /\ \A j \in DOMAIN rows : Name(rows', j) = Name(rows, j) /\ rows'[j].table = rows[j].table
  BY <1>3, <1>4, <1>9 DEF TellsAs, SameNames
<1>12. Name(seen', approval) = Name(seen', i) /\ Name(rows', approval) = Name(rows', i)
  BY <1>5, <1>10, NameOf DEF NamedByParents
<1>13. Story'
  <2>1. OnlyTasksHaveStatus(rows')
    BY <1>1, <1>6, <1>10, <1>11 DEF Story, OnlyTasksHaveStatus
  <2>2. \A j \in DOMAIN seen : Name(seen, j) = Name(rows, j)
    BY DEF Story, TellsAs, SameNames
  <2>3. \A j \in DOMAIN seen' : Name(seen', j) = Name(rows', j)
    BY <1>1, <1>2, <1>10, <1>11, <1>12, <2>2
  <2>4. \A j \in DOMAIN seen' :
          /\ seen'[j].table = rows'[j].table
          /\ seen'[j].key = rows'[j].key
          /\ seen'[j].status = rows'[j].status
    BY <1>2, <1>10 DEF Story, TellsAs, SameNames
  <2>5. TellsAs(seen', rows')
    BY <1>2, <1>10, <2>3, <2>4 DEF TellsAs, SameNames
  <2>6. \A j \in DOMAIN rows' \ DOMAIN seen' : Identified(rows'[j])
    BY <1>1, <1>10 DEF Story
  <2> QED
    BY <2>1, <2>5, <2>6 DEF Story
\* The facts of the new tables.
<1> DEFINE open == Fact(seen, i)
           decision == Fact(seen', i)
           witness == Fact(seen', approval)
<1>14. /\ open \in Facts(seen) /\ decision \in Facts(seen') /\ witness \in Facts(seen')
  BY <1>1, <1>10 DEF Facts
<1>15. /\ open.table = "remediation_tasks" /\ open.status = "open" /\ open.name = Name(seen, i)
       /\ decision.table = "remediation_tasks" /\ decision.status = v /\ decision.row = i
       /\ decision.name = Name(seen, i)
       /\ witness.table = "human_approvals" /\ witness.row = approval
       /\ witness.name = Name(seen, i)
  BY <1>1, <1>3, <1>5, <1>10, <1>11, <1>12 DEF Fact
<1>16. \A j \in DOMAIN seen \ {i} : Fact(seen', j) = Fact(seen, j)
  BY <1>10, <1>11 DEF Fact
<1>17. \A j \in DOMAIN seen : Fact(seen, j).row \in {j, None}
  BY DEF Fact
<1>18. decision \notin Facts(seen) /\ witness \notin Facts(seen)
  <2>1. i # None /\ approval # None
    BY <1>2, NoneAssumption DEF Ids
  <2>2. open # decision
    BY <1>15, VerdictsAssumption
  <2> QED
    BY <1>2, <1>15, <1>17, <2>1, <2>2 DEF Facts
<1> HIDE DEF open, decision, witness
<1> DEFINE others == {Fact(seen, j) : j \in DOMAIN seen \ {i}}
<1>19. Facts(seen) = others \union {open}
  BY <1>1 DEF Facts, open
<1>20. Facts(seen') = others \union {decision, witness}
  BY <1>1, <1>10, <1>16 DEF Facts, decision, witness
<1> HIDE DEF others
<1>21. Facts(seen') \in {Facts(seen) \union {decision, witness},
                         (Facts(seen) \ {open}) \union {decision, witness}}
  <2>1. CASE open \in others
    BY <1>19, <1>20, <2>1
  <2>2. CASE open \notin others
    BY <1>19, <1>20, <2>2
  <2> QED
    BY <2>1, <2>2
<1>22. Ledger!Decide
  BY <1>14, <1>15, <1>18, <1>21 DEF Ledger!Decide
<1> QED
  BY <1>13, <1>22 DEF Told

LEMMA StepTells == IInv /\ Story /\ [Next]_vars => Story' /\ Told
<1> SUFFICES ASSUME IInv, Story, [Next]_vars
             PROVE  Story' /\ Told
  OBVIOUS
<1>1. ASSUME UNCHANGED <<rows, seen>>
      PROVE  Story' /\ Told
  BY <1>1 DEF Story, Told
<1>2. CASE Migrate
  <2>1. ASSUME Start \/ CreateIndex \/ Stamp \/ Downgrade
        PROVE  Story' /\ Told
    BY <1>1, <2>1 DEF Start, CreateIndex, Stamp, Downgrade
  <2>2. ASSUME StatementFails \/ LosesConnection
        PROVE  Story' /\ Told
    BY <2>2, RollbackTells DEF StatementFails, LosesConnection
  <2> QED
    BY <1>2, <2>1, <2>2, RepointChildrenTells, RemoveTells, CommitTells DEF Migrate
<1>3. CASE Write
  BY <1>3, InsertTells, DecideTells DEF Write
<1>4. CASE UNCHANGED vars
  BY <1>1, <1>4 DEF vars
<1> QED
  BY <1>2, <1>3, <1>4 DEF Next

LEMMA InitLedger == Init => Ledger!Init
<1> SUFFICES ASSUME Init, NEW f \in Facts(seen)
             PROVE  f.status \notin Verdicts \/ f.table = "remediation_tasks"
  BY DEF Ledger!Init
<1>1. PICK i \in DOMAIN seen : f = Fact(seen, i)
  BY DEF Facts
<1>2. OnlyTasksHaveStatus(seen)
  BY InitTells, SeenStatus
<1>3. f.status = seen[i].status /\ f.table = seen[i].table
  BY <1>1 DEF Fact
<1> QED
  BY <1>2, <1>3, NoneAssumption DEF OnlyTasksHaveStatus

-----------------------------------------------------------------------------
(* Theorem *)

\* upgrade() of 0002 forgets nothing: seen from the ledger each of its statements
\* does nothing, and so does its commit; a rollback brings back copies, and sessions
\* add facts and decide tasks, whenever in between they commit.
THEOREM MigrationForgetsNothing == Spec => ImplementsIdentityLedger
<1>1. Spec => [](IInv /\ Story)
  <2>1. Init => IInv /\ Story
    BY InitEstablishes, InitTells
  <2>2. IInv /\ Story /\ [Next]_vars => (IInv /\ Story)'
    BY NextKeeps, StepTells
  <2> QED
    BY <2>1, <2>2, PTL DEF Spec
<1>2. IInv /\ Story /\ [Next]_vars => [Ledger!Learn \/ Ledger!Decide]_(Facts(seen))
  BY StepTells DEF Told
<1> QED
  BY <1>1, <1>2, InitLedger, PTL DEF Spec, ImplementsIdentityLedger, Ledger!Spec
=============================================================================
