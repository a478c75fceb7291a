# A verification of VulnSage (Sage-AI)

VulnSage scans a repository's dependencies, looks their advisories up in OSV,
turns them into prioritised remediation tasks, stores scans in PostgreSQL, lets
humans decide tasks, explains tasks through a workflow of small nodes, and answers
AI clients over MCP. This directory holds TLA+ models of the parts of it that carry state, TLC instances
that check them, and proofs checked by TLAPS. Paths below are relative to
`src/backend/app/` unless they begin with `docs/` or `src/`.

## 1. The system

| Part | State it keeps | Operations | What makes it hard | What must hold |
|---|---|---|---|---|
| Remediation tasks and decisions (`services/persistence.py`, `services/remediation_workflow.py`, `api/routes_remediation.py`) | rows of `remediation_tasks` and `human_approvals`; the ORM copies in each session | persist a scan's tasks; approve, reject, accept risk; draft (reads) | many request threads, one transaction each, READ COMMITTED, no version column, savepoints, lost commits | one approval per decided task, one open task per finding, answers that match the tables, decided tasks left alone |
| Persistence of a scan (`services/persistence.py`, `models/core.py`) | organisations, repositories, scans, packages, vulnerabilities, aliases, references, package vulnerabilities, assessments, tasks | find or create each row of a result, commit once | two scans create the same rows, cross-repository deadlock, a failure after many flushed rows, keys that change | no duplicates, no dangling keys, all or nothing, always an answer |
| Scan pipeline (`services/scan_service.py`, `vulnerability_normalizer.py`, `osv_cache.py`, and the parser, planner, scorer and reachability analysis it calls) | the lists of one scan, the OSV cache of its service | parse manifests, look up each dependency, normalise, plan, score, deduplicate twice, merge tasks, sort | partial failure of look-ups, greedy merging of an identity that is not transitive, three orders of versions, boundaries of scores | nothing in the files unseen, no priority lost, targets that are fixes and pass the quality gate, no duplicate tasks |
| Triage workflow (`agents/triage_graph.py`, `agents/state.py`) | the state of one run | `run`, `run_with_client_ai`: one node after the other | providers and validators fail in the middle; the final gate recomputes the verdict | fails closed; nothing risky without a human |
| Trace service (`services/trace_service.py`) | the list of trace records | `record_event`, `clear` | eviction at the capacity | the newest records, in order |
| MCP server and report store (`mcp/`) | report files | save, load, tool calls over stdio | several processes on one directory, files written in place, exceptions in handlers | a loaded report is one that was saved; each request is answered once |
| Migrations (`src/backend/alembic/versions/`) | every table, and the schema | 0002 merges duplicate rows, then adds unique indexes | chains of re-pointed foreign keys, sessions that keep writing in between | no fact lost, no duplicate behind an index, no failure of its own making |
| AI summary, contracts, context bundle, evidence index (`ai/`, `services/ai_*.py`, `services/report_evidence_index.py`) | none between two calls | build a request, call a provider or hand the request to the client, validate the answer | providers that answer anything; the request is built a second time to check the answer | what does not keep to the evidence is not shown, what does is not refused |
| Report validator, claim audit (`eval/`) | none | accept or refuse a report or an answer | the rules and the scanner must agree | the scanner's own reports pass |
| CLI, HTTP shell, configuration, redaction, ingestion | none | argument handling, text, git and file I/O | | |

How they interact: the HTTP routes, the CLI and the MCP tools each build a
`ScanService` for a scan (so the OSV cache lives as long as one scan), which
calls parser, OSV client, normaliser, reachability, planner and scorer in one
thread. The routes hand the result to `persist_scan_result` with the request's
own database session. Decisions arrive as further requests with sessions of
their own, so scans and decisions meet only in the tables. The triage workflow
reads a task, calls the summary service and writes to a `TraceService`. The MCP
server is one process per client, one request at a time; the processes, and the
CLI's `summarize-report`, share only the directory of report files.

## 2. Modules

| Module | Models | Run by |
|---|---|---|
| `TaskLedger` | what the two task tables promise: one step per request | as the property `ImplementsLedger` |
| `RemediationTasks` | every SQL statement of a persisting scan and of a decision that touches those tables | `MCRemediationTasks` |
| `RemediationTasksProofs` | the inductive invariant and the refinement; what sessions know while open, and the answers that follow; proved | TLAPS |
| `ScanPersistence` | all rows of a scan result by natural key | `MCScanPersistence` |
| `ScanPersistenceProofs` | all its safety properties, proved | TLAPS |
| `ScanPipeline` | `scan_local`: the loop, both deduplications, the merge of tasks | `MCScanPipeline` |
| `DependencyParser` | what the manifests and lockfiles list | through `ScanPipeline` |
| `VulnerabilityNormalizer` | normalisation and merging of advisories | through `ScanPipeline` |
| `PatchPlanner`, `Reachability`, `RiskScoring` | target and action; what imports a package; score and priority | through `ScanPipeline` |
| `ReportValidator` | the gates of the report validator about tasks | through `ScanPipeline`, as what its tasks must pass |
| `Arrangements` | Python's stable `sorted()` and list comprehensions | through `ScanPipeline` and `ReportTools` |
| `ScanDataProofs` | what each operator of a scan returns, for every input, proved | TLAPS |
| `ScanPipelineProofs` | all safety properties of a scan, proved | TLAPS |
| `IdentityMigration` | migration 0002 and sessions that commit meanwhile | `MCIdentityMigration` |
| `IdentityLedger` | what the tables tell, whatever their ids | as the property `ImplementsIdentityLedger` |
| `IdentityMigrationProofs` | its safety properties, and that it forgets nothing the tables tell, proved | TLAPS |
| `ReportStore` | the directory of report files | through `ReportTools` |
| `EvidenceIndex`, `AIContracts`, `ClaimAuditor` | the evidence of a finding, the contract of an AI's answer, the audit of its claims | through `ReportTools` |
| `AISummary`, `ClientAI` | a provider's summary; a bundle for the client's AI and the check of its answer | through `ReportTools` |
| `ReportTools` | MCP servers, their tools and their clients over one store | `MCReportTools` |
| `ReportToolsProofs` | all its safety properties, proved | TLAPS |
| `TraceService` | the bounded trace | through `TriageGraph` |
| `TriageGraph` | both entry points of the workflow, on one trace | directly |
| `TriageGraphProofs` | all its safety properties, proved | TLAPS |
| `OrderLemmas` | least elements, induction over sets of numbers, orders on finite sets, what sorting and choosing keep: the lemmas the proofs share | TLAPS |

### RemediationTasks

`status`, `finding`, `content` and `approvals` are the committed rows. For each
scan, `scanPc` and `todo` follow `_persist_scan_result` through its tasks;
`inserted`, `loaded`, `assigned`, `written` and `held` are its transaction: rows
inserted but not committed, the copies in the identity map, the attributes
assigned to them, the columns already sent, and the rows it keeps locked.
`reply` holds the task ids written into the in-memory result. `reqPc`, `target`
and `verdict` are the decision requests.

`QueryFound`/`QueryMissed` are the look-up of the open row, `InsertSucceeds`/
`InsertConflicts` the INSERT in its savepoint, `RequeryFound`/`RequeryMissed` the
second look-up after an `IntegrityError`, `FlushRow` an UPDATE of the changed
columns, `CommitScan`, `FailScan` and `DeadlockVictim` the ends of the
transaction. `GetTask`, `UpdateWhereOpen`, `AddApproval`, `CommitDecision` and
`FailDecision` are `_apply_decision`. A commit may take effect and still be
answered with an error: the acknowledgement, or `db.refresh`, failed.

Which columns are flushed together is over-approximated: SQLAlchemy flushes all
dirty rows before a savepoint and at commit, the model also lets the flush stop
in between, in any order. Every real behaviour is included.

### ScanPersistence

A row is its natural key, `stored` counts the committed rows with that key.
`Plan` lists the rows of a result in the order of the code, item by item: the scan
itself, each package, each vulnerability with its aliases and references, each
task with its link and assessment. `item` and `place` say which row is `Due`;
`Found`, `Missed`, `Insert`, `Conflict` and `FoundAgain` see to it. `MissingLink` stands for
a task whose package or vulnerability is not in the result (`task_link_error`).
`Decide` closes an open task in between; `decided` is the history of the tasks closed
during each scan, by which `ResultsStoredWhole` tells a task that was decided from one
that was never stored. Scan rows are always inserted, and
assessments are found by query but have no unique index. Aliases of one
vulnerability are read once in the code and one by one here, which allows more
interleavings, not fewer. Other columns, and row locks of UPDATEs, are left out;
`RemediationTasks` has them for the table where they matter.

### ScanPipeline and the modules below it

A behaviour is one scan of one repository against one database, both fixed in
`Init`. `Begin` parses, or `ParseFails` does; then one dependency of `packages` is
one step: `SkipUnversioned`, `QueryFails` or `QueryAnswers`; `Finish` merges
across dependencies. `answers` and `built` are histories.

`DependencyParser` reads records that stand for the files: the groups of
`package.json`, the entries of either form of `package-lock.json` by their path,
requirement lines by the outcome of reading them. Entries of one key overwrite
each other, as in the code, and unsupported requirement lines vanish without an
error (`src/backend/tests/test_dependency_parser.py:217` expects that). Versions
are their numeric parts and a pre-release, which is what the three version orders
of the code (normaliser, planner, report validator) tell apart; `OddlyWritten` are
those that the planner reads and the validator does not. A source file is known by
what its path says and by the names it imports in the quoted forms that
`find_imports` looks for. Advisory ids are
a prefix and a number, all numbered in alphabetical order, so that
`choose_canonical_id` and the sort orders are the code's own. `Arrangements` sorts
stably, as Python does, by giving each element the place that the number of those
before it tells. `RiskScoring` has every weight and rule of `score_risk` a scan can
reach; `known_exploited` is never set by a scan. A score ending in .5 is rounded up
but for 55.5, where the float sum of the code falls just below. `MergeVulnerabilities`
keeps the first reference of a url, of whichever type, and it
and `MergeTasks` keep exactly the ids the code keeps, which is not all of them.
OSV answers the same for the same package and version throughout a scan, or fails.

### IdentityMigration and IdentityLedger

`rows` are the committed rows by id, numbered in the order of `(created_at, id)`
in which the code prefers them; `seen` is what the migration's transaction sees.
`Upgrade` is the sequence of its statements, each re-pointing one foreign key,
deleting the duplicates of one table, or creating one index, and after them Alembic's
own, which stores the id of the revision (`Stamp`); `pc` runs through it.
At READ COMMITTED each statement sees what other sessions have committed by then,
and `Insert` and `Decide` are those commits, between any two statements unless a
lock of the migration forbids it. `StatementFails` is a foreign key, a unique
index or a column too narrow (`version_width`) that refuses; it, and
`LosesConnection`, roll back.

`IdentityLedger` knows rows by what they tell: a table, the keys along the path up
to the repository, a status. Its `facts` grow, or an open task becomes a decided
one with its approval. `ImplementsIdentityLedger` maps `seen` to these facts, so
every statement of the migration must be a stutter.

### ReportTools and the modules below it

`files` is the directory: a report is `Half` between the moment its file is opened,
which empties it, and the moment it is written. For each server, `pc` and `line`
follow `run_stdio_server` and `handle_message` through one request; `consumed` and
`outbox` are all lines read and answers written. `ScanRepo`, `FinishSave`,
`SaveFails` and `AnswerScan` are `_scan_path` with `save`; `ReadReport` the tools
that only read; `GetAIContextBundle` and `ValidateAIOutput` the two halves of the
client's AI path, whose requests come from bundles any server has answered with.
`ToolError` and `InternalError` are the two ways a handler's exception is answered,
`Crash` the end of a process. `Summarize` is `AISummaryService` on a stored report.

A text is a sequence of words; `Parts` tells which words are parts of which, so that
`ContainsText` is Python's `in` on strings. `Signals` gives each word what the patterns of
the code would see in it: a fact, a call for action, a hedge, too much confidence,
something unsafe. So coverage, overlap and quotation of texts are the code's own
computations, and what a regular expression matches is a parameter. A chunk of the
report is known by its id, package, vulnerability and text; ranking is by overlap
with the query, as in the code.

### TriageGraph and TraceService

A node is a step: the nodes call nobody who could change the state behind them.
`run` takes the path from `repo_context`, `run_with_client_ai` the one from
`ai_context_bundle`, and too much evidence goes to `evidence_limit` at once. The
provider, the validator and the retrieval choose an outcome: passed, blocked, or
raised. `GateStatus` is the verdict of `human_approval_node`, which reads the
list of reasons and not the status. Each node records its event, some record one
of their own before it; `emitted` is the history the trace is compared with.
`clear` happens between runs, since a run holds the thread.

## 3. Runs

| Run | Question | Bounds |
|---|---|---|
| `tasks_one` | Do racing scans and decisions keep approvals exact, open tasks unique, answers honest, decided tasks frozen, and implement the ledger? | 2 scans, 2 decisions, 1 finding, 2 rows, 2 columns |
| `tasks_live` | Is the invariant of the proofs an invariant with two findings, deadlocks included? Is every scan and every decision answered? | 2 scans that store 2 findings in opposite orders, 1 decision, 3 rows, 1 column, no symmetry |
| `tasks_stored` (violation) | "Stored output matches scanner output" | as `tasks_one` |
| `persist` | Duplicates, dangling keys, all or nothing, answers | 2 scans, 2 repositories, 1 package, 2 advisories in opposite orders, a bad link |
| `persist_alias` (violation) | "No duplicate DB records for the same package/advisory/task" | an advisory before and after it got its CVE id |
| `scan` | Is all looked up that the files name, or the scan incomplete? Do merged tasks keep priority, target and package, and pass the gate of the report validator, but for targets it cannot read? Is nothing severe deferred but in development? | 10 repositories with 3 sets of sources each and 4 unreadable ones, 112 databases of at most 2 advisories per version (one of 3), every pattern of failing look-ups |
| `scan_duplicates` (violation) | "No duplicate findings pass validation" | four advisories of one package |
| `scan_links` (violation) | "VulnSage can scan a repo, save the result" | two versions, two advisories |
| `migration` | Are identities unique afterwards, does it fail only when disturbed or where the version column is too narrow, is no fact forgotten? | 6 databases with duplicates at different levels, ids up to 10, so that one or two rows are committed by others meanwhile; version columns of 32 and 64 |
| `migration_head` (violation) | "alembic upgrade head" prepares a database | as `migration`, version column of 32 |
| `report_tools` | Are reports read whole, requests answered once and in order? Does what passes keep to the evidence, and do answers that quote it pass? | 2 servers, 2 scans, 3 requests, 2 reports, 2 chunks at a time, faithful answers and eleven distortions |
| `triage` | Does the workflow fail closed, ask a human, keep the trace, end? | 2 runs, trace of 4, evidence limit 1 |

Why these bounds are enough to be interesting:

- Two sessions are what a conflict, a stale copy or a deadlock takes; two rows
  for one finding are what a duplicate, or a task after a decided one, takes;
  three rows with two findings what a deadlock takes. Two columns let a mixture
  of two outputs be told from either.
- In `persist` the results come from different owners, so that nothing but the
  shared advisories orders them, which gives the deadlock; the initial rows cover
  an empty database, a repository scanned before without the finding, and one
  with it.
- In `scan` the repositories have one package along two paths in one version, in
  two versions, under one key twice, in a workspace, under an old lockfile, in a
  manifest without lockfile, without a version, and in two ecosystems. Answers of two
  advisories cover every kind of merge (by id, by url, with an unknown id, with a
  changed canonical id) with fixes that are older, newer, pre-releases or absent;
  one database of three has a task that joins two others, and the run about
  duplicates adds the four it needs. One fix, a pre-release above the one installed,
  is written so that only the planner can read it. The sources are none, one of
  production that imports the package, or one in a test with one of production whose
  suffix is not read.
- In `migration` the databases have two rows of one identity with duplicates down to
  open and decided tasks, assessments, scans and files, and duplicates below one
  package; sessions may add a row of any table, again with duplicates.
- In `report_tools` three requests are a scan, a bundle and a validation, each by
  either server, with a crash or a failed save anywhere; two reports tell a finding
  with evidence, another finding of the same package, one without evidence, and one
  whose package name was redacted. A claim may hold a word of which another is a part
  (`uninstall`, `install`), which the audit takes for support.
- In `triage` a run makes up to seven events, so that a trace of four is
  overwritten within a run and across two.

Symmetry is used for task ids, scans and requests in the runs that check only
safety. `CHECK_DEADLOCK FALSE` is set for all models but `triage`: each request,
scan or row is handled once and the model stops when all are. In `triage` the trace
can always be cleared and deadlock is checked.

### Fairness

Liveness assumes weak fairness of the steps of a handler that has begun: handlers
are plain synchronous functions and run until they answer. It assumes that
PostgreSQL picks a victim of a deadlock, which it does after `deadlock_timeout`.
It does not assume that requests arrive, nor that anything fails. `Node` of the
triage workflow is fair for the same reason, and so is the `Work` of an MCP server
on a request it has read: it is synchronous, and the requests a scan sends to OSV
time out. That a server is given another line is not assumed. Nor does the
migration have fairness: a lost connection may undo it each time.

### What disagrees with the documents

Five runs end in a violation, four of them of a sentence of
`docs/superpowers/specs/2026-05-26-ai-agent-waves-design.md` that the code does
not keep, the fifth of the quick start in `src/README.md`:

1. `tasks_stored`: only columns that differ from the session's copy are written,
   so after two overlapping scans a task can hold columns of both.
2. `persist_alias`: vulnerabilities are found by canonical id alone, and an
   advisory that gains a CVE id changes it; it is stored a second time with a
   second open task.
3. `scan_duplicates`: a merged task is not compared with the tasks before it, so a
   report can hold two tasks the report validator calls duplicates.
4. `scan_links`: vulnerabilities merged across versions may change their canonical
   id after tasks have copied it, and the result then cannot be persisted. The
   same counterexample shows that a merge which changes the canonical id drops the
   old one from the identity altogether.
5. `migration_head`: the id of revision 0002 has 41 characters, Alembic creates
   `version_num` as `VARCHAR(32)` and `src/backend/alembic/env.py` does not change
   that, so on PostgreSQL the statement that stores the id, after all of `upgrade()`,
   fails and everything is rolled back. The tests run only the deduplication, on
   SQLite, which ignores the width. All that is said of the migration otherwise is
   about a column that is wide enough, or about its statements up to that one.

Four more limits of the code are part of properties that hold:

- `FaithfulOutputsAccepted` says that a faithful answer passes *exactly if* its package
  is not redacted as text. The validator of client answers sanitises the package name of
  the answer as text and that of the finding as an identifier, so an answer that copies
  `cookie-parser` is blocked for having changed it, although
  `services/ai_context_bundle.py:188` only asks not to change it.
- `AcceptedOutputsGrounded` says that an action is contained in a claim *letter by
  letter*, since `eval/claim_auditor.py:363` compares strings and not words: "install x"
  is supported by "uninstall x".
- `TasksPassQualityGate` leaves one finding of the gate open, a target that
  the planner reads and the validator does not (`1.2.3-rc_1`, or `1_0.0.0`).
- `SevereDeferredOnlyInDevelopment` excepts development dependencies that no production
  JavaScript or TypeScript imports in quotes. Python code, and `import 'x'`, may well
  import them: they are deferred all the same.

## 4. Proofs

The modules named `...Proofs`, and `OrderLemmas`, are checked by TLAPS for every
value of the constants that satisfies the assumptions named below. All safety
properties that hold in the runs are proved: invariants, action properties and both
refinements.

**Remediation tasks** (`ConstantsAssumption`: results are sequences of task
outputs, `None` and the two states of an undecided row are no finding, content,
id or verdict, scans and requests are different things). `DecisionsRecorded` and
`OneOpenTaskPerFinding` are not inductive: that a commit adds no second open task
depends on what other sessions have not yet committed. `IInv` adds

- `PendingRowsUnique`: a finding inserted by an uncommitted session has no
  committed open row and no second inserter; the unique index keeps it, by making
  the second INSERT wait or fail;
- `InsertIsFirst`: a session does not insert a finding twice;
- `WrittenRowsAreLoaded` and `RowsAreAboutFindings`, so that a commit writes only
  contents and rows exist exactly when they are about a finding;
- `DecidersExclusive`: between UPDATE and COMMIT a decision is the only one on its
  task, and the task is open; the row lock keeps it.

There is one lemma per action. `ImplementsTheLedger` shows that a committing scan
is the ledger's `OpenTasks`, a committing decision its `Decide`, and every other
step a stutter.

**What the callers hear.** The second half of `RemediationTasksProofs` adds to `IInv`
what a session knows of the tables while it is open (`SInv`):

- `ClosedSessionsEmpty`: a session that does not run has neither copies nor pending
  rows, so nothing it knew outlives it;
- `RepliesBacked`: an id promised to the caller is a stored row of that finding, or
  a pending row of the same session that the commit will store;
- `SettledUntouched`: a task decided before the scan began stays decided, hence is
  never found open, never copied and never written;
- `CopiesFresh`: until another scan commits, a copy differs from its row only in the
  columns the session has written, which is why a flush that sends only changed
  columns is enough; `RemediationTasksStored` shows that it no longer is when one has;
- `ApproversAnswered`: an approval appears in the step that ends its request.

From it follow `AnswersMatchApprovals`, `RepliesNameStoredTasks`, and the action
properties `SettledTasksFrozen` and `UndisturbedScanStoresItsOutput`: with these,
everything the runs check of `RemediationTasks` holds for all constants, except
liveness.

**Triage workflow** (`TraceAssumption`: the capacity is positive;
`TriageAssumption`: limits are numbers and risky actions are actions). The
invariant relates, at each node, the status to the reasons, the reasons to the
results recorded so far, and the patch to the node that explains it; the
properties of a finished run follow at the gate. `RecordKeepsTail` is the fact
about sequences that the trace needs: appending after evicting the head keeps a
suffix a suffix.

**Persistence of a scan** (`ConstantsAssumption`: results are results, and what
earlier scans stored is whole: parents are there, links have their assessment, no
scan row is one of a scan to come). None of the properties is inductive. `IInv` of
`ScanPersistenceProofs` adds

- `PlansGood`: in every plan the parents of a row come before it, a link is followed
  at once by its assessment and no assessment stands elsewhere, and the scan row is
  the third row and the only one; proved of `Plan` for every result;
- `SessionsPlaced`, `SeenIsVisible` and `InsertedSeen`: what lies behind a session's
  place in its plan is committed or its own, but for tasks, which humans may close;
- `PendingUnique`: an uncommitted row is not stored and has no second inserter. For
  tables with an index this is the index. For assessments it follows from
  `LinksAssessed` and `LinkIsOwn`: a session that comes to insert an assessment has
  inserted the link itself, and the link's index keeps every other session from it.

So `NoDuplicateRows` holds of assessments by the order of two statements alone, and
a mutant without the index on links breaks it.

**Migration** (`NoneAssumption`, `VerdictsAssumption`, `MaxIdAssumption`: values of
different columns are told apart and `MaxId` is a number; `VersionWidthsAssumption`: the
id of revision 0001 fits the version column; `DatabasesAssumption`: the
foreign keys of revision 0001 hold, and only tasks have a status). `IInv` of `IdentityMigrationProofs` says that
foreign keys hold for the migration and for everyone else, that an index that exists
or is being created keeps twins out, and (`AloneProgresses`) that while no one else
commits, what the statements so far have achieved stays: after a re-pointing no row
refers to a duplicate, after a deletion there is none. That is what makes
`FailsOnlyIfDisturbed` true: a deletion comes after all re-pointings into its table,
and no later statement makes new duplicates in a table that was merged. The first of
equal rows exists by `LeastNatural`. Alembic's statement comes after all of these
(`StampIsLast`) and depends on its column alone, so where that is wide enough the whole
upgrade succeeds (`SucceedsWhereItFits`, the property that `migration_head` violates
where it is not).

The second half of the module shows that each step maps to a step of the ledger or to a
stutter. Its invariant `Story` says that what the migration's transaction sees tells
what the committed rows tell, and that a row it has deleted was a copy of a row that
stays. A re-pointing changes no name, because the row pointed at has the same keys;
names are compared level by level from repositories to assessments and tasks
(`NamesKept`). So statements and the commit are stutters. A rollback may bring back
an open copy of a task that was decided meanwhile, which the ledger allows as
something new; no decision comes or goes with it. Everything else the ledger does is
a commit of a session.

**Reports** (`StoreAssumption`, `ReportsAssumption`: half a report is no report and
is told from one; `ToolsAssumption`: kinds of lines, and arguments of the two AI tools
as their schemas have them; `ScannedAssumption`: the texts of a report are sequences
of words; `RepliesAssumption`: an answer of an AI that parses as an output has all
its fields). `IInv` of `ReportToolsProofs`
says who owns a file: while a server saves, the file is half written and no other
server saves the same; once saved it is the report, and no step writes a file that
holds a report. From it `AnswersFromSavedReports` follows. `AnswersInOrder` needs
`OrderInv`: a server that is idle owes nothing, one that is not owes an answer at most
to the last line it has read, and only a line that wants an answer gets as far as
saving a report. `ShownSummariesGrounded` is proved of what `Shown` lets through, for
every candidate a provider may answer.

The two properties of the client's AI path are about answers given long ago.
`AnswersRight` says what an answer has to do with the report of the finding: a bundle
answers the request its operators make of that report, an answer to a validation is
its verdict. It is kept because reports never change (`RightStays`), and the rest is
about the operators, for every report, request and output:

- `BundleEvidence`: what a bundle quotes is evidence of the task it was asked about,
  or a chunk of the report about its package and vulnerability. `RankedAmong` and `FlattenTyped` say so of the chunks, through every
  ranking, selection and limit;
- `PassedIsGrounded`: an output that passes copies priority, score and vulnerability,
  makes no claim of a fact or an action without evidence, cites only evidence of the
  task, and calls for no action that such a claim does not contain as a string;
- `FaithfulPasses`: an output whose claims each quote one piece of evidence of the
  bundle, and whose other texts repeat claims, passes all checks if the package's name
  is not one that is redacted as text; if it is, `CopiedIsBlocked`
  (`RedactedAssumption`: the text that replaces a name is not replaced again).

The first attempt at `AcceptedOutputsGrounded` failed for a good reason. It said that
the package of an accepted output is that of the finding. A report may hold a package
whose name was redacted when it was saved; any name that is redacted as text then
compares equal to it. TLC shows such an answer once a report has such a task, and
`MCReportTools` now has one. The property excepts just this case.

**A scan** (`ParserAssumption`: names are numbers and versions are digits;
`IdsAssumption`: no two ids have one number; `PipelineAssumption`: files and
answers are what their types say, a manifest lists finitely many names, an
advisory finitely many entries and fixes, none with a url of two types, and `None` is
no answer; `OddlyWrittenAssumption`: what is written oddly is a version). The work is in
the data, not in the steps. `ScanDataProofs` proves of each operator what it returns
for every input, in this order:

- `StableOrder`, `SortKeeps`, `AtPlacesKeeps` of `OrderLemmas`: sorting by a strict weak order has the
  same elements, choosing by a condition exactly those; `Ranks` and `InOrderArranges`
  are the counting behind them. `SortedBeforeWeak`, `TaskBeforeWeak` and
  `SortsBeforeWeak` say that the keys the code sorts by are such orders, from
  `DigitsTotal` and `VersionsOrdered` upwards;
- `ParsedListed`: parsing loses nothing. A package is listed for every entry of a
  lockfile, though entries of one key overwrite each other, for every name a manifest
  declares and for every supported requirement; a direct one has no parent
  (`Listed`), which the merging of tasks relies on;
- `DeduplicationKeeps`, `TaskDeduplicationKeeps`: a fold of greedy merges does not
  leave a set that a single merge does not leave, and whatever it starts from is
  covered by something in the result. The fold is a chosen function on sets of
  places; `FoldExists` shows by induction over numbers that there is one, and
  `TaskFold` takes it apart into steps;
- `TargetChosen` and `SameOrderOfVersions`: a target has three parts, as the version
  installed has, and on such versions the order of the planner is that of the report
  validator, so that what the one takes for an upgrade is no downgrade for the other,
  if the other can read it at all;
- `OthersMatter`, `ScoreTyped`: a package that is not for development, or that
  production is seen to import, is not taken for unlikely to be reached; what is severe
  there and has a fix scores at least 40 and is not deferred, and what has none is for
  review.

`FoundTasks` is the set of tasks a scan may come to; merging does not leave it
(`FoundTasksClosed`), although the target of a merged task may come from one of the
two and its priority and parent from the other. `ScanPipelineProofs` then has an
invariant of six parts that is inductive: the types; `SourcesUsed`, the packages are
what the parser makes of the files; `CacheTrue`, the cache holds what OSV knows;
`AnswersTrue`, an answer is what OSV knows of just that version, and without errors
there is one for every package so far; `TasksFound`, every task built is in
`FoundTasks`; and `SevereFound`, each severe advisory on a package, but for
those for development, has left a task that is not deferred. All seven invariants of the run follow.

Induction over data is out of reach of these provers as the library states it, with
an operator as a parameter. Where a proof needs it here, it is over the natural
numbers, of an explicit set of them (`SetInduction` in `OrderLemmas`), and lemmas
about folds and sorts take functions and sets of pairs in place of operators.

Checked by TLC only: liveness (`ScansEnd`, `RequestsEnd`, `PersistingEnds`, `RunsEnd`,
`CallsEnd`), since fairness and ENABLED are outside what this prover handles; and the
five counterexamples of the violations.

## 5. Not modelled

- Text: wording, redaction (`services/public_safety.py`, patterns without state),
  evidence lists of scans, drafts of pull requests. Where a check depends on what a
  pattern matches, the match is a parameter of the model.
- File system and git: `repo_ingestion.py`, `github_ingestion.py`, `path_policy.py`.
  They walk directories and copy, in one pass, and share no state. The report
  store's refusal of unsafe names and links belongs here too.
- `rag_chunking.py` splits text, `rag_retrieval.py` ranks it in a database store that
  only tests use, `impact_explainer.py` words what a report says. What a search in a
  report returns is in `EvidenceIndex`.
- Framing of JSON-RPC, schemas of tools, HTTP routes, configuration, argument
  handling of the CLI, the HTTP client of OSV.
- Routes, Dockerfiles and owners in `reachability.py`: they are evidence. Which names
  the text of a file imports, in the forms its pattern sees, is input.
- CVSS arithmetic in `vulnerability_normalizer.py`: it rounds in floating point,
  which TLC has not. The severity of a vector is input.
- The report validator's search for forbidden keys and texts, the offline verifier,
  and the evaluation scripts, which run fixed cases and count.
- Columns that are no part of a key, other than those of tasks: shared vulnerability
  rows are overwritten by the last scan to commit. SQLite, which the tests use.

`PROJECT.json` lists every part with its status and every known hazard with the
property that watches it, or the reason why none does.

## 6. Plan

Done, in this order: `RemediationTasks` with `TaskLedger`, what humans decide and what
is stored about it; `ScanPersistence`, the tables around the tasks; `TriageGraph`
over `TraceService`; `IdentityMigration` with `IdentityLedger`; `ReportTools` with the
store and all that checks an AI's answers; `ScanPipeline` from the files of a
repository to the tasks of the report; proofs for all of these.

What would come next: an exact-decimal version of the CVSS formula in integers; the
columns of shared vulnerability rows with a property about which scan should win,
once a document says so; and the scan as a source of the results `ScanPersistence`
stores, which `TasksLinked` shows they are not always.
