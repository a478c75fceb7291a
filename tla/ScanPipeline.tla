---------------------------- MODULE ScanPipeline ----------------------------
(***************************************************************************)
(* scan_service.ScanService.scan_local: the dependencies of a repository   *)
(* are parsed, each is looked up in OSV through the cache of the scan, its *)
(* advisories become normalised vulnerabilities, and these, with what code *)
(* imports the package, a score and a patch plan, remediation tasks.       *)
(* Advisories of several databases, and the same package reached along     *)
(* several paths, are merged where they share an id.  One dependency is    *)
(* one step.                                                               *)
(***************************************************************************)
EXTENDS ReportValidator, PatchPlanner, Reachability

CONSTANTS
    Repositories,    \* what a scan may find on disk
    Databases        \* what OSV may know of each package and version

Packages == {"PyPI", "npm"} \X Names \X Versions

ASSUME PipelineAssumption ==
    /\ \A r \in Repositories :
         /\ r.manifest \in {None, Invalid} \union [Range(DependencyGroups) -> SUBSET Names]
         /\ r.manifest \notin {None, Invalid} =>
              \A group \in Range(DependencyGroups) : IsFiniteSet(r.manifest[group])
         /\ r.lock \in {None, Invalid} \union Lockfiles
         /\ r.requirements = Invalid \/ r.requirements \in Seq(Requirements)
         /\ r.sources \subseteq SourceFiles
    /\ \A database \in Databases :
         /\ DOMAIN database \subseteq Packages
         /\ Range(database) \subseteq Seq(Advisories)
         /\ \A answer \in Range(database) : \A advisory \in Range(answer) :
              /\ advisory.urls \intersect advisory.other_urls = {}
              /\ IsFiniteSet(advisory.affected)
              /\ \A entry \in advisory.affected : IsFiniteSet(entry.fixed)
    /\ None \notin Seq(Advisories)

\* OSV answers for a package it knows nothing of, too.
Known(database, d) ==
    LET key == <<d.ecosystem, d.name, d.version>>
    IN IF key \in DOMAIN database THEN database[key] ELSE <<>>

-----------------------------------------------------------------------------
(* Remediation tasks *)

\* escalate_missing_fix_to_review
Escalated(risk, plan) ==
    IF plan.target # None THEN risk ELSE [risk EXCEPT !.rank = NEEDS_HUMAN_REVIEW]

\* build_task_output
TaskOutput(d, v, risk, plan) ==
    [ecosystem |-> d.ecosystem, name |-> d.name, version |-> d.version,
     dependency_type |-> d.dependency_type, is_direct |-> d.is_direct, parent |-> d.parent,
     canonical |-> v.canonical, source |-> v.source, aliases |-> v.aliases, fixed |-> v.fixed,
     rank |-> Escalated(risk, plan).rank, score |-> Escalated(risk, plan).score,
     target |-> plan.target, action |-> plan.action]

RiskInput(d, v, reach, plan) ==
    [severity |-> v.severity, known_exploited |-> FALSE, runtime_scope |-> reach.runtime_scope,
     reachability |-> reach.reachability, dependency_type |-> d.dependency_type,
     is_direct |-> d.is_direct, fix_available |-> plan.target # None]

\* The tasks of one dependency: a patch plan and a score for each vulnerability.
TasksOf(d, deduped, sources) ==
    LET reach == AnalyzeReachability(sources, d)
        Task(v) == LET plan == PatchPlan(d, v)
                   IN TaskOutput(d, v, ScoreRisk(RiskInput(d, v, reach, plan)), plan)
    IN [i \in DOMAIN deduped |-> Task(deduped[i])]

ShouldMergeTasks(first, second) ==
    /\ first.name = second.name
    /\ first.ecosystem = second.ecosystem
    /\ first.version = second.version
    /\ Identity(first) \intersect Identity(second) # {}

MoreUrgent(first, second) ==
    first.rank < second.rank \/ (first.rank = second.rank /\ first.score > second.score)

\* Mutant: the task that comes first wins.
FirstTask(first, second) == first

HigherPriorityTask(first, second) == IF MoreUrgent(second, first) THEN second ELSE first

\* Mutant: the parent of a merged task is always dropped.
ParentDropped(first, second, winner) == None

\* merge_package
MergedParent(first, second, winner) ==
    IF first.is_direct \/ second.is_direct THEN None ELSE winner.parent

MergedType(first, second, winner) ==
    IF "dependencies" \in {first.dependency_type, second.dependency_type} THEN "dependencies"
    ELSE IF (first.is_direct \/ second.is_direct) /\ winner.dependency_type = "transitive"
    THEN (IF first.is_direct THEN first ELSE second).dependency_type
    ELSE winner.dependency_type

\* merge_patch_plan
MergedTarget(first, second, winner) ==
    IF winner.target # None THEN winner.target
    ELSE IF first.target # None THEN first.target
    ELSE second.target

\* merge_remediation_tasks: the ids of the other task are kept only where they
\* are among its aliases.
MergeTasks(first, second) ==
    LET winner == HigherPriorityTask(first, second)
    IN [winner EXCEPT
          !.is_direct = first.is_direct \/ second.is_direct,
          !.parent = MergedParent(first, second, winner),
          !.dependency_type = MergedType(first, second, winner),
          !.aliases = first.aliases \union second.aliases,
          !.fixed = first.fixed \union second.fixed,
          !.score = IF first.score > second.score THEN first.score ELSE second.score,
          !.target = MergedTarget(first, second, winner)]

AddTask(deduped, task) ==
    LET matches == {i \in DOMAIN deduped : ShouldMergeTasks(deduped[i], task)}
    IN IF matches = {} THEN Append(deduped, task)
       ELSE [deduped EXCEPT ![Min(matches)] = MergeTasks(@, task)]

\* The key of sort_tasks.
TaskBefore(t, u) == MoreUrgent(t, u) \/ (~ MoreUrgent(u, t) /\ t.name < u.name)

\* sort_tasks(deduplicate_remediation_tasks(tasks))
DeduplicatedTasks(outputs) ==
    Sorted(FoldLeft(AddTask, <<>>, outputs), TaskBefore)

-----------------------------------------------------------------------------
VARIABLES
    pc,                 \* "idle", "scanning", "done" or "failed"
    repository,         \* what is on disk, the same throughout a scan
    osv,                \* what OSV knows, the same throughout a scan
    packages,           \* what the manifests and lockfiles list
    looked_up,          \* how many of them the loop is done with
    cache,              \* CachedOsvClient._cache: answers by ecosystem, name and version
    vulnerabilities,    \* all_vulnerabilities, in the end result.vulnerabilities
    tasks,              \* tasks, in the end result.remediation_tasks
    error_count,        \* len(errors)
    answers,            \* history: the answer each dependency got, or None
    built               \* history: every task before deduplication

vars == <<pc, repository, osv, packages, looked_up, cache, vulnerabilities, tasks,
          error_count, answers, built>>

on_disk == <<repository, osv>>

Begin ==
    /\ pc = "idle"
    /\ Readable(repository)
    /\ pc' = "scanning"
    /\ packages' = ParseDependencies(repository)
    /\ UNCHANGED <<on_disk, looked_up, cache, vulnerabilities, tasks, error_count, answers, built>>

\* DependencyParserError: there is no result.
ParseFails ==
    /\ pc = "idle"
    /\ ~ Readable(repository)
    /\ pc' = "failed"
    /\ UNCHANGED <<on_disk, packages, looked_up, cache, vulnerabilities, tasks, error_count,
                   answers, built>>

Dependency == packages[looked_up + 1]

Looping == pc = "scanning" /\ looked_up < Len(packages)

\* build_osv_cache_key
CacheKey(d) == <<d.ecosystem, d.name, d.version>>

\* Mutant: a package without a version is looked up, and nothing is found.
UnversionedLookedUp ==
    /\ Looping
    /\ Dependency.version = None
    /\ cache' = [k \in DOMAIN cache \union {CacheKey(Dependency)} |->
                   IF k = CacheKey(Dependency) THEN <<>> ELSE cache[k]]
    /\ looked_up' = looked_up + 1
    /\ answers' = Append(answers, <<>>)
    /\ UNCHANGED <<pc, on_disk, packages, vulnerabilities, tasks, error_count, built>>

\* Nothing is asked without an exact version; the scan is incomplete.
SkipUnversioned ==
    /\ Looping
    /\ Dependency.version = None
    /\ error_count' = error_count + 1
    /\ looked_up' = looked_up + 1
    /\ answers' = Append(answers, None)
    /\ UNCHANGED <<pc, on_disk, packages, cache, vulnerabilities, tasks, built>>

\* OsvClientError: the scan goes on, and nothing is cached.
QueryFails ==
    /\ Looping
    /\ Dependency.version # None
    /\ CacheKey(Dependency) \notin DOMAIN cache
    /\ error_count' = error_count + 1
    /\ looked_up' = looked_up + 1
    /\ answers' = Append(answers, None)
    /\ UNCHANGED <<pc, on_disk, packages, cache, vulnerabilities, tasks, built>>

QueryAnswers ==
    LET d == Dependency
        key == CacheKey(d)
        raw == IF key \in DOMAIN cache THEN cache[key] ELSE Known(osv, d)
        matching == AtPlaces(raw, {i \in DOMAIN raw : MatchesPackage(raw[i], d)})
        deduped == DeduplicatedVulnerabilities(
                     [i \in DOMAIN matching |-> Normalized(matching[i], d)])
        outputs == TasksOf(d, deduped, repository.sources)
    IN /\ Looping
       /\ d.version # None
       /\ cache' = [k \in DOMAIN cache \union {key} |-> IF k = key THEN raw ELSE cache[k]]
       /\ error_count' = error_count + (Len(raw) - Len(matching))
       /\ vulnerabilities' = vulnerabilities \o deduped
       /\ tasks' = tasks \o outputs
       /\ built' = built \o outputs
       /\ looked_up' = looked_up + 1
       /\ answers' = Append(answers, raw)
       /\ UNCHANGED <<pc, on_disk, packages>>

Finish ==
    /\ pc = "scanning"
    /\ looked_up = Len(packages)
    /\ pc' = "done"
    /\ vulnerabilities' = DeduplicatedVulnerabilities(vulnerabilities)
    /\ tasks' = DeduplicatedTasks(tasks)
    /\ UNCHANGED <<on_disk, packages, looked_up, cache, error_count, answers, built>>

Init ==
    /\ pc = "idle"
    /\ repository \in Repositories
    /\ osv \in Databases
    /\ packages = <<>>
    /\ looked_up = 0
    /\ cache = <<>>
    /\ vulnerabilities = <<>>
    /\ tasks = <<>>
    /\ error_count = 0
    /\ answers = <<>>
    /\ built = <<>>

Next == Begin \/ ParseFails \/ SkipUnversioned \/ QueryFails \/ QueryAnswers \/ Finish

Spec == Init /\ [][Next]_vars

-----------------------------------------------------------------------------
(* Properties *)

Tasks ==
    [ecosystem : {"PyPI", "npm"}, name : Names, version : Versions,
     dependency_type : Range(DependencyGroups) \union {"transitive"}, is_direct : BOOLEAN,
     parent : Names \union {None}, canonical : AdvisoryIds, source : AdvisoryIds,
     aliases : SUBSET AdvisoryIds, fixed : SUBSET Versions, rank : 0 .. 4, score : 0 .. 100,
     target : Versions \union {None},
     action : {"needs_human_review", "upgrade", "upgrade_parent_package",
               "override_or_resolution"}]

Vulnerabilities ==
    [canonical : AdvisoryIds, source : AdvisoryIds, aliases : SUBSET AdvisoryIds,
     ecosystem : {"PyPI", "npm"}, name : Names, urls : SUBSET Urls, other_urls : SUBSET Urls,
     severity : Severities, fixed : SUBSET Versions]

TypeOK ==
    /\ pc \in {"idle", "scanning", "done", "failed"}
    /\ packages \in Seq(Dependencies)
    /\ looked_up \in 0 .. Len(packages)
    /\ DOMAIN cache \subseteq Packages
    /\ vulnerabilities \in Seq(Vulnerabilities)
    /\ tasks \in Seq(Tasks)
    /\ error_count \in Nat
    /\ Len(answers) = looked_up

SamePackage(t, d) == t.ecosystem = d.ecosystem /\ t.name = d.name /\ t.version = d.version

\* Merging keeps priorities: whatever was found on its own is in the result
\* under a task of the same package and version at least as urgent.
PrioritiesKept ==
    pc = "done" =>
      \A b \in Range(built) : \E t \in Range(tasks) :
        SamePackage(t, b) /\ t.rank <= b.rank /\ t.score >= b.score

\* The gate of the report validator finds one thing wrong with a task at most,
\* a target it cannot read though the planner can.  It finds no target older
\* than the version installed, though the two read versions differently, and a
\* target for all but those to be reviewed, also where priority and target of a
\* merged task come from different tasks.
TasksPassQualityGate ==
    \A t \in Range(tasks) :
      TaskQualityFindings(t) \subseteq
        {code \in {"invalid_patch_target_version"} : t.target \in OddlyWritten}

\* The target of a task, merged or not, is a version that an advisory OSV has
\* on that very package, in its own ecosystem, names as a fix.
TargetsAreFixes ==
    \A t \in Range(tasks) : t.target # None =>
      /\ t.target \in t.fixed
      /\ \E advisory \in Range(Known(osv, t)) : \E entry \in advisory.affected :
           /\ entry.name = t.name /\ entry.ecosystem = t.ecosystem
           /\ t.target \in entry.fixed

\* A merged task names a package of the result, with version and parent: where
\* one of its paths is direct it is the direct one.  Persistence relies on it.
TaskPackagesListed ==
    \A t \in Range(tasks) : \E d \in Range(packages) :
      SamePackage(t, d) /\ d.parent = t.parent /\ d.is_direct = t.is_direct

\* What package.json or a Python requirement asks for, and what the lockfile
\* has installed beside a package.json: ecosystem, name, and version if known.
InRepository(r) ==
    (IF r.manifest = None THEN {}
     ELSE {<<"npm", name, None>> : name \in DirectNames(r.manifest)}
          \union (IF r.lock = None THEN {}
                  ELSE {<<"npm", Last(e.path), e.version>> : e \in Range(r.lock.entries)}))
    \union {<<"PyPI", line.name, line.pin>> :
              line \in {l \in Range(r.requirements) : l.supported}}

\* A scan is called complete only if it looked up all that the files of the
\* repository name: every version installed or pinned, and for every name
\* declared some version, each with OSV's answer for just that version.
CompleteScanCoversRepository ==
    pc = "done" /\ error_count = 0 =>
      \A wanted \in InRepository(repository) : \E i \in DOMAIN packages :
        /\ packages[i].ecosystem = wanted[1] /\ packages[i].name = wanted[2]
        /\ IF wanted[3] = None THEN packages[i].is_direct ELSE packages[i].version = wanted[3]
        /\ answers[i] # None /\ answers[i] = Known(osv, packages[i])

\* Listed for development, and no JavaScript or TypeScript of production is seen
\* to import it; that other production code does, or with import 'x', is not seen.
ForDevelopment(d) ==
    /\ d.dependency_type = "devDependency"
    /\ \A file \in repository.sources :
         d.name \in file.quoted_imports /\ IsRead(file) => ~ IsProductionSource(file)

\* What an advisory calls a high or critical risk is deferred only in a package
\* for development: any other has a task that is not, whatever its findings were
\* merged with, however it is reached and whether a fix is known or not.
SevereDeferredOnlyInDevelopment ==
    pc = "done" =>
      \A i \in {j \in DOMAIN packages : answers[j] # None} : \A advisory \in Range(answers[i]) :
        MatchesPackage(advisory, packages[i]) /\ Severe(InferSeverity(advisory)) =>
          \/ ForDevelopment(packages[i])
          \/ \E t \in Range(tasks) : SamePackage(t, packages[i]) /\ t.rank # P3_MONITOR_DEFER

\* "No duplicate findings pass validation": so a scan should not report any.
NoDuplicateTasks ==
    pc = "done" =>
      \A i, j \in DOMAIN tasks : DuplicateTasks(tasks[i], tasks[j]) => i = j

\* Every task names a vulnerability of the result, so the result can be saved.
TasksLinked ==
    pc = "done" =>
      \A t \in Range(tasks) : \E v \in Range(vulnerabilities) : v.canonical = t.canonical
=============================================================================
