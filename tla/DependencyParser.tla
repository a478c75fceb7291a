-------------------------- MODULE DependencyParser --------------------------
(***************************************************************************)
(* dependency_parser.py: the dependencies that the manifests and lockfiles *)
(* of a repository list.  A lockfile key "node_modules/a/node_modules/b"   *)
(* is the path <<a, b>>; one under a workspace has something before its    *)
(* first node_modules.  Names are numbers in alphabetical order; versions  *)
(* are dotted numbers, each a single digit, with pre-release identifiers.  *)
(* Evidence, file paths and texts of versions asked for are left out.      *)
(***************************************************************************)
EXTENDS Arrangements, SequencesExt

CONSTANTS
    Names, Versions,
    Specs,        \* texts of a requirement that pin no version
    None,
    Invalid       \* a file that cannot be read or parsed

\* DEPENDENCY_GROUPS, in its order: the group and the type it stands for.
DependencyGroups == <<"dependencies", "devDependency", "peerDependency", "optionalDependency">>

\* ParsedDependency
Dependencies ==
    [ecosystem : {"PyPI", "npm"}, name : Names, version : Versions \union {None},
     dependency_type : Range(DependencyGroups) \union {"transitive"},
     is_direct : BOOLEAN, parent : Names \union {None}]

\* An entry of package-lock.json.
LockEntries == [path : Seq(Names) \ {<<>>}, workspace : BOOLEAN,
                version : Versions \union {None}, dev : BOOLEAN, peer : BOOLEAN]

\* lockfileVersion 2 has "packages", 1 only nested "dependencies", given here
\* parents first.
Lockfiles == [kind : {"packages", "dependencies"}, entries : Seq(LockEntries)]

\* A line of requirements.txt or of pyproject.toml; not supported are editable
\* checkouts, paths, urls of repositories and the like.
Requirements == [name : Names, pin : Versions \union {None}, spec : Specs \union {None},
                 group : Range(DependencyGroups), supported : BOOLEAN]

ASSUME ParserAssumption ==
    /\ Names \subseteq Nat
    /\ Versions \subseteq [parts : Seq(0 .. 9), pre : Seq(0 .. 9)]

-----------------------------------------------------------------------------
(* NodeDependencyParser *)

\* _direct_dependencies: of several groups that list a name, the last.
DirectType(manifest, name) ==
    LET listing == {i \in DOMAIN DependencyGroups : name \in manifest[DependencyGroups[i]]}
    IN DependencyGroups[Max(listing)]

DirectNames(manifest) == UNION {manifest[group] : group \in Range(DependencyGroups)}

\* package_name_from_lock_path, package_parent_from_lock_path
NameOf(entry) == Last(entry.path)
ParentOf(entry) == IF Len(entry.path) < 2 THEN None ELSE entry.path[Len(entry.path) - 1]

IsDirect(entry, manifest) ==
    /\ Len(entry.path) = 1
    /\ ~ entry.workspace
    /\ NameOf(entry) \in DirectNames(manifest)

\* _parse_lockfile_v2: the type of an entry.
PackageType(entry, manifest) ==
    IF IsDirect(entry, manifest) THEN DirectType(manifest, NameOf(entry))
    ELSE IF entry.dev THEN "devDependency"
    ELSE IF entry.peer THEN "peerDependency"
    ELSE "transitive"

\* _walk_lockfile_v1: what a development dependency needs is one too.
WalkedTypes(entries, manifest) ==
    LET Type[i \in DOMAIN entries] ==
          LET entry == entries[i]
              outer == {j \in 1 .. i - 1 : entries[j].path = Front(entry.path)}
          IN IF IsDirect(entry, manifest) THEN DirectType(manifest, NameOf(entry))
             ELSE IF entry.dev \/ \E j \in outer : Type[j] = "devDependency"
             THEN "devDependency"
             ELSE "transitive"
    IN Type

\* _parse_lockfile
LockedDependencies(lock, manifest) ==
    LET Type == IF lock.kind = "dependencies" THEN WalkedTypes(lock.entries, manifest)
                ELSE [i \in DOMAIN lock.entries |-> PackageType(lock.entries[i], manifest)]
    IN [i \in DOMAIN lock.entries |->
          [ecosystem |-> "npm", name |-> NameOf(lock.entries[i]),
           version |-> lock.entries[i].version, dependency_type |-> Type[i],
           is_direct |-> IsDirect(lock.entries[i], manifest),
           parent |-> ParentOf(lock.entries[i])]]

\* _dependency_key
DependencyKey(d) == <<d.name, d.version, d.parent>>

\* dependencies_by_key: of the entries with one key, the last.
ByKey(locked) ==
    {locked[i] : i \in {j \in DOMAIN locked :
       \A later \in j + 1 .. Len(locked) : DependencyKey(locked[later]) # DependencyKey(locked[j])}}

\* A package that package.json lists, as it is without its lockfile entry.
ManifestOnly(manifest, name) ==
    [ecosystem |-> "npm", name |-> name, version |-> None,
     dependency_type |-> DirectType(manifest, name), is_direct |-> TRUE, parent |-> None]

\* Mutant: any entry of the lockfile stands for what package.json lists.
AddedForMissingNames(manifest, locked) ==
    {ManifestOnly(manifest, name) : name \in DirectNames(manifest) \ {d.name : d \in locked}}

\* parse: what has no direct entry in the lockfile is added.
AddedFromManifest(manifest, locked) ==
    {ManifestOnly(manifest, name) :
       name \in DirectNames(manifest) \ {d.name : d \in {e \in locked : e.is_direct}}}

NodeDependencies(manifest, lock) ==
    LET locked == IF lock = None THEN {} ELSE ByKey(LockedDependencies(lock, manifest))
        added == AddedFromManifest(manifest, locked)
    IN {d \in locked : \A a \in added : DependencyKey(a) # DependencyKey(d)} \union added

-----------------------------------------------------------------------------
(* PythonDependencyParser *)

\* _parse_requirement, for what it supports.  The second part keeps apart what
\* unique_python_dependencies does.
PythonDependencies(requirements) ==
    {<<[ecosystem |-> "PyPI", name |-> r.name, version |-> r.pin,
        dependency_type |-> r.group, is_direct |-> TRUE, parent |-> None], r.spec>> :
       r \in {line \in Range(requirements) : line.supported}}

-----------------------------------------------------------------------------
(* parse_dependencies *)

\* Whether one sequence of digits sorts before another, as text does.
DigitsBefore(s, t) ==
    \E i \in DOMAIN t :
      /\ i - 1 <= Len(s)
      /\ \A j \in 1 .. i - 1 : s[j] = t[j]
      /\ i - 1 = Len(s) \/ s[i] < t[i]

\* current_version or "": versions are sorted as texts.
VersionBefore(v, w) ==
    IF v = None \/ w = None THEN v = None /\ w # None
    ELSE DigitsBefore(v.parts, w.parts) \/ (v.parts = w.parts /\ DigitsBefore(v.pre, w.pre))

\* parent_package or ""
ParentBefore(p, q) == q # None /\ (p = None \/ p < q)

\* The types of manifests in the order of their texts.
SortedTypes == <<"dependencies", "devDependency", "optionalDependency", "peerDependency">>

TypeBefore(first, second) ==
    \E i, j \in DOMAIN SortedTypes :
      i < j /\ SortedTypes[i] = first /\ SortedTypes[j] = second

\* The keys of the three sorts, the last one first.

SortedBefore(d, e) ==
    IF d.ecosystem # e.ecosystem THEN d.ecosystem = "PyPI"
    ELSE IF d.is_direct # e.is_direct THEN d.is_direct
    ELSE IF d.name # e.name THEN d.name < e.name
    ELSE IF d.version # e.version THEN VersionBefore(d.version, e.version)
    ELSE ParentBefore(d.parent, e.parent)
           \/ (d.ecosystem = "PyPI" /\ TypeBefore(d.dependency_type, e.dependency_type))

\* No DependencyParserError.  Without a manifest the lockfile is not read.
Readable(repository) ==
    /\ repository.manifest # Invalid
    /\ repository.manifest # None => repository.lock # Invalid
    /\ repository.requirements # Invalid

\* Dependencies no key tells apart are alike, and have no version.  Both
\* parsers give the dependencies of one ecosystem.
ParseDependencies(repository) ==
    LET node == IF repository.manifest = None THEN {}
                ELSE NodeDependencies(repository.manifest, repository.lock)
        python == PythonDependencies(repository.requirements)
        listed == SetToSeq({<<d, None>> : d \in node} \union python)
    IN Sorted([i \in DOMAIN listed |-> listed[i][1]], SortedBefore)
=============================================================================
