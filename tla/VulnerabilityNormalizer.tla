----------------------- MODULE VulnerabilityNormalizer -----------------------
(***************************************************************************)
(* vulnerability_normalizer.py: the advisories OSV has about a package     *)
(* become vulnerabilities under one canonical id, and those that share an  *)
(* id or the url of an advisory are merged.  Ids are <<prefix, number>>,   *)
(* all numbered in alphabetical order.  Texts, dates and the versions      *)
(* affected are left out; what a CVSS vector amounts to is given.          *)
(***************************************************************************)
EXTENDS DependencyParser

CONSTANTS
    AdvisoryIds,     \* <<prefix, number>>
    Unknown,         \* the id of an advisory that has none
    Urls             \* urls of references

ASSUME IdsAssumption ==
    /\ AdvisoryIds \subseteq STRING \X Nat
    /\ \A v, w \in AdvisoryIds : v[2] = w[2] => v = w

\* SEVERITY_ORDER
SeverityOrder == [UNKNOWN |-> 0, LOW |-> 1, MODERATE |-> 2, MEDIUM |-> 2, HIGH |-> 3, CRITICAL |-> 4]
Severities == DOMAIN SeverityOrder

\* A raw OSV advisory: the severity its database states, what its CVSS vectors
\* amount to (None for one that is not understood), and the packages it affects
\* with the versions that fix it.  The urls are those of its references of type
\* ADVISORY, the other_urls those of another type; a url is of the type it has
\* first.
Advisories ==
    [source : AdvisoryIds, aliases : SUBSET AdvisoryIds,
     urls : SUBSET Urls, other_urls : SUBSET Urls,
     stated : Severities \union {None}, vectors : Seq(Severities \union {None}),
     affected : SUBSET [ecosystem : {"PyPI", "npm"}, name : Names, fixed : SUBSET Versions]]

-----------------------------------------------------------------------------
(* Normalisation *)

PrefixRank(id) ==
    CASE id[1] = "CVE" -> 1 [] id[1] = "GHSA" -> 2 [] id[1] = "OSV" -> 3 [] OTHER -> 4

IdBefore(v, w) == v[2] < w[2]

\* choose_canonical_id: the best prefix, and of these the source id, else the
\* first of the sorted aliases.
CanonicalId(source, aliases) ==
    LET best == {id \in {source} \union aliases :
                   \A other \in {source} \union aliases : PrefixRank(id) <= PrefixRank(other)}
    IN IF source \in best THEN source
       ELSE CHOOSE id \in best : \A other \in best \ {id} : IdBefore(id, other)

\* infer_severity: the first vector that is understood.
InferSeverity(advisory) ==
    LET understood == {i \in DOMAIN advisory.vectors : advisory.vectors[i] # None}
    IN IF advisory.stated # None THEN advisory.stated
       ELSE IF understood # {} THEN advisory.vectors[Min(understood)]
       ELSE "UNKNOWN"

\* affected_entry_matches_package
MatchingEntries(advisory, d) ==
    {entry \in advisory.affected : entry.name = d.name /\ entry.ecosystem = d.ecosystem}

\* osv_advisory_matches_package
MatchesPackage(advisory, d) == MatchingEntries(advisory, d) # {}

\* Mutant: the fixes of every package the advisory affects.
AllFixes(advisory, d) == UNION {entry.fixed : entry \in advisory.affected}

\* extract_version_ranges
FixedVersions(advisory, d) == UNION {entry.fixed : entry \in MatchingEntries(advisory, d)}

\* normalize_osv_vulnerability
Normalized(advisory, d) ==
    [canonical |-> CanonicalId(advisory.source, advisory.aliases),
     source |-> advisory.source, aliases |-> advisory.aliases,
     ecosystem |-> d.ecosystem, name |-> d.name,
     urls |-> advisory.urls, other_urls |-> advisory.other_urls,
     severity |-> InferSeverity(advisory), fixed |-> FixedVersions(advisory, d)]

-----------------------------------------------------------------------------
(* Deduplication *)

\* identity_set, and task_identity_set
Identity(v) == ({v.canonical, v.source} \union v.aliases) \ {Unknown}

ShouldMerge(first, second) ==
    /\ first.name = second.name
    /\ first.ecosystem = second.ecosystem
    /\ \/ Identity(first) \intersect Identity(second) # {}
       \/ first.urls \intersect second.urls # {}

StrongerSeverity(first, second) ==
    IF SeverityOrder[first] >= SeverityOrder[second] THEN first ELSE second

\* dedupe_references: the first reference with a url is kept.
MergeVulnerabilities(first, second) ==
    LET aliases == (Identity(first) \union Identity(second)) \ {first.canonical}
    IN [first EXCEPT
          !.canonical = CanonicalId(@, aliases),
          !.source = IF @ # Unknown THEN @ ELSE second.source,
          !.aliases = aliases,
          !.severity = StrongerSeverity(@, second.severity),
          !.fixed = @ \union second.fixed,
          !.urls = @ \union (second.urls \ first.other_urls),
          !.other_urls = @ \union (second.other_urls \ first.urls)]

\* A vulnerability joins the first one before it that it should merge with.
AddVulnerability(deduped, v) ==
    LET matches == {i \in DOMAIN deduped : ShouldMerge(deduped[i], v)}
    IN IF matches = {} THEN Append(deduped, v)
       ELSE [deduped EXCEPT ![Min(matches)] = MergeVulnerabilities(@, v)]

SortsBefore(v, w) == v.name < w.name \/ (v.name = w.name /\ IdBefore(v.canonical, w.canonical))

\* deduplicate_vulnerabilities
DeduplicatedVulnerabilities(all) ==
    Sorted(FoldLeft(AddVulnerability, <<>>, all), SortsBefore)
=============================================================================
