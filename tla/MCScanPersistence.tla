------------------------- MODULE MCScanPersistence -------------------------
(* Instances of ScanPersistence small enough for TLC. *)
EXTENDS ScanPersistence

CONSTANTS p1, s1, s2

Payments == <<"acme", "payments">>
Billing == <<"globex", "billing">>
MCRepos == {Payments, Billing}

Ghsa == <<"GHSA", 1>>
Cve == <<"CVE", 1>>
Cve2 == <<"CVE", 2>>

CrossingIds == {Cve, Cve2}
LearnedIds == {Ghsa, Cve}

Advisory(source, aliases) == [source |-> source, aliases |-> aliases, urls |-> <<"u">>]

Result(repo, packages, vulnerabilities, tasks) ==
    [repo |-> repo, packages |-> packages, vulnerabilities |-> vulnerabilities,
     tasks |-> tasks]

\* Two repositories of different owners whose results list two advisories in
\* opposite orders, and one result with a bad link.
Crossing ==
    {Result(Payments, <<p1>>, <<Advisory(Cve, <<>>), Advisory(Cve2, <<>>)>>, <<<<p1, Cve>>>>),
     Result(Billing, <<p1>>, <<Advisory(Cve2, <<>>), Advisory(Cve, <<>>)>>, <<<<p1, Cve>>>>),
     Result(Payments, <<p1>>, <<Advisory(Cve, <<>>)>>, <<<<p1, Cve2>>>>)}

NothingStored == {{}}

StoredAdvisories ==
    {Vulnerability(v) : v \in CrossingIds} \union {Alias(v, v) : v \in CrossingIds}
      \union {Reference(v, "u") : v \in CrossingIds}
StoredPackages == {Organization(Payments), Repo(Payments), Package(Payments, p1)}
StoredFinding == {PackageVuln(Payments, p1, Cve), Assessment(Payments, p1, Cve),
                  Task(Payments, p1, Cve)}

\* Nothing; a scan of Payments that found nothing, with the advisories another
\* repository's scan stored; or a scan of Payments that found the vulnerability.
MCInitialRows ==
    {{}, StoredPackages \union StoredAdvisories,
     StoredPackages \union StoredAdvisories \union StoredFinding}

\* The same advisory before and after the database learned its CVE id.
AliasLearned ==
    {Result(Payments, <<p1>>, <<Advisory(Ghsa, <<>>)>>, <<<<p1, Ghsa>>>>),
     Result(Payments, <<p1>>, <<Advisory(Ghsa, <<Cve>>)>>, <<<<p1, Cve>>>>)}
=============================================================================
