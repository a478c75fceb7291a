--------------------------- MODULE MCScanPipeline ---------------------------
(* Instances of ScanPipeline small enough for TLC. *)
EXTENDS ScanPipeline

App == 1
Lib == 2
Tool == 3
MCNames == {App, Lib, Tool}

Version(parts, pre) == [parts |-> parts, pre |-> pre]
Short == Version(<<1, 2>>, <<>>)
V110 == Version(<<1, 1, 0>>, <<>>)
V120 == Version(<<1, 2, 0>>, <<>>)
V130 == Version(<<1, 3, 0>>, <<>>)
V200a == Version(<<2, 0, 0>>, <<1>>)
V200b == Version(<<2, 0, 0>>, <<2>>)
V200 == Version(<<2, 0, 0>>, <<>>)
MCVersions == {Short, V110, V120, V130, V200a, V200b, V200}
MCOddlyWritten == {V200b}

Cve == <<"CVE", 1>>
Cve2 == <<"CVE", 2>>
Cve3 == <<"CVE", 3>>
Ghsa == <<"GHSA", 4>>
Ghsa2 == <<"GHSA", 5>>
Mal == <<"MAL", 6>>
MCUnknown == <<"UNKNOWN", 7>>
MCAdvisoryIds == {Mal, Ghsa, Ghsa2, Cve, Cve2, Cve3, Unknown}

-----------------------------------------------------------------------------
Entry(path, version) ==
    [path |-> path, workspace |-> FALSE, version |-> version, dev |-> FALSE, peer |-> FALSE]
DevEntry(path, version) == [Entry(path, version) EXCEPT !.dev = TRUE]

Manifest(main, dev) ==
    [dependencies |-> main, devDependency |-> dev, peerDependency |-> {},
     optionalDependency |-> {}]

Node(manifest, kind, entries) ==
    [manifest |-> manifest, lock |-> [kind |-> kind, entries |-> entries],
     requirements |-> <<>>, sources |-> {}]

Requirement(name, pin, group) ==
    [name |-> name, pin |-> pin, spec |-> IF pin = None THEN "range" ELSE None,
     group |-> group, supported |-> TRUE]

\* One package direct and nested in one version, and with another's version.
TwoPaths == Node(Manifest({App}, {Lib}), "packages",
                 <<Entry(<<App>>, V110), Entry(<<App, Lib>>, V120), DevEntry(<<Lib>>, V120)>>)
TwoVersions == Node(Manifest({App}, {}), "packages",
                    <<Entry(<<App>>, V110), Entry(<<App, Lib>>, V200a), Entry(<<Lib>>, V120)>>)

\* The same package twice under one parent, once for development only, and in
\* a workspace of the repository.
SameKey == Node(Manifest({App}, {Tool}), "packages",
                <<Entry(<<App, Lib>>, V120), DevEntry(<<Tool, App, Lib>>, V120)>>)
Workspace == Node(Manifest({}, {Lib}), "packages",
                  <<Entry(<<Lib>>, V120), [Entry(<<Lib>>, V120) EXCEPT !.workspace = TRUE]>>)

\* An old lockfile; what a development tool needs.
OldLock == Node(Manifest({}, {Tool}), "dependencies",
                <<Entry(<<Lib>>, V120), DevEntry(<<Tool>>, V110), Entry(<<Tool, Lib>>, V200a)>>)

\* Declared, but installed only for another package, or with no version.
NotLocked == Node(Manifest({Lib, App}, {}), "packages",
                  <<Entry(<<App>>, V110), Entry(<<App, Lib>>, V120)>>)
NoVersion == Node(Manifest({App}, {}), "packages",
                  <<Entry(<<App>>, None), [Entry(<<Lib>>, Short) EXCEPT !.peer = TRUE],
                    Entry(<<Tool, Lib>>, V120)>>)

NoFiles == [manifest |-> None, lock |-> None, requirements |-> <<>>, sources |-> {}]

\* A Python package with the name of a Node package, pinned, unpinned and as
\* text that the parser does not support.
Mixed == [TwoVersions EXCEPT !.requirements =
            <<Requirement(Lib, V120, "dependencies"), Requirement(Lib, V120, "devDependency")>>]
Python == [NoFiles EXCEPT !.requirements =
             <<Requirement(Lib, V120, "optionalDependency"), Requirement(App, None, "dependencies"),
               [Requirement(Tool, None, "dependencies") EXCEPT !.supported = FALSE]>>]

Unreadable == {[NoFiles EXCEPT !.manifest = Invalid], [NoFiles EXCEPT !.requirements = Invalid],
               [TwoPaths EXCEPT !.lock = Invalid], [NoFiles EXCEPT !.lock = Invalid]}

Source(marks) == [marks |-> marks, quoted_imports |-> {Lib}]
MCSources == {{}, {Source({"production_dir"})},
              {Source({"production_dir", "test_file"}), Source({"entrypoint", "other_suffix"})}}

MCRepositories ==
    {[r EXCEPT !.sources = sources] :
       r \in {TwoPaths, TwoVersions, SameKey, Workspace, OldLock, NotLocked, NoVersion, Mixed,
              Python, [NotLocked EXCEPT !.lock = None]},
       sources \in MCSources}
    \union Unreadable

TwoVersionsOnly == {TwoVersions}

-----------------------------------------------------------------------------
Affects(name, fixed) == {[ecosystem |-> "npm", name |-> name, fixed |-> fixed]}

Advisory(source, aliases, stated, fixed) ==
    [source |-> source, aliases |-> aliases, urls |-> {}, other_urls |-> {},
     stated |-> stated, vectors |-> <<>>, affected |-> Affects(Lib, fixed)]

\* Advisories of three databases about one or two vulnerabilities of Lib, two
\* that only a shared url joins, one about another package, one about two
\* packages, one of two ecosystems, whose reference has the url with another type;
\* with fixes older, newer, oddly written, none.
MCAdvisories ==
    {Advisory(Mal, {Ghsa}, "CRITICAL", {}),
     Advisory(Ghsa, {Cve}, "LOW", {V110, V130, V200a}),
     [Advisory(Ghsa2, {Cve2}, None, {V130, V200}) EXCEPT
        !.vectors = <<None, "HIGH">>, !.affected = @ \union Affects(App, {V120})],
     [Advisory(Ghsa, {}, "MODERATE", {V200}) EXCEPT !.urls = {"u"}],
     [Advisory(Unknown, {Cve2}, None, {V130}) EXCEPT !.urls = {"u"}],
     [Advisory(Ghsa2, {}, "HIGH", {V130}) EXCEPT !.affected = Affects(App, {V130})],
     [Advisory(Cve3, {}, "HIGH", {V130, V200b, Short}) EXCEPT
        !.other_urls = {"u"}, !.affected = @ \union {[ecosystem |-> "PyPI", name |-> Lib, fixed |-> {V110}]}]}

Answers == {<<a>> : a \in MCAdvisories} \union {<<a, b>> : a, b \in MCAdvisories}

\* OSV knows something about Lib only, for one version of the Node package, and
\* for the other as for the Python package.
Database(first, second) ==
    [key \in {<<"npm", Lib, V120>>, <<"npm", Lib, V200a>>, <<"PyPI", Lib, V120>>} |->
       IF key = <<"npm", Lib, V120>> THEN first ELSE second]

\* Two advisories, and a third that has the ids of both as aliases; and so
\* with three and a fourth.
Chain ==
    Database(<<Advisory(Cve, {}, "CRITICAL", {}), Advisory(Cve2, {}, "HIGH", {V130}),
               Advisory(Ghsa, {Cve, Cve2}, "LOW", {})>>, <<>>)
Chains ==
    {Database(<<Advisory(Cve3, {}, "LOW", {}), Advisory(Cve, {}, "LOW", {}),
                Advisory(Cve2, {}, "LOW", {}),
                Advisory(Ghsa, {Cve, Cve2, Cve3}, "LOW", {})>>, <<>>)}

MCDatabases ==
    {Database(first, <<>>) : first \in Answers} \union
    {Database(<<a>>, second) : a \in MCAdvisories, second \in Answers} \union {Chain}

\* Two versions for which different databases answer.
PartialAnswers ==
    {Database(<<Advisory(Mal, {Ghsa}, "LOW", {})>>, <<Advisory(Ghsa, {Cve}, "LOW", {})>>)}
=============================================================================
