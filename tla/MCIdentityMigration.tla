------------------------ MODULE MCIdentityMigration ------------------------
(* Databases small enough for TLC, with an id or two left for sessions to use. *)
EXTENDS IdentityMigration, TLC

Repo == [Blank("repos") EXCEPT !.key = "k"]
Scan(repo) == [Blank("scans") EXCEPT !.repo = repo]
Embedded(repo) == [Blank("embeddings") EXCEPT !.repo = repo]
File(repo) == [Blank("repo_files") EXCEPT !.repo = repo]
Pack(repo) == [Blank("packages") EXCEPT !.repo = repo, !.key = "k"]
Found(package) == [Blank("package_vulnerabilities") EXCEPT !.package = package, !.key = "k"]
Assessed(finding) == [Blank("reachability_assessments") EXCEPT !.finding = finding]
Opened(repo, finding) ==
    [Blank("remediation_tasks") EXCEPT !.repo = repo, !.finding = finding, !.status = "open"]
Settled(repo, finding) == [Opened(repo, finding) EXCEPT !.status = "approved"]
Approval(task) == [Blank("human_approvals") EXCEPT !.task = task]
Alias == [Blank("vulnerability_aliases") EXCEPT !.key = "k"]

\* One finding stored twice from the repository down, with tasks that are open
\* or decided; a finding stored twice below one package; and leaves.
Twice(first, second) ==
    (2 :> Repo) @@ (3 :> Pack(2)) @@ (4 :> Found(3)) @@ (5 :> first) @@
    (6 :> Repo) @@ (7 :> Pack(6)) @@ (8 :> Found(7)) @@ (9 :> second)

MCInitialDatabases ==
    {Twice(Opened(2, 4), Opened(6, 8)),
     Twice(Settled(2, 4), Opened(6, 8)) @@ (10 :> Approval(5)),
     Twice(Settled(2, 4), Settled(6, 8)) @@ (10 :> Approval(5)),
     Twice(Assessed(4), Assessed(8)) @@ (10 :> Opened(6, 8)),
     Twice(Scan(2), Embedded(6)) @@ (10 :> File(6)),
     (2 :> Repo) @@ (3 :> Pack(2)) @@ (4 :> Found(3)) @@ (5 :> Found(3)) @@
       (6 :> Opened(2, 4)) @@ (7 :> Opened(2, 5)) @@ (8 :> Approval(7)) @@
       (9 :> Alias) @@ (10 :> Alias)}

MCKeys == {"k"}
=============================================================================
