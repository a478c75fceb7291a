---------------------------- MODULE Reachability ----------------------------
(***************************************************************************)
(* reachability.py: whether code of the repository imports a package.  A   *)
(* source file has marks for what its path says of it, and in place of its *)
(* text the packages whose names follow from, require( or import( in       *)
(* quotes.  No Python import is written so, nor is import 'x'.             *)
(* Dockerfiles, routes, owners and confidence are evidence alone and left  *)
(* out.                                                                    *)
(***************************************************************************)
EXTENDS DependencyParser

\* skipped: under one of SKIP_DIRS, a link out of the repository or not decodable;
\* other_suffix: not among SOURCE_SUFFIXES, those of JavaScript and TypeScript.
Marks == {"skipped", "other_suffix", "non_production_dir", "test_file", "entrypoint",
          "production_dir"}

SourceFiles == [marks : SUBSET Marks, quoted_imports : SUBSET Names]

IsProductionSource(file) ==
    /\ file.marks \intersect {"non_production_dir", "test_file"} = {}
    /\ file.marks \intersect {"entrypoint", "production_dir"} # {}

\* iter_source_files
IsRead(file) == file.marks \intersect {"skipped", "other_suffix"} = {}

\* find_imports
ImportHits(sources, name) ==
    {file \in sources : IsRead(file) /\ name \in file.quoted_imports}

\* Mutant: where it is imported does not matter for a development dependency.
DevelopmentFirst(sources, d) ==
    IF d.dependency_type = "devDependency"
    THEN [reachability |-> "unlikely_reachable", runtime_scope |-> "development"]
    ELSE IF \E file \in ImportHits(sources, d.name) : IsProductionSource(file)
    THEN [reachability |-> "possibly_reachable", runtime_scope |-> "production"]
    ELSE [reachability |-> "unknown",
          runtime_scope |-> IF d.is_direct THEN "production" ELSE "unknown"]

\* analyze_reachability: a package of either ecosystem is looked for by name.
AnalyzeReachability(sources, d) ==
    IF \E file \in ImportHits(sources, d.name) : IsProductionSource(file)
    THEN [reachability |-> "possibly_reachable", runtime_scope |-> "production"]
    ELSE IF d.dependency_type = "devDependency"
    THEN [reachability |-> "unlikely_reachable", runtime_scope |-> "development"]
    ELSE [reachability |-> "unknown",
          runtime_scope |-> IF d.is_direct THEN "production" ELSE "unknown"]
=============================================================================
