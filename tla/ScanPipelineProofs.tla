------------------------- MODULE ScanPipelineProofs -------------------------
(***************************************************************************)
(* The invariants of a scan, for any repositories, any answers of OSV and  *)
(* any failures, from one inductive invariant: the packages are what the   *)
(* parser lists, answers and cache are what OSV knows, and every task      *)
(* built so far is sound on its own (FoundTasks of ScanDataProofs, which   *)
(* merging does not leave).                                                *)
(***************************************************************************)
EXTENDS ScanDataProofs, TLAPS

\* The answer to a dependency, which says of each advisory on it that is severe,
\* unless the package is for development, that there is a task not deferred.
SevereIn(advisory, d) == MatchesPackage(advisory, d) /\ Severe(InferSeverity(advisory))

SourcesUsed ==
    /\ repository \in Repositories /\ osv \in Databases
    /\ pc \in {"idle", "failed"} => packages = <<>> /\ built = <<>>
    /\ pc \in {"scanning", "done"} =>
         Readable(repository) /\ packages = ParseDependencies(repository)
    /\ packages \in Seq(Listed)
    /\ pc = "done" => looked_up = Len(packages)

\* What is cached is what OSV knows.
CacheTrue ==
    \A key \in DOMAIN cache :
      cache[key] = Known(osv, [ecosystem |-> key[1], name |-> key[2], version |-> key[3]])

AnswersTrue ==
    /\ answers \in Seq(Seq(Advisories) \union {None})
    /\ \A i \in 1 .. looked_up : answers[i] # None =>
         packages[i].version # None /\ answers[i] = Known(osv, packages[i])
    /\ error_count = 0 => \A i \in 1 .. looked_up : answers[i] # None

TasksFound ==
    /\ built \in Seq(FoundTasks(osv, Range(packages)))
    /\ tasks = IF pc = "done" THEN DeduplicatedTasks(built) ELSE built

SevereFound ==
    \A i \in 1 .. looked_up : answers[i] # None =>
      \A advisory \in Range(answers[i]) :
        SevereIn(advisory, packages[i]) /\ ~ ForDevelopment(packages[i]) =>
          \E k \in DOMAIN built : SamePackage(built[k], packages[i]) /\ built[k].rank \in 0 .. 3

IInv == TypeOK /\ SourcesUsed /\ CacheTrue /\ AnswersTrue /\ TasksFound /\ SevereFound

-----------------------------------------------------------------------------
(* Facts of a state *)

LEMMA PackagesListed ==
    ASSUME IInv
    PROVE  /\ Len(packages) \in Nat /\ DOMAIN packages = 1 .. Len(packages)
           /\ \A i \in DOMAIN packages : packages[i] \in Listed
           /\ Range(packages) \in SUBSET Listed
           /\ looked_up \in Nat /\ looked_up <= Len(packages)
           /\ Len(answers) = looked_up /\ DOMAIN answers = 1 .. looked_up
<1>1. packages \in Seq(Listed) /\ looked_up \in 0 .. Len(packages)
  BY DEF IInv, SourcesUsed, TypeOK
<1>2. /\ Len(packages) \in Nat /\ DOMAIN packages = 1 .. Len(packages)
      /\ \A i \in DOMAIN packages : packages[i] \in Listed
  BY <1>1, LenProperties, ElementOfSeq
<1>3. Range(packages) \in SUBSET Listed
  BY <1>2 DEF Range
<1>4. answers \in Seq(Seq(Advisories) \union {None}) /\ Len(answers) = looked_up
  BY DEF IInv, AnswersTrue, TypeOK
<1>5. DOMAIN answers = 1 .. looked_up
  BY <1>4, LenProperties
<1> QED
  BY <1>1, <1>2, <1>3, <1>4, <1>5

\* The dependency whose turn it is.
LEMMA DependencyListed ==
    ASSUME IInv, Looping
    PROVE  /\ looked_up + 1 \in DOMAIN packages
           /\ Dependency = packages[looked_up + 1]
           /\ Dependency \in Listed /\ Dependency \in Dependencies
           /\ Dependency \in Range(packages)
<1>1. looked_up + 1 \in DOMAIN packages
  BY PackagesListed DEF Looping
<1>2. Dependency \in Listed /\ Dependency \in Range(packages)
  BY <1>1, PackagesListed DEF Dependency, Range
<1> QED
  BY <1>1, <1>2 DEF Dependency, Listed

\* What is appended to the answers.
LEMMA AnswersAppended ==
    ASSUME IInv, Looping, NEW answer \in Seq(Advisories) \union {None},
           answers' = Append(answers, answer), looked_up' = looked_up + 1
    PROVE  /\ answers' \in Seq(Seq(Advisories) \union {None})
           /\ Len(answers') = looked_up'
           /\ looked_up' \in 0 .. Len(packages)
           /\ answers'[looked_up + 1] = answer
           /\ \A i \in 1 .. looked_up : answers'[i] = answers[i]
           /\ \A i \in 1 .. looked_up' : i \in 1 .. looked_up \/ i = looked_up + 1
<1>1. /\ answers \in Seq(Seq(Advisories) \union {None})
      /\ Len(answers) = looked_up /\ looked_up \in Nat
      /\ Len(packages) \in Nat /\ looked_up < Len(packages)
  BY PackagesListed DEF IInv, AnswersTrue, Looping
<1> DEFINE X == Seq(Advisories) \union {None}
<1> HIDE DEF X
<1>2. /\ answers' \in Seq(X)
      /\ Len(answers') = looked_up + 1
      /\ answers'[looked_up + 1] = answer
      /\ \A i \in 1 .. looked_up : answers'[i] = answers[i]
  BY <1>1, AppendProperties DEF X
<1>3. looked_up' \in 0 .. Len(packages)
  BY <1>1
<1>4. \A i \in 1 .. looked_up' : i \in 1 .. looked_up \/ i = looked_up + 1
  BY <1>1
<1> QED
  BY <1>2, <1>3, <1>4 DEF X

-----------------------------------------------------------------------------
(* The steps *)

LEMMA InitSound == Init => IInv
<1> SUFFICES ASSUME Init PROVE IInv
  OBVIOUS
<1>1. /\ pc = "idle" /\ repository \in Repositories /\ osv \in Databases
      /\ packages = <<>> /\ looked_up = 0 /\ cache = <<>> /\ vulnerabilities = <<>>
      /\ tasks = <<>> /\ error_count = 0 /\ answers = <<>> /\ built = <<>>
  BY DEF Init
<1>2. DOMAIN cache = {}
  BY <1>1
<1>3. \A i \in 1 .. looked_up : FALSE
  BY <1>1
<1>4. TypeOK
  BY <1>1, <1>2 DEF TypeOK
<1>5. SourcesUsed
  BY <1>1 DEF SourcesUsed
<1>6. CacheTrue
  BY <1>2 DEF CacheTrue
<1>7. AnswersTrue
  BY <1>1, <1>3 DEF AnswersTrue
<1>8. TasksFound
  BY <1>1 DEF TasksFound
<1>9. SevereFound
  BY <1>3 DEF SevereFound
<1> QED
  BY <1>4, <1>5, <1>6, <1>7, <1>8, <1>9 DEF IInv

LEMMA BeginSound ==
    ASSUME IInv, Begin
    PROVE  IInv'
<1>1. /\ pc = "idle" /\ pc' = "scanning" /\ Readable(repository)
      /\ packages' = ParseDependencies(repository)
      /\ repository' = repository /\ osv' = osv /\ looked_up' = looked_up /\ cache' = cache
      /\ vulnerabilities' = vulnerabilities /\ tasks' = tasks
      /\ error_count' = error_count /\ answers' = answers /\ built' = built
  BY DEF Begin, on_disk
<1>2. /\ repository \in Repositories /\ osv \in Databases
      /\ packages = <<>> /\ built = <<>> /\ tasks = <<>>
  BY <1>1 DEF IInv, SourcesUsed, TasksFound
<1>3. looked_up = 0
  <2>1. Len(packages) = 0
    BY <1>2
  <2> QED
    BY <2>1 DEF IInv, TypeOK
<1>4. packages' \in Seq(Listed)
  BY <1>1, <1>2, ParsedListed
<1>5. packages' \in Seq(Dependencies) /\ looked_up' \in 0 .. Len(packages')
  <2>1. packages' \in Seq(Dependencies)
    BY <1>4, SeqMonotonic DEF Listed
  <2>2. Len(packages') \in Nat
    BY <1>4, LenProperties
  <2> QED
    BY <1>1, <1>3, <2>1, <2>2
<1>6. \A i \in 1 .. looked_up' : FALSE
  BY <1>1, <1>3
<1>7. TypeOK'
  BY <1>1, <1>5 DEF IInv, TypeOK
<1>8. SourcesUsed'
  BY <1>1, <1>2, <1>4 DEF SourcesUsed
<1>9. CacheTrue'
  BY <1>1 DEF IInv, CacheTrue
<1>10. AnswersTrue'
  BY <1>1, <1>6 DEF IInv, AnswersTrue
<1>11. TasksFound'
  BY <1>1, <1>2 DEF TasksFound
<1>12. SevereFound'
  BY <1>6 DEF SevereFound
<1> QED
  BY <1>7, <1>8, <1>9, <1>10, <1>11, <1>12 DEF IInv

LEMMA ParseFailsSound ==
    ASSUME IInv, ParseFails
    PROVE  IInv'
<1>1. /\ pc = "idle" /\ pc' = "failed"
      /\ repository' = repository /\ osv' = osv /\ packages' = packages
      /\ looked_up' = looked_up /\ cache' = cache /\ vulnerabilities' = vulnerabilities
      /\ tasks' = tasks /\ error_count' = error_count /\ answers' = answers /\ built' = built
  BY DEF ParseFails, on_disk
<1>2. TypeOK'
  BY <1>1 DEF IInv, TypeOK
<1>3. SourcesUsed'
  BY <1>1 DEF IInv, SourcesUsed
<1>4. CacheTrue'
  BY <1>1 DEF IInv, CacheTrue
<1>5. AnswersTrue'
  BY <1>1 DEF IInv, AnswersTrue
<1>6. TasksFound'
  BY <1>1 DEF IInv, TasksFound
<1>7. SevereFound'
  BY <1>1 DEF IInv, SevereFound, ForDevelopment
<1> QED
  BY <1>2, <1>3, <1>4, <1>5, <1>6, <1>7 DEF IInv

\* A dependency that is not looked up, whatever the reason, is counted.
LEMMA UnansweredSound ==
    ASSUME IInv, Looping, error_count' = error_count + 1, looked_up' = looked_up + 1,
           answers' = Append(answers, None),
           UNCHANGED <<pc, on_disk, packages, cache, vulnerabilities, tasks, built>>
    PROVE  IInv'
<1>1. /\ pc = "scanning" /\ pc' = pc /\ repository' = repository /\ osv' = osv
      /\ packages' = packages /\ cache' = cache /\ vulnerabilities' = vulnerabilities
      /\ tasks' = tasks /\ built' = built
  BY DEF Looping, on_disk
<1>2. /\ answers' \in Seq(Seq(Advisories) \union {None})
      /\ Len(answers') = looked_up'
      /\ looked_up' \in 0 .. Len(packages)
      /\ answers'[looked_up + 1] = None
      /\ \A i \in 1 .. looked_up : answers'[i] = answers[i]
      /\ \A i \in 1 .. looked_up' : i \in 1 .. looked_up \/ i = looked_up + 1
  BY AnswersAppended
<1>3. error_count' \in Nat /\ error_count' # 0
  BY DEF IInv, TypeOK
<1>4. TypeOK'
  BY <1>1, <1>2, <1>3 DEF IInv, TypeOK
<1>5. SourcesUsed'
  BY <1>1 DEF IInv, SourcesUsed
<1>6. CacheTrue'
  BY <1>1 DEF IInv, CacheTrue
<1>7. AnswersTrue'
  BY <1>1, <1>2, <1>3 DEF IInv, AnswersTrue
<1>8. TasksFound'
  BY <1>1 DEF IInv, TasksFound
<1>9. SevereFound'
  BY <1>1, <1>2 DEF IInv, SevereFound, ForDevelopment
<1> QED
  BY <1>4, <1>5, <1>6, <1>7, <1>8, <1>9 DEF IInv

\* What is asked, whether it is in the cache or not, is answered with what OSV
\* knows.
LEMMA AnswerKnown ==
    ASSUME IInv, NEW d
    PROVE  (IF CacheKey(d) \in DOMAIN cache THEN cache[CacheKey(d)] ELSE Known(osv, d))
             = Known(osv, d)
<1> DEFINE key == CacheKey(d)
           asked == [ecosystem |-> key[1], name |-> key[2], version |-> key[3]]
<1>1. Known(osv, asked) = Known(osv, d)
  BY DEF Known, CacheKey
<1> HIDE DEF asked
<1>2. key \in DOMAIN cache => cache[key] = Known(osv, asked)
  BY DEF IInv, CacheTrue, asked
<1> QED
  BY <1>1, <1>2

\* What a step that answers does, in the terms of ScanDataProofs.
LEMMA AnswerStep ==
    ASSUME IInv, QueryAnswers
    PROVE  LET d == Dependency
               raw == Known(osv, d)
               outputs == TasksOf(d, Found(raw, d), repository.sources)
           IN /\ Looping /\ d.version # None
              /\ cache' = [k \in DOMAIN cache \union {CacheKey(d)} |->
                             IF k = CacheKey(d) THEN raw ELSE cache[k]]
              /\ error_count' = error_count + (Len(raw) - Len(Matching(raw, d)))
              /\ vulnerabilities' = vulnerabilities \o Found(raw, d)
              /\ tasks' = tasks \o outputs /\ built' = built \o outputs
              /\ looked_up' = looked_up + 1 /\ answers' = Append(answers, raw)
              /\ pc' = pc /\ repository' = repository /\ osv' = osv /\ packages' = packages
<1> DEFINE d == Dependency
           asked == IF CacheKey(d) \in DOMAIN cache THEN cache[CacheKey(d)] ELSE Known(osv, d)
           outputs == TasksOf(d, Found(asked, d), repository.sources)
<1>1. /\ Looping /\ d.version # None
      /\ cache' = [k \in DOMAIN cache \union {CacheKey(d)} |->
                     IF k = CacheKey(d) THEN asked ELSE cache[k]]
      /\ error_count' = error_count + (Len(asked) - Len(Matching(asked, d)))
      /\ vulnerabilities' = vulnerabilities \o Found(asked, d)
      /\ tasks' = tasks \o outputs /\ built' = built \o outputs
      /\ looked_up' = looked_up + 1 /\ answers' = Append(answers, asked)
      /\ pc' = pc /\ repository' = repository /\ osv' = osv /\ packages' = packages
  BY DEF QueryAnswers, Matching, Found, on_disk
<1>2. asked = Known(osv, d)
  BY AnswerKnown
<1> QED
  BY <1>1, <1>2

LEMMA QueryAnswersSound ==
    ASSUME IInv, QueryAnswers
    PROVE  IInv'
<1> DEFINE d == Dependency
           raw == Known(osv, d)
           deduped == Found(raw, d)
           outputs == TasksOf(d, deduped, repository.sources)
           G == FoundTasks(osv, Range(packages))
<1>1. /\ Looping /\ d.version # None
      /\ cache' = [k \in DOMAIN cache \union {CacheKey(d)} |->
                     IF k = CacheKey(d) THEN raw ELSE cache[k]]
      /\ error_count' = error_count + (Len(raw) - Len(Matching(raw, d)))
      /\ vulnerabilities' = vulnerabilities \o deduped
      /\ tasks' = tasks \o outputs /\ built' = built \o outputs
      /\ looked_up' = looked_up + 1 /\ answers' = Append(answers, raw)
      /\ pc' = pc /\ repository' = repository /\ osv' = osv /\ packages' = packages
  BY AnswerStep
<1>2. /\ looked_up + 1 \in DOMAIN packages /\ d = packages[looked_up + 1]
      /\ d \in Listed /\ d \in Dependencies /\ d \in Range(packages)
  BY <1>1, DependencyListed
<1>3. Range(packages) \in SUBSET Listed /\ looked_up \in Nat
  BY PackagesListed
<1>4. pc = "scanning" /\ pc' = "scanning"
  BY <1>1 DEF Looping
<1>5. osv \in Databases
  BY DEF IInv, SourcesUsed
<1> HIDE DEF d
<1>6. raw \in Seq(Advisories)
  BY <1>5, KnownTyped
<1>7. /\ Len(Matching(raw, d)) \in Nat /\ Len(Matching(raw, d)) <= Len(raw)
      /\ deduped \in Seq(VulnerabilitiesOf(d, FixesKnown(osv, d)))
      /\ \A advisory \in Range(raw) :
           MatchesPackage(advisory, d) /\ Severe(InferSeverity(advisory)) => SomeSevere(deduped)
  <2> HIDE DEF raw
  <2>1. /\ Len(Matching(raw, d)) \in Nat /\ Len(Matching(raw, d)) <= Len(raw)
        /\ deduped \in Seq(VulnerabilitiesOf(d, FixesIn(raw, d)))
        /\ \A advisory \in Range(raw) :
             MatchesPackage(advisory, d) /\ Severe(InferSeverity(advisory)) => SomeSevere(deduped)
    BY <1>2, <1>6, FoundTyped
  <2>2. FixesIn(raw, d) = FixesKnown(osv, d)
    BY DEF FixesKnown, raw
  <2> QED
    BY <2>1, <2>2
<1> HIDE DEF raw, deduped
<1>8. /\ outputs \in Seq(G)
      /\ SomeSevere(deduped) /\ Matters(AnalyzeReachability(repository.sources, d))
           => \E i \in DOMAIN outputs :
                SamePackage(outputs[i], d) /\ outputs[i].rank \in 0 .. 3
  BY <1>1, <1>2, <1>3, <1>5, <1>7, TasksOfFound
<1> HIDE DEF outputs, G
<1>9. /\ answers' \in Seq(Seq(Advisories) \union {None})
      /\ Len(answers') = looked_up'
      /\ looked_up' \in 0 .. Len(packages)
      /\ answers'[looked_up + 1] = raw
      /\ \A i \in 1 .. looked_up : answers'[i] = answers[i]
      /\ \A i \in 1 .. looked_up' : i \in 1 .. looked_up \/ i = looked_up + 1
  BY <1>1, <1>6, AnswersAppended
<1>10. /\ built \in Seq(G) /\ tasks = built /\ built' \in Seq(G) /\ tasks' = built'
       /\ \A k \in DOMAIN built : k \in DOMAIN built' /\ built'[k] = built[k]
       /\ \A k \in DOMAIN outputs : \E j \in DOMAIN built' : built'[j] = outputs[k]
  <2>1. built \in Seq(G) /\ tasks = built
    BY <1>4 DEF IInv, TasksFound, G
  <2>2. /\ Len(built) \in Nat /\ Len(outputs) \in Nat
        /\ DOMAIN built = 1 .. Len(built) /\ DOMAIN outputs = 1 .. Len(outputs)
    BY <1>8, <2>1, LenProperties
  <2>3. /\ built \o outputs \in Seq(G)
        /\ Len(built \o outputs) = Len(built) + Len(outputs)
        /\ \A k \in 1 .. Len(built) : (built \o outputs)[k] = built[k]
        /\ \A k \in 1 .. Len(outputs) : (built \o outputs)[Len(built) + k] = outputs[k]
    BY <1>8, <2>1, <2>2
  <2>4. DOMAIN (built \o outputs) = 1 .. Len(built) + Len(outputs)
    BY <2>3, LenProperties
  <2>5. ASSUME NEW k \in 1 .. Len(outputs)
        PROVE  Len(built) + k \in 1 .. Len(built) + Len(outputs)
    BY <2>2
  <2>6. ASSUME NEW k \in 1 .. Len(built)
        PROVE  k \in 1 .. Len(built) + Len(outputs)
    BY <2>2
  <2> QED
    BY <1>1, <2>1, <2>2, <2>3, <2>4, <2>5, <2>6
<1>11. TypeOK'
  <2>1. error_count' \in Nat
    <3>1. Len(raw) \in Nat /\ error_count \in Nat
      BY <1>6, LenProperties DEF IInv, TypeOK
    <3> QED
      BY <1>1, <1>7, <3>1
  <2>2. CacheKey(d) \in Packages
    BY <1>1, <1>2 DEF CacheKey, Packages, Dependencies
  <2>3. DOMAIN cache' \subseteq Packages
    BY <1>1, <2>2 DEF IInv, TypeOK
  <2>4. vulnerabilities' \in Seq(Vulnerabilities)
    <3>1. deduped \in Seq(Vulnerabilities)
      BY <1>7, SeqMonotonic DEF VulnerabilitiesOf
    <3>2. vulnerabilities \in Seq(Vulnerabilities)
      BY DEF IInv, TypeOK
    <3> QED
      BY <1>1, <3>1, <3>2
  <2>5. tasks' \in Seq(Tasks)
    BY <1>10, SeqMonotonic DEF G, FoundTasks
  <2>6. packages' \in Seq(Dependencies) /\ looked_up' \in 0 .. Len(packages')
    BY <1>1, <1>9 DEF IInv, TypeOK
  <2> QED
    BY <1>4, <1>9, <2>1, <2>3, <2>4, <2>5, <2>6 DEF TypeOK
<1>12. SourcesUsed'
  BY <1>1, <1>4 DEF IInv, SourcesUsed
<1>13. CacheTrue'
  <2>1. raw = Known(osv, [ecosystem |-> CacheKey(d)[1], name |-> CacheKey(d)[2],
                          version |-> CacheKey(d)[3]])
    BY DEF raw, Known, CacheKey
  <2>2. ASSUME NEW key \in DOMAIN cache'
        PROVE  cache'[key] =
                 Known(osv', [ecosystem |-> key[1], name |-> key[2], version |-> key[3]])
    <3>1. CASE key = CacheKey(d)
      BY <1>1, <2>1, <3>1
    <3>2. CASE key # CacheKey(d)
      BY <1>1, <2>2, <3>2 DEF IInv, CacheTrue
    <3> QED
      BY <3>1, <3>2
  <2> QED
    BY <2>2 DEF CacheTrue
<1>14. AnswersTrue'
  <2>1. raw # None
    BY <1>6, PipelineAssumption
  <2>2. error_count' = 0 => error_count = 0
    <3>1. Len(raw) \in Nat /\ error_count \in Nat
      BY <1>6, LenProperties DEF IInv, TypeOK
    <3> QED
      BY <1>1, <1>7, <3>1
  <2>3. ASSUME NEW i \in 1 .. looked_up', answers'[i] # None
        PROVE  packages'[i].version # None /\ answers'[i] = Known(osv', packages'[i])
    <3>1. CASE i \in 1 .. looked_up
      BY <1>1, <1>9, <2>3, <3>1 DEF IInv, AnswersTrue
    <3>2. CASE i = looked_up + 1
      BY <1>1, <1>2, <1>9, <3>2 DEF raw
    <3> QED
      BY <1>9, <3>1, <3>2
  <2>4. ASSUME error_count' = 0, NEW i \in 1 .. looked_up'
        PROVE  answers'[i] # None
    BY <1>9, <2>1, <2>2, <2>4 DEF IInv, AnswersTrue
  <2> QED
    BY <1>9, <2>3, <2>4 DEF AnswersTrue
<1>15. TasksFound'
  BY <1>1, <1>4, <1>10 DEF TasksFound, G
<1>16. SevereFound'
  <2>1. ASSUME NEW i \in 1 .. looked_up', answers'[i] # None,
               NEW advisory \in Range(answers'[i]),
               SevereIn(advisory, packages[i]), ~ ForDevelopment(packages[i])
        PROVE  \E k \in DOMAIN built' :
                 SamePackage(built'[k], packages[i]) /\ built'[k].rank \in 0 .. 3
    <3>1. CASE i \in 1 .. looked_up
      <4>1. answers[i] # None /\ advisory \in Range(answers[i])
        BY <1>9, <2>1, <3>1
      <4>2. PICK k \in DOMAIN built :
              SamePackage(built[k], packages[i]) /\ built[k].rank \in 0 .. 3
        BY <2>1, <3>1, <4>1 DEF IInv, SevereFound
      <4> QED
        BY <1>10, <4>2
    <3>2. CASE i = looked_up + 1
      <4>1. d = packages[i] /\ advisory \in Range(raw)
        BY <1>2, <1>9, <2>1, <3>2
      <4>2. SomeSevere(deduped)
        BY <1>7, <2>1, <4>1 DEF SevereIn
      <4>3. Matters(AnalyzeReachability(repository.sources, d))
        BY <2>1, <4>1, OthersMatter DEF ForDevelopment, OnlyForDevelopment
      <4>4. PICK k \in DOMAIN outputs : SamePackage(outputs[k], d) /\ outputs[k].rank \in 0 .. 3
        BY <1>8, <4>2, <4>3
      <4> QED
        BY <1>10, <4>1, <4>4
    <3> QED
      BY <1>9, <3>1, <3>2
  <2>2. \A i \in 1 .. looked_up' : ForDevelopment(packages[i]) => ForDevelopment(packages[i])'
    BY <1>1 DEF ForDevelopment
  <2> QED
    BY <1>1, <2>1, <2>2 DEF SevereFound
<1> QED
  BY <1>11, <1>12, <1>13, <1>14, <1>15, <1>16 DEF IInv

LEMMA FinishSound ==
    ASSUME IInv, Finish
    PROVE  IInv'
<1> DEFINE G == FoundTasks(osv, Range(packages))
<1>1. /\ pc = "scanning" /\ pc' = "done" /\ looked_up = Len(packages)
      /\ vulnerabilities' = DeduplicatedVulnerabilities(vulnerabilities)
      /\ tasks' = DeduplicatedTasks(tasks)
      /\ repository' = repository /\ osv' = osv /\ packages' = packages
      /\ looked_up' = looked_up /\ cache' = cache
      /\ error_count' = error_count /\ answers' = answers /\ built' = built
  BY DEF Finish, on_disk
<1>2. built \in Seq(G) /\ tasks = built
  BY <1>1 DEF IInv, TasksFound
<1>3. tasks' \in Seq(G)
  <2>1. TaskMergeClosed(G)
    BY PackagesListed, FoundTasksClosed
  <2> HIDE DEF G
  <2> QED
    BY <1>1, <1>2, <2>1, TaskDeduplicationKeeps
<1>4. TypeOK'
  <2>1. tasks' \in Seq(Tasks)
    BY <1>3, SeqMonotonic DEF FoundTasks
  <2>2. vulnerabilities' \in Seq(Vulnerabilities)
    BY <1>1, ClosedSets, DeduplicationKeeps DEF IInv, TypeOK
  <2> QED
    BY <1>1, <2>1, <2>2 DEF IInv, TypeOK
<1>5. SourcesUsed'
  BY <1>1 DEF IInv, SourcesUsed
<1>6. CacheTrue'
  BY <1>1 DEF IInv, CacheTrue
<1>7. AnswersTrue'
  BY <1>1 DEF IInv, AnswersTrue
<1>8. TasksFound'
  BY <1>1, <1>2 DEF TasksFound
<1>9. SevereFound'
  BY <1>1 DEF IInv, SevereFound, ForDevelopment
<1> QED
  BY <1>4, <1>5, <1>6, <1>7, <1>8, <1>9 DEF IInv

LEMMA StepSound ==
    ASSUME IInv, [Next]_vars
    PROVE  IInv'
<1>1. CASE Begin
  BY <1>1, BeginSound
<1>2. CASE ParseFails
  BY <1>2, ParseFailsSound
<1>3. CASE SkipUnversioned
  BY <1>3, UnansweredSound DEF SkipUnversioned
<1>4. CASE QueryFails
  BY <1>4, UnansweredSound DEF QueryFails
<1>5. CASE QueryAnswers
  BY <1>5, QueryAnswersSound
<1>6. CASE Finish
  BY <1>6, FinishSound
<1>7. CASE UNCHANGED vars
  BY <1>7 DEF vars, IInv, TypeOK, SourcesUsed, CacheTrue, AnswersTrue, TasksFound,
              SevereFound, ForDevelopment
<1> QED
  BY <1>1, <1>2, <1>3, <1>4, <1>5, <1>6, <1>7 DEF Next

-----------------------------------------------------------------------------
(* The theorems *)

\* The inductive invariant holds in every state of a scan.
THEOREM ScanSound == Spec => []IInv
<1>1. Init => IInv
  BY InitSound
<1>2. IInv /\ [Next]_vars => IInv'
  BY StepSound
<1> QED
  BY <1>1, <1>2, PTL DEF Spec

\* The variables of a scan keep their types: also what parsing, normalising,
\* planning, scoring and merging return, for every repository and database.
THEOREM ScanTyped == Spec => []TypeOK
<1>1. IInv => TypeOK
  BY DEF IInv
<1> QED
  BY <1>1, ScanSound, PTL

\* The tasks of every state are such as merging and planning may come to.
LEMMA AllTasksFound ==
    ASSUME IInv
    PROVE  /\ \A t \in Range(tasks) : t \in FoundTasks(osv, Range(packages))
           /\ \A b \in Range(built) : b \in FoundTasks(osv, Range(packages))
           /\ pc = "done" => \A b \in Range(built) : \E t \in Range(tasks) : Covers(t, b)
<1> DEFINE G == FoundTasks(osv, Range(packages))
<1>1. built \in Seq(G) /\ tasks = IF pc = "done" THEN DeduplicatedTasks(built) ELSE built
  BY DEF IInv, TasksFound
<1>2. TaskMergeClosed(G)
  BY PackagesListed, FoundTasksClosed
<1> HIDE DEF G
<1>3. /\ DeduplicatedTasks(built) \in Seq(G)
      /\ \A i \in DOMAIN built : Covered(DeduplicatedTasks(built), built[i])
  BY <1>1, <1>2, TaskDeduplicationKeeps
<1>4. tasks \in Seq(G)
  BY <1>1, <1>3
<1>5. \A t \in Range(tasks) : t \in G
  BY <1>4, LenProperties, ElementOfSeq DEF Range
<1>6. \A b \in Range(built) : b \in G
  BY <1>1, LenProperties, ElementOfSeq DEF Range
<1>7. pc = "done" => \A b \in Range(built) : \E t \in Range(tasks) : Covers(t, b)
  BY <1>1, <1>3 DEF Covered, Range
<1> QED
  BY <1>5, <1>6, <1>7 DEF G

\* PrioritiesKept: merging loses no package and lowers no priority or score,
\* however many tasks are merged with each other and in whatever order.
THEOREM MergingKeepsPriorities == Spec => []PrioritiesKept
<1>1. IInv => PrioritiesKept
  BY AllTasksFound DEF PrioritiesKept, Covers
<1> QED
  BY <1>1, ScanSound, PTL

\* TasksPassQualityGate: what planner, scoring and merging come to passes the
\* checks of the report validator, which reads versions on its own, but for the
\* targets that it cannot read.
THEOREM TasksPassTheGate == Spec => []TasksPassQualityGate
<1>1. IInv => TasksPassQualityGate
  BY AllTasksFound DEF TasksPassQualityGate, FoundTasks, PassesGate
<1> QED
  BY <1>1, ScanSound, PTL

\* TargetsAreFixes: a target is a fix that an advisory names for that package.
THEOREM TargetsAreNamedFixes == Spec => []TargetsAreFixes
<1>1. ASSUME IInv
      PROVE  TargetsAreFixes
  <2>1. ASSUME NEW t \in Range(tasks), t.target # None
        PROVE  /\ t.target \in t.fixed
               /\ \E advisory \in Range(Known(osv, t)) : \E entry \in advisory.affected :
                    /\ entry.name = t.name /\ entry.ecosystem = t.ecosystem
                    /\ t.target \in entry.fixed
    <3>1. t \in FoundTasks(osv, Range(packages))
      BY <1>1, AllTasksFound
    <3>2. t.target \in t.fixed /\ t.target \in FixesKnown(osv, t)
      BY <2>1, <3>1 DEF FoundTasks
    <3>3. PICK advisory \in Range(Known(osv, t)) : t.target \in FixedVersions(advisory, t)
      BY <3>2 DEF FixesKnown, FixesIn
    <3>4. \E entry \in advisory.affected :
            /\ entry.name = t.name /\ entry.ecosystem = t.ecosystem
            /\ t.target \in entry.fixed
      BY <3>3 DEF FixedVersions, MatchingEntries
    <3> QED
      BY <3>2, <3>4
  <2> QED
    BY <2>1 DEF TargetsAreFixes
<1> QED
  BY <1>1, ScanSound, PTL

\* TaskPackagesListed: a task, merged or not, names a listed dependency with its
\* parent, a direct one if it says so.
THEOREM TasksNamePackages == Spec => []TaskPackagesListed
<1>1. IInv => TaskPackagesListed
  BY AllTasksFound DEF TaskPackagesListed, FoundTasks
<1> QED
  BY <1>1, ScanSound, PTL

\* CompleteScanCoversRepository: a scan without errors asked about every version
\* that the files of the repository name, and has OSV's answer for each.
THEOREM CompleteScansCover == Spec => []CompleteScanCoversRepository
<1>1. ASSUME IInv, pc = "done", error_count = 0, NEW wanted \in InRepository(repository)
      PROVE  \E i \in DOMAIN packages :
               /\ packages[i].ecosystem = wanted[1] /\ packages[i].name = wanted[2]
               /\ IF wanted[3] = None THEN packages[i].is_direct
                  ELSE packages[i].version = wanted[3]
               /\ answers[i] # None /\ answers[i] = Known(osv, packages[i])
  <2>1. /\ repository \in Repositories /\ Readable(repository)
        /\ packages = ParseDependencies(repository) /\ looked_up = Len(packages)
    BY <1>1 DEF IInv, SourcesUsed
  <2>2. PICK i \in DOMAIN packages :
          /\ packages[i].ecosystem = wanted[1] /\ packages[i].name = wanted[2]
          /\ \/ packages[i].version = wanted[3]
             \/ wanted[3] = None /\ packages[i].is_direct
    BY <1>1, <2>1, ParsedListed
  <2>3. i \in 1 .. looked_up
    BY <1>1, <2>1, <2>2, PackagesListed
  <2>4. answers[i] # None /\ answers[i] = Known(osv, packages[i]) /\ packages[i].version # None
    BY <1>1, <2>3 DEF IInv, AnswersTrue
  <2> QED
    BY <2>2, <2>4
<1>2. IInv => CompleteScanCoversRepository
  BY <1>1 DEF CompleteScanCoversRepository
<1> QED
  BY <1>2, ScanSound, PTL

\* SevereDeferredOnlyInDevelopment: what is severe keeps a task that is not
\* deferred, through scoring, escalation and merging, in any package but one for
\* development.
THEOREM SevereIsNotDeferred == Spec => []SevereDeferredOnlyInDevelopment
<1>1. ASSUME IInv, pc = "done",
             NEW i \in DOMAIN packages, answers[i] # None, NEW advisory \in Range(answers[i]),
             SevereIn(advisory, packages[i]), ~ ForDevelopment(packages[i])
      PROVE  \E t \in Range(tasks) :
               SamePackage(t, packages[i]) /\ t.rank # P3_MONITOR_DEFER
  <2>1. i \in 1 .. looked_up
    BY <1>1, PackagesListed DEF IInv, SourcesUsed
  <2>2. PICK k \in DOMAIN built : SamePackage(built[k], packages[i]) /\ built[k].rank \in 0 .. 3
    BY <1>1, <2>1 DEF IInv, SevereFound
  <2> DEFINE b == built[k]
  <2>3. b \in Range(built)
    BY DEF Range
  <2>4. PICK t \in Range(tasks) : Covers(t, b)
    BY <1>1, <2>3, AllTasksFound
  <2>5. t \in Tasks
    BY <1>1, AllTasksFound DEF FoundTasks
  <2>6. t.rank # P3_MONITOR_DEFER
    <3>1. t.rank \in 0 .. 4 /\ t.rank <= b.rank /\ b.rank \in 0 .. 3
      BY <2>2, <2>4, <2>5, TaskNumbers DEF Covers
    <3> HIDE DEF b
    <3> QED
      BY <3>1 DEF P3_MONITOR_DEFER
  <2> QED
    BY <2>2, <2>4, <2>6 DEF Covers, SamePackage
<1>2. IInv => SevereDeferredOnlyInDevelopment
  BY <1>1 DEF SevereDeferredOnlyInDevelopment, SevereIn
<1> QED
  BY <1>2, ScanSound, PTL
=============================================================================
