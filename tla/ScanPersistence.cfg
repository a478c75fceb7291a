\* Two results persisted at once, deadlocks and lost links included.
CONSTANTS
    p1 = p1
    s1 = s1
    s2 = s2
    Repos <- MCRepos
    Packages = {p1}
    AdvisoryIds <- CrossingIds
    Urls = {"u"}
    Scans = {s1, s2}
    Results <- Crossing
    InitialRows <- MCInitialRows
SPECIFICATION FairSpec
CHECK_DEADLOCK FALSE
INVARIANTS
    TypeOK
    NoDuplicateRows
    ParentsStored
    ResultsStoredWhole
PROPERTIES
    PersistingEnds
