\* Two scans, between which the advisory database learned an alias.
CONSTANTS
    p1 = p1
    s1 = s1
    s2 = s2
    Repos <- MCRepos
    Packages = {p1}
    AdvisoryIds <- LearnedIds
    Urls = {"u"}
    Scans = {s1, s2}
    Results <- AliasLearned
    InitialRows <- NothingStored
SPECIFICATION Spec
CHECK_DEADLOCK FALSE
INVARIANTS
    OneVulnerabilityPerAdvisory
