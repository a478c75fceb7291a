\* Two scans and two decisions about one finding.
CONSTANTS
    f1 = f1
    f2 = f2
    t1 = t1
    t2 = t2
    t3 = t3
    s1 = s1
    s2 = s2
    r1 = r1
    r2 = r2
    TaskIds = {t1, t2}
    Findings = {f1}
    Columns <- MCColumns
    Values <- MCValues
    DefaultValue = "unset"
    None = None
    Scans = {s1, s2}
    Requests = {r1, r2}
    Verdicts = {"approved", "rejected", "risk_accepted"}
    Results <- OneFinding
    InitialContents <- MCInitialContents
SPECIFICATION Spec
SYMMETRY Symmetry
CHECK_DEADLOCK FALSE
INVARIANTS
    TypeOK
    DecisionsRecorded
    AnswersMatchApprovals
    OneOpenTaskPerFinding
    RepliesNameStoredTasks
PROPERTIES
    SettledTasksFrozen
    UndisturbedScanStoresItsOutput
    ImplementsLedger
