\* Two scans that store two findings in opposite orders, and may deadlock, and
\* one decision, under fairness.
CONSTANTS
    f1 = f1
    f2 = f2
    t1 = t1
    t2 = t2
    t3 = t3
    s1 = s1
    s2 = s2
    r1 = r1
    r2 = r2
    TaskIds = {t1, t2, t3}
    Findings = {f1, f2}
    Columns <- OneColumn
    Values <- LiveValues
    DefaultValue = "unset"
    None = None
    Scans = {s1, s2}
    Requests = {r1}
    Verdicts = {"approved"}
    Results <- OppositeOrders
    InitialContents <- Outdated
SPECIFICATION FairSpec
CHECK_DEADLOCK FALSE
INVARIANTS
    IInv
PROPERTIES
    ScansEnd
    RequestsEnd
