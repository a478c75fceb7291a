\* Two runs in a row whose events outgrow the trace.
CONSTANTS
    MAX_TRACE_RECORDS = 4
    MAX_TRIAGE_EVIDENCE_CHUNKS = 1
    Actions = {"upgrade", "monitor"}
    RiskyActions = {"upgrade"}
    MaxRuns = 2
SPECIFICATION FairSpec
INVARIANTS
    TypeOK
    RiskyNeedsHuman
    FailsClosed
    TraceIsTail
PROPERTIES
    BlockedStays
    RunsEnd
