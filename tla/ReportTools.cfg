\* Two servers that share a directory of reports, and an AI on the client's side.
CONSTANTS
    s1 = s1
    s2 = s2
    a = a
    b = b
    Absent = Absent
    Half = Half
    None = None
    NoId = NoId
    Failed = Failed
    Redacted = "redacted"
    ScanIds = {a, b}
    Servers = {s1, s2}
    Words <- MCWords
    Signals <- MCSignals
    Parts <- MCParts
    RedactedAsText = {"cookie"}
    RedactedIds = {"token"}
    Scanned <- MCScanned
    Lines <- MCLines
    Replies <- MCReplies
    TopKs = {2}
    MaxCalls = 3
SPECIFICATION FairSpec
CHECK_DEADLOCK FALSE
INVARIANTS
    TypeOK
    AnswersFromSavedReports
    AnswersInOrder
    AcceptedOutputsGrounded
    FaithfulOutputsAccepted
    ShownSummariesGrounded
PROPERTIES
    CallsEnd
