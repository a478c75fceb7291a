\* Does a scan report a finding twice when a third advisory joins two others?
CONSTANTS
    None = None
    Invalid = Invalid
    Names <- MCNames
    Versions <- MCVersions
    OddlyWritten <- MCOddlyWritten
    Specs = {"range"}
    AdvisoryIds <- MCAdvisoryIds
    Unknown <- MCUnknown
    Urls = {"u"}
    Repositories <- TwoVersionsOnly
    Databases <- Chains
SPECIFICATION Spec
CHECK_DEADLOCK FALSE
INVARIANTS
    NoDuplicateTasks
