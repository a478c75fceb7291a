\* Every repository against every small database.
CONSTANTS
    None = None
    Invalid = Invalid
    Names <- MCNames
    Versions <- MCVersions
    OddlyWritten <- MCOddlyWritten
    Specs = {"range"}
    AdvisoryIds <- MCAdvisoryIds
    Unknown <- MCUnknown
    Urls = {"u"}
    Repositories <- MCRepositories
    Databases <- MCDatabases
SPECIFICATION Spec
CHECK_DEADLOCK FALSE
INVARIANTS
    TypeOK
    PrioritiesKept
    TasksPassQualityGate
    TargetsAreFixes
    TaskPackagesListed
    CompleteScanCoversRepository
    SevereDeferredOnlyInDevelopment
