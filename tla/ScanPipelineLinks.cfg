\* Is the vulnerability of each task in the result when versions are merged?
CONSTANTS
    None = None
    Invalid = Invalid
    Names <- MCNames
    Versions <- MCVersions
    OddlyWritten <- MCOddlyWritten
    Specs = {"range"}
    AdvisoryIds <- MCAdvisoryIds
    Unknown <- MCUnknown
    Urls = {"u"}
    Repositories <- TwoVersionsOnly
    Databases <- PartialAnswers
SPECIFICATION Spec
CHECK_DEADLOCK FALSE
INVARIANTS
    TasksLinked
