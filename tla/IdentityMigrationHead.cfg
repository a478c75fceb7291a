\* The same databases with the version column as Alembic creates it.
CONSTANTS
    None = None
    Keys <- MCKeys
    Verdicts = {"approved"}
    MaxId = 10
    VersionWidths = {32}
    InitialDatabases <- MCInitialDatabases
SPECIFICATION Spec
CHECK_DEADLOCK FALSE
PROPERTIES
    UpgradeHeadSucceeds
