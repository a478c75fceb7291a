\* Databases with duplicates at every level, two rows committed in between; the
\* version column as Alembic creates it, and wide enough.
CONSTANTS
    None = None
    Keys <- MCKeys
    Verdicts = {"approved"}
    MaxId = 10
    VersionWidths = {32, 64}
    InitialDatabases <- MCInitialDatabases
SPECIFICATION Spec
CHECK_DEADLOCK FALSE
INVARIANTS
    TypeOK
    IdentitiesUnique
PROPERTIES
    FailsOnlyIfDisturbed
    ImplementsIdentityLedger
