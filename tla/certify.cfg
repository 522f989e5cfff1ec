\* One call of Certify over every changeset of a small repository.
SPECIFICATION FairSpec
CONSTANTS
    up = up
    manifest = manifest
    script = script
    note = note
    dbDir = dbDir
    appDir = appDir
    NoPolicy = NoPolicy
    NoSnapshot = NoSnapshot
    Paths <- MCPaths
    Rules <- MCRules
    NumAnalyzers <- MCNumAnalyzers
    Claims <- MCClaims
    Validators <- MCValidators
    Reportable <- MCReportable
    Ups <- MCUps
    Dir <- MCDir
    MigrationNamed <- MCMigrationNamed
    Ignorable <- MCIgnorable
    Sql <- MCSql
    Script <- MCScript
    Policies <- MCPolicies
    Snapshots <- MCSnapshots
INVARIANTS
    TypeOK
    PassMeansVouched
    BrokenMeansF
    WaiverStopsAtUnknown
    GradeNeverLifted
    UndoPlanHonest
    NothingReadNeverGraded
    DeadWaiversAreDead
PROPERTY ImplementsPromise
\* The call returns and the run is over.
CHECK_DEADLOCK FALSE
