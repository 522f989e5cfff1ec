\* One pull request, read while refs move, and its down migrations.
SPECIFICATION ChangesetSpec
CONSTANTS
    Paths <- MCPaths
    Dir <- MCDir
    Stem <- MCStem
    Suffix <- MCSuffix
    Above <- MCAbove
    Base <- MCBase
    After <- MCAfter
    Contents <- MCContents
    Oversized = {"big"}
    Absent = "none"
    Commits = {1, 2, 3, 4, 5}
    Parents <- MCParents
    Tree <- MCTree
    Calls <- MCCalls
    Pushes = {3, 4, 5}
    Disks <- MCDisks
    Hidden = {"m/0.sql"}
    Scope <- MCScope
    PolicyFiles = {"m/p.yaml"}
    Ignored = {"m/0.sql"}
    Supported <- MCSupported
    MaxChangedFiles = 4
    MaxContextFiles = 5
    MaxPushes = 2
    MaxWrites = 1
    Tables <- MCTables
    Columns <- MCColumns
    Indexes = {"i"}
    Constraints = {"k"}
    Says <- MCSays
INVARIANTS
    TypeOK
    OneTransition
    NothingSlipsAway
    DownsVouched
    LossNamed
\* The call returns and the run is over.
CHECK_DEADLOCK FALSE
