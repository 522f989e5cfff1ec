\* Two migrations that make, convert and unmake what a database holds.
SPECIFICATION Spec
CONSTANTS
    Tables <- MCTables
    Columns <- MCColumns
    Indexes <- MCIndexes
    Constraints <- MCConstraints
    NumFiles = 2
    Statements <- MCStatements
    Databases <- MCDatabases
    MaxScript = 3
INVARIANTS
    TypeOK
    JudgedByItsPast
    NarrowingLoses
    PlanUnwinds
PROPERTY ImplementsAnalyzer
\* The call returns and the run is over.
CHECK_DEADLOCK FALSE
