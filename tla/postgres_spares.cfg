\* The claim that no undo plan destroys what was there before.
SPECIFICATION Spec
CONSTANTS
    Tables <- MCTables
    Columns <- MCColumns
    Indexes <- MCIndexes
    Constraints <- MCConstraints
    NumFiles = 2
    Statements <- MCRepeating
    Databases <- MCDatabases
    MaxScript = 3
INVARIANT PlanSpares
\* The call returns and the run is over.
CHECK_DEADLOCK FALSE
