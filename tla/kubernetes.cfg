\* Two manifests, in either order.
SPECIFICATION Spec
CONSTANTS
    NumFiles = 2
    Changesets <- MCChangesets
    Digests <- MCDigests
INVARIANTS
    TypeOK
    LastFileWins
    IrreversibleMeansDestroyed
    DanglingIsReported
    MovedIsNotNew
    ContextIsSilent
PROPERTY ImplementsAnalyzer
\* The call returns and the run is over.
CHECK_DEADLOCK FALSE
