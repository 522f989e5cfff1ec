\* Two plans beside another file, under every kind of policy file.
SPECIFICATION Spec
CONSTANTS
    Words <- MCWords
    Types <- MCTypes
    Embedded <- MCEmbedded
    Upper <- MCUpper
    PolicyFiles <- MCPolicyFiles
    NumFiles = 3
    Claimed = {1, 3}
    Plans <- MCPlans
INVARIANTS
    TypeOK
    NeverTalkedDown
    SnippetSettles
PROPERTY ImplementsAnalyzer
\* The call returns and the run is over.
CHECK_DEADLOCK FALSE
