\* Two uses of the action in one job.
SPECIFICATION Spec
CONSTANTS
    Uses = 2
    Formats = {"markdown", "json", "sarif"}
    Gates = {"B"}
    Conclusions <- MCConclusions
    Earlier <- MCEarlier
    Checkouts <- MCCheckouts
INVARIANTS
    TypeOK
    GreenMeansRead
    RedMeansBelowGate
    ExitsOnItsOwnCertificate
    NoVerdictNeverGreen
\* The job ends after its last use.
CHECK_DEADLOCK FALSE
