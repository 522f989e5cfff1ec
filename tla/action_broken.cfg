\* The claim that a broken analysis is never a pass.
SPECIFICATION Spec
CONSTANTS
    Uses = 2
    Formats = {"markdown", "json", "sarif"}
    Gates = {"B"}
    Conclusions <- MCConclusions
    Earlier <- MCEarlier
    Checkouts <- MCCheckouts
INVARIANT BrokenNeverPasses
\* The job ends after its last use.
CHECK_DEADLOCK FALSE
