SPECIFICATION FairSpec
CONSTANTS
    Reviews = {r1}
    Reviewers = {v1, v2}
    Resumers = {c1, c2}
    Batches <- MCBatches
    SerialDecisions = TRUE
    MaxAborts = 2
INVARIANTS
    TypeOK
    GatedCallAtMostOnce
    GatedCallNeedsDecision
PROPERTIES
    ImplementsContract
    DecidedIsClaimed
CHECK_DEADLOCK FALSE
