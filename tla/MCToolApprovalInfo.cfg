SPECIFICATION Spec
CONSTANTS
    Reviews = {r1}
    Reviewers = {v1}
    Resumers = {c1}
    Batches <- MCOneGate
    SerialDecisions = TRUE
    MaxAborts = 0
INVARIANT GatedCallOnlyIfApproved
CHECK_DEADLOCK FALSE
