SPECIFICATION Spec
CONSTANTS
    Reviews = {r1}
    Reviewers = {v1, v2}
    Resumers = {c1, c2}
    Batches <- MCOneGate
    SerialDecisions = FALSE
    MaxAborts = 0
INVARIANT GatedCallAtMostOnce
CHECK_DEADLOCK FALSE
