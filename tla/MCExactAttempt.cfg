SPECIFICATION Spec
CONSTANTS
    RequestCount <- MCRequestCount
    Preflight = {1}
INVARIANTS
    PublishedStatusIsHonest
    EvidenceIsAccepted
    ResponsesAreCountedPrefixes
CHECK_DEADLOCK FALSE
