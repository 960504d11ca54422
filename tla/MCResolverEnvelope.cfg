SPECIFICATION Spec
CONSTANTS
    LastPhase = 2
    DependencyPhase = 1
    Diagnostics = {1, 2}
    MaxObservations = 3
    Reported <- MCReported
INVARIANT StatusFollowsPrecedence
INVARIANT CompletenessIsHonest
INVARIANT PrimaryEstablishesStatus
INVARIANT NoDiagnosticLost
INVARIANT PayloadNeedsEveryPhase
CHECK_DEADLOCK FALSE
