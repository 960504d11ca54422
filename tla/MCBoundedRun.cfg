SPECIFICATION Spec
CONSTANTS
    Variants = {"patient", "eager"}
    Heirs = {h1, h2}
    Leader = leader
INVARIANTS
    NothingSurvives
    StatusIsTheLeaders
PROPERTIES
    SignalsAreAnchored
    RunnerEnds
CHECK_DEADLOCK FALSE
