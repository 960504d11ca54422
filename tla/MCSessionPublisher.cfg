SPECIFICATION PublisherSpec
CONSTANTS
    p1 = p1
    p2 = p2
    NoOne = NoOne
    Publishers <- MCPublishers
    Checked <- MCChecked
    ItemCount = 2
    Chunks = 2
INVARIANT PublisherTypeOK
INVARIANT VisibleSessionIsWhole
INVARIANT FailureLeavesNoFile
PROPERTY SessionIsImmutable
PROPERTY RaceHasAWinner
CHECK_DEADLOCK FALSE
