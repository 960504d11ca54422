SPECIFICATION TransportSpec
CONSTANTS
    FrameCount = 2
    MaxWrites = 4
INVARIANT SupportedIsEarned
INVARIANT ResultIsAsPromised
PROPERTY QueuedResponseWins
PROPERTY SessionEnds
CHECK_DEADLOCK FALSE
