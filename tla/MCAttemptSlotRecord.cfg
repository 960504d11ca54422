SPECIFICATION SlotSpec
CONSTANTS
    p1 = p1
    p2 = p2
    p3 = p3
    s1 = s1
    s2 = s2
    d1 = d1
    d2 = d2
    r1 = r1
    NoOne = NoOne
    Attempts <- MCAttempts
    Slots <- MCSlots
    SlotOf <- MCSlotOf
    Dirs <- MCDirs
    DirOf <- MCDirOf
    Readers <- MCReaders
    MemberCount = 3
    RecordCanFail = FALSE
    MaxPowerLosses = 0
INVARIANT FailedAttemptHasRecord
CHECK_DEADLOCK FALSE
