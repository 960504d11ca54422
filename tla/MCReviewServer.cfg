SPECIFICATION Spec
CONSTANTS
    p1 = p1
    p2 = p2
    w1 = w1
    w2 = w2
    g1 = g1
    NoOne = NoOne
    Publishers <- MCPublishers
    Checked = {}
    ItemCount = 1
    Chunks = 1
    Posts <- MCPosts
    Gets <- MCGets
INVARIANT TypeOK
INVARIANT ReadsFollowReplies
INVARIANT RequestsLeaveNoTrace
PROPERTY SaveReplacesOnlyTheResponse
CHECK_DEADLOCK FALSE
