CONSTANTS
    s = s
    b = b
    p = p
    Streams = {s}
    Stubs = {b}
    Pollers = {p}
    HistoryLimit = 2
    MaxPosts = 3
    MaxLives = 2
SPECIFICATION FairRoomSpec
INVARIANTS
    RoomInv
    StreamsUpToDate
PROPERTY
    PollsDeliver
CHECK_DEADLOCK FALSE
