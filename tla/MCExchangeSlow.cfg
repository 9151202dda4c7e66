SPECIFICATION Spec
CONSTANTS
    ClientStreams <- Sent
    PeerStreams <- Others
    MaxHead = 14
    MaxHeaders = 3
    MaxBody = 4
    HeadDeadline = 2
    WriteTimeout = 2
    AnswerSize <- Sizes
    Rooms = {2}
    DrainTimeout = 1
    DrainDeadline = 2
    MaxDrain = 3
    Sink = 2
    Buffer = 4
INVARIANT GoesOutInTime
CHECK_DEADLOCK FALSE
