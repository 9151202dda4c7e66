SPECIFICATION Spec
CONSTANTS
    ClientStreams <- Sent
    PeerStreams <- Others
    MaxHead = 14
    MaxHeaders = 3
    MaxBody = 4
    HeadDeadline = 2
    WriteTimeout = 2
    AnswerSize <- Sizes
    Rooms = {1, 2}
    DrainTimeout = 1
    DrainDeadline = 2
    MaxDrain = 3
    Sink = 2
    Buffer = 4
INVARIANTS ReadsWhatWasSent OneReading WorkerFreed AnswerIsRead
CHECK_DEADLOCK FALSE
