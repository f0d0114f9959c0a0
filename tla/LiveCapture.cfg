CONSTANTS
    MaxChunks = 2
    Utterances = 2
    MaxEvents = 2
    Minutes = {240, 1024}
    Megabytes = {439, 440, 1875}
SPECIFICATION MCSpec
INVARIANTS
    TypeOK
    LogsAgree
    StoppedMeansQueued
    EndedIsResolved
    AudioWithinLimit
    FullSessionFits
PROPERTIES
    TranscriptIsFrozen
    CaptureEnds
    SocketContract
CHECK_DEADLOCK FALSE
