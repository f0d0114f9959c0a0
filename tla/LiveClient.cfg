CONSTANT MaxBegins = 2
SPECIFICATION FairSpec
INVARIANTS
    TypeOK
    MicrophoneReleased
    AudioIsOwn
    ReportsAreTrue
PROPERTY StopIsAnswered
CHECK_DEADLOCK FALSE
