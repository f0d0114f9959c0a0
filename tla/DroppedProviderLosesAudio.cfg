CONSTANTS
    MaxChunks = 1
    Utterances = 1
    MaxEvents = 1
SPECIFICATION Spec
INVARIANT ReceivedAudioIsFinalized
CHECK_DEADLOCK FALSE
