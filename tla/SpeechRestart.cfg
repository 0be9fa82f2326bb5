\* Two clients, one call of each of two lives of the daemon.
SPECIFICATION SpeechSpec
CONSTANTS
    Speakers = {ann, bob}
    BatchLimit = 2
    SocketRoom = 2
    MaxFrames = 2
    MaxTalks = 1
    MaxLives = 2
    MaxSlips = 1
INVARIANTS
    HeardWhereSubmitted
CHECK_DEADLOCK FALSE
