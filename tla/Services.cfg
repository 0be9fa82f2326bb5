SPECIFICATION Spec
CONSTANTS
    QueueCapacity = 2
    MaxClients = 2
    WireRoom = 3
    RelayCapacity = 2
    MaxEvents = 5
    Segments <- SmallSegments
    Room <- SmallRoom
    MaxStamp = 5
    Wrap = 8
    JitterSlots = 2
    MaxSilence = 2
    ChunkLimit = 2
    MaxPackets = 4
    MaxGeneration = 2
    Speakers = {ann, bob}
    BatchLimit = 2
    SocketRoom = 2
    MaxFrames = 2
    MaxTalks = 1
    MaxLives = 2
    MaxSlips = 1
    Numbers = 4
    MaxChunks = 2
    MaxPictures = 5
    MaxViews = 2
    RetryDelay = 1
    Deadline = 2
    QueryInterval = 2
    MaxEntries = 2
    MaxAnswers = 2
    Payloads <- SmallPayloads
    MaxTime = 5
    MaxCalls = 2
INVARIANTS
    HeardInOrder
    ChunkChain
    SpokenOnce
    RestartCutsOff
    PictureTrue
    LiftOncePerCall
PROPERTIES
    StreamUnbroken
    NewestKept
CHECK_DEADLOCK FALSE
