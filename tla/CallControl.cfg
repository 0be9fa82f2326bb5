\* Call control with two callers of different rank, two generations (the last
\* one is UINT64_MAX) and timers of one or two ticks, under fairness.
SPECIFICATION FairSpec
CONSTANTS
  door = door
  extension = extension
  myself = myself
  sibling = sibling
  zero = zero
  Stations <- MCStations
  Local <- myself
  Household <- MCHousehold
  NoPeer <- zero
  Category <- MCCategory
  MaxGeneration = 2
  RingTimeout = 2
  TalkTimeout = 2
  PickTimeout = 1
  AttemptTimeout = 1
  RetryDelay = 1
  MaxAttempts = 2
  ConfirmTimeout = 1
  HandshakeInterval = 1
  MaxMissed = 1
INVARIANTS
  DaemonRuns
  WireIsCurrent
  CallTimed
  HeartbeatWatches
PROPERTIES
  HangupIsFinal
  ImplementsLifecycle
  HangupEnds
  SlotFrees
