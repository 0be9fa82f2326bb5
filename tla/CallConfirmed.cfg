\* A confirmation that comes after the pick window: the answer may be submitted
\* again within the ring time, the timer of the window is longer than an attempt.
SPECIFICATION Spec
CONSTANTS
  door = door
  extension = extension
  myself = myself
  sibling = sibling
  zero = zero
  Stations <- MCStations
  Local <- myself
  Household <- MCHousehold
  NoPeer <- zero
  Category <- MCCategory
  MaxGeneration = 1
  RingTimeout = 5
  TalkTimeout = 1
  PickTimeout = 2
  AttemptTimeout = 1
  RetryDelay = 1
  MaxAttempts = 1
  ConfirmTimeout = 1
  HandshakeInterval = 1
  MaxMissed = 2
INVARIANT
  ConfirmedAnswerTalks
