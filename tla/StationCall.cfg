\* One call each way between the daemon and one registered station; the other
\* station is a stranger. Every fault of the media, every frame about a call, and
\* the fairness of the loop.
SPECIFICATION StationFairSpec
CONSTANTS
  door = door
  gate = gate
  myself = myself
  zero = zero
  Stations <- MCStations
  Registered <- MCRegistered
  Local <- myself
  Household <- MCHousehold
  NoPeer <- zero
  Category <- MCCategory
  MaxGeneration = 1
  MaxMedia = 2
  Capacity = 1
  PreemptPreviews = TRUE
  MediaFaults = {"gone", "live", "failed", "stopping", "unconfirmed"}
  PrepareTimeout = 1
  EndTimeout = 1
  HeardKinds = {"call", "hangup", "pick", "pickAck", "hangupAck", "reply", "timeSync"}
  RingTimeout = 1
  TalkTimeout = 1
  PickTimeout = 1
  AttemptTimeout = 1
  RetryDelay = 1
  MaxAttempts = 1
  ConfirmTimeout = 1
  HandshakeInterval = 1
  MaxMissed = 1
INVARIANTS
  OutboundOwned
  OwnedMedia
  AccountsAgree
PROPERTIES
  PeerIsTold
  WatchedPreviewKept
  OutcomeStands
  OperationMoves
