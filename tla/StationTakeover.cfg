\* Two calls, between stations that are interchangeable, whose sessions do not
\* fail unasked: what is left of the first call when the second one begins.
SPECIFICATION StationSpec
CONSTANTS
  door = door
  gate = gate
  myself = myself
  zero = zero
  Stations <- MCStations
  Registered <- MCStations
  Local <- myself
  Household <- MCHousehold
  NoPeer <- zero
  Category <- MCCategory
  MaxGeneration = 2
  MaxMedia = 2
  Capacity = 1
  PreemptPreviews = TRUE
  MediaFaults = {"live", "unconfirmed"}
  PrepareTimeout = 1
  EndTimeout = 1
  HeardKinds = {"call", "hangup"}
  RingTimeout = 1
  TalkTimeout = 1
  PickTimeout = 1
  AttemptTimeout = 1
  RetryDelay = 1
  MaxAttempts = 1
  ConfirmTimeout = 1
  HandshakeInterval = 1
  MaxMissed = 1
SYMMETRY MCSymmetry
CONSTRAINT MCUnanswered
PROPERTIES
  IncomingMediaKept
