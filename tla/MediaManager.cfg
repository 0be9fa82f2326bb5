\* Two stations that share the one session that fits, each call in its turn.
SPECIFICATION Spec
CONSTANTS
  LastAttempt = 2
  BusyLimit = 1
  Registered = {p1, p2}
  Capacity = 1
  PreemptPreviews = TRUE
  LastCall = 2
  EndReasons = {"local_hangup", "peer_hangup"}
SYMMETRY StationSymmetry
INVARIANTS
  AttemptsInStep
  ChildOwned
  CallsAreBound
PROPERTIES
  ImplementsCallMedia
CHECK_DEADLOCK FALSE
