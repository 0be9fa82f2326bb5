\* One station whose ticks go on and sometimes find everything in order.
SPECIFICATION LiveSpec
CONSTANTS
  LastAttempt = 2
  BusyLimit = 1
  Registered = {p1}
  Capacity = 1
  PreemptPreviews = TRUE
  LastCall = 1
  EndReasons = {"local_hangup"}
PROPERTIES
  LeavingSessionsGo
CHECK_DEADLOCK FALSE
