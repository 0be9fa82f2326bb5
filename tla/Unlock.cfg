\* Two stations: two calls with the one encoder of the default configuration, and
\* one with room for a session of each station, as media_max_encoders may say.
SPECIFICATION EitherSpec
CONSTANTS
  NoStation = none
  Stations = {door, gate}
  MaxRequests = 2
  Capacity = 1
  MaxMedia = 2
  MaxCalls = 2
  Lightweight = TRUE
  Automatic = TRUE
SYMMETRY StationSymmetry
INVARIANTS
  RequestIsItsOwn
PROPERTIES
  HangsUpItsCall
  PreparationHandedOn
