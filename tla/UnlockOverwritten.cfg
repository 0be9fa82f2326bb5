\* Two stations and room for a session of each, as media_max_encoders may say.
SPECIFICATION Spec
CONSTANTS
  NoStation = none
  Stations = {door, gate}
  MaxRequests = 2
  Capacity = 2
  MaxMedia = 2
  MaxCalls = 1
  Lightweight = TRUE
  Automatic = TRUE
INVARIANTS
  PreparationOwned
