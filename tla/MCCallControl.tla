--------------------------- MODULE MCCallControl ---------------------------
EXTENDS CallControl
CONSTANTS door, extension, myself, sibling, zero

MCStations == {door, extension}
MCHousehold == {myself, sibling}
MCCategory == [p \in MCStations |-> IF p = door THEN 0 ELSE 3]
=============================================================================
