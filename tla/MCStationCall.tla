--------------------------- MODULE MCStationCall ---------------------------
EXTENDS StationCall, TLC
CONSTANTS door, gate, myself, zero

MCStations == {door, gate}
MCHousehold == {myself}
MCCategory == [p \in MCStations |-> 0]
MCRegistered == {door}
\* Bound: no incoming call is answered, so that calls only ring and take over.
MCUnanswered == dispatch.cmd.type # "answer"
MCSymmetry == Permutations(MCStations)
=============================================================================
