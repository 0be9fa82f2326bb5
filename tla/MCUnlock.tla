------------------------------ MODULE MCUnlock ------------------------------
(* The unlock of doors for TLC: stations that are interchangeable, and       *)
(* behaviours with the room that the cfg gives beside ones of a single call  *)
(* with room for a session of each of two stations.                          *)
EXTENDS Unlock, TLC

VARIABLE room

Two == INSTANCE Unlock WITH Capacity <- 2, MaxCalls <- 1

StationSymmetry == Permutations(Stations)

EitherInit == Init /\ room \in {Capacity, 2}

EitherNext ==
  \/ room = Capacity /\ Next /\ UNCHANGED room
  \/ room = 2 /\ Two!Next /\ UNCHANGED room

EitherSpec == EitherInit /\ [][EitherNext]_<<vars, room>>
=============================================================================
