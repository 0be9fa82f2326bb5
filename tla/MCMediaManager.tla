--------------------------- MODULE MCMediaManager ---------------------------
(* Model checking of MediaManager: the stations are interchangeable.         *)
EXTENDS MediaRefinement, TLC

StationSymmetry == Permutations(Registered)
=============================================================================
