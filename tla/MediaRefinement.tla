--------------------------- MODULE MediaRefinement ---------------------------
(***************************************************************************)
(* MediaManager implements CallMedia: the sessions that the manager keeps are *)
(* those that StationCall works with.                                        *)
(***************************************************************************)
EXTENDS MediaManager

CM == INSTANCE CallMedia WITH
        Stations <- Registered, Local <- "local", Household <- {"local"},
        NoPeer <- "zero", Category <- [p \in Registered |-> 0],
        MaxGeneration <- LastCall, RingTimeout <- 1, TalkTimeout <- 1, PickTimeout <- 1,
        MaxMedia <- LastAttempt,
        MediaFaults <- {"gone", "live", "failed", "stopping", "unconfirmed"}

\* What CallMedia keeps of a session.
CallSide(s) ==
  [active |-> Active(s), generation |-> s.gen, purpose |-> s.purpose,
   handoff |-> s.handoff, call |-> s.call, sent |-> s.sent, viewer |-> s.viewer,
   confirmed |-> Upgradable(s, InTime),
   state |-> IF s.state \in {"failed", "stopping"} THEN s.state ELSE "live",
   pending |-> s.pending]

Sides == [p \in Registered |-> CallSide(media[p])]

\* From A to B: one request to CallMedia, or what it allows the manager to do
\* unasked.
CallMediaStep(A, B, p) ==
  LET g == A[p].generation
      c == A[p].call
  IN \/ \E m \in CM!MediaChanges(A[p]) : B = [A EXCEPT ![p] = m]
     \/ \E watching \in BOOLEAN :
          /\ A[p].active
          /\ A[p].pending = "none"
          /\ \E m \in CM!Viewed(A[p], watching) : B = [A EXCEPT ![p] = m]
     \/ \E r \in {B[p].pending, "unknown"} \ {"none"}, stops \in BOOLEAN :
          B \in {CM!ReleaseOutbound(A, p, g, c, r, stops).media,
                CM!ReleaseIncoming(A, p, c, r, stops).media}
     \/ B \in {CM!Rollback(A, p, g, c).media, CM!MarkSent(A, p, g, c).media}
     \/ B = CM!StartPreview(A, last, p).media
     \/ \E k \in Calls : B = CM!BindControl(A, p, g, k).media
     \/ CM!Check(A, p, g, TRUE) = "ok" /\ B = CM!Promote(A, p)
     \/ \E stops \in BOOLEAN : B = CM!StopPreview(A, p, g, stops).media
     \/ \E k \in Calls : B = CM!IncomingMedia(A, last, p, k, TRUE).media

\* StationCall works with the sessions of CallMedia, that is with what requests
\* and faults can make of them.  Everything the manager does, through monitors,
\* retries, encoders and preemptions, is such a request or such a fault.
ImplementsCallMedia ==
  [][\E A \in {Sides}, B \in {Sides'} :
       /\ last' = CM!LastGeneration(last, B)
       /\ \E p \in Registered : CallMediaStep(A, B, p)]_<<Sides, last>>
=============================================================================
