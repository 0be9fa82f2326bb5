---------------------------- MODULE MCServices ----------------------------
(***************************************************************************)
(* A model to check the parts that run beside the call: the way of an      *)
(* event to the home-automation service, the evidence recorder, the        *)
(* listening path, the speaking path, the pictures and the lift.  They     *)
(* share no state the modules keep, so a behaviour is one of a single part *)
(* and the others stand still.                                             *)
(***************************************************************************)
EXTENDS Events, Recorder, Audio, Speech, Video, Elevator

VARIABLE part

\* Three slots and one record each for the first ring, so that its files come
\* round; two for the others.
SmallSegments == [r \in Rings |-> IF r = "recent" THEN 3 ELSE 2]
SmallRoom     == [r \in Rings |-> Header[r] + 1]

\* An empty status, one storey below ground that stopped, and one cut short.
SmallPayloads == {<<0>>, <<1, 129, 3>>, <<2, 1, 1>>}

Init ==
    /\ part \in {"events", "recorder", "audio", "speech", "video", "lift"}
    /\ EventInit /\ RecorderInit /\ AudioInit /\ SpeechInit
    /\ VideoInit /\ LiftInit

EventStep ==
    /\ part = "events" /\ EventNext
    /\ UNCHANGED <<part, recorderVars, audioVars, speechVars, videoVars,
                   liftVars>>

RecorderStep ==
    /\ part = "recorder" /\ RecorderNext
    /\ UNCHANGED <<part, eventVars, audioVars, speechVars, videoVars,
                   liftVars>>

AudioStep ==
    /\ part = "audio" /\ AudioNext
    /\ UNCHANGED <<part, eventVars, recorderVars, speechVars, videoVars,
                   liftVars>>

SpeechStep ==
    /\ part = "speech" /\ SpeechNext
    /\ UNCHANGED <<part, eventVars, recorderVars, audioVars, videoVars,
                   liftVars>>

VideoStep ==
    /\ part = "video" /\ VideoNext
    /\ UNCHANGED <<part, eventVars, recorderVars, audioVars, speechVars,
                   liftVars>>

LiftStep ==
    /\ part = "lift" /\ LiftNext
    /\ UNCHANGED <<part, eventVars, recorderVars, audioVars, speechVars,
                   videoVars>>

Next ==
    EventStep \/ RecorderStep \/ AudioStep \/ SpeechStep \/ VideoStep
    \/ LiftStep

Spec ==
    Init /\ [][Next]_<<part, eventVars, recorderVars, audioVars, speechVars,
                       videoVars, liftVars>>
=============================================================================
