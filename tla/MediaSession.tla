---------------------------- MODULE MediaSession ----------------------------
(***************************************************************************)
(* One session of the media module: the monitor of its station, the pipeline *)
(* that publishes the station's pictures and the ffmpeg child that encodes   *)
(* them, media_session.c and media_encoder.c.                               *)
(*                                                                         *)
(* Operators over session records.  A pipeline that could not be stopped     *)
(* keeps its child, so "the stop failed" is `Stuck` of the session it left.  *)
(* All the stops that one handler tries have the same outcome, `stops`.  What *)
(* only the status reports (errors, counters, times) is left out.            *)
(***************************************************************************)
EXTENDS Monitor

CONSTANT EndReasons  \* the ends that a release can name, DF_MEDIA_END_*

ASSUME SessionMediaAssumption == "none" \notin EndReasons

SessionStates == {"requesting", "awaiting", "publishing", "viewing", "stopping", "failed"}

\* A child is running, gone, or out of reach: told to go and not reaped yet.
Encoders == {"none", "running", "stuck"}

\* What becomes of a picture on its way to the encoder, which takes it or lets it
\* wait: the picture can have another size, memory can run out, the pipe can be
\* full with bytes that wait already, fail, or be closed, the child can be gone,
\* and another one can fail to start.
Pushes == {"taken", "resized", "memory", "blocked", "dropped", "closed", "exited",
           "unstartable"}

\* `gen` is 0 in a free slot, `pub` stands for publication_generation # 0,
\* `frames` for frames_received # 0, `readyFor` is preparation_frame_generation
\* while preparation_ready, `confirmed` preview_confirmation_generation while
\* the confirmation is current and
\* `sent` outbound_command_sent.
MediaRecords ==
  [gen : Attempts, mgen : Attempts, purpose : {"preview", "call"},
   state : SessionStates, pub : BOOLEAN,
   source : {"waiting", "live", "reconnecting"}, viewer : BOOLEAN,
   prep : BOOLEAN, readyFor : Attempts, handoff : BOOLEAN, sent : BOOLEAN,
   call : Nat, confirmed : Attempts, pending : EndReasons \cup {"none"},
   frames : BOOLEAN, encoder : Encoders, m : Monitors]

NoSession ==
  [gen |-> 0, mgen |-> 0, purpose |-> "preview", state |-> "requesting",
   pub |-> FALSE, source |-> "waiting", viewer |-> FALSE, prep |-> FALSE,
   readyFor |-> 0, handoff |-> FALSE, sent |-> FALSE, call |-> 0, confirmed |-> 0,
   pending |-> "none", frames |-> FALSE, encoder |-> "none",
   m |-> Quiet]

Active(s) == s.gen # 0

\* Prepared and activated: the session of a preview asks its station, the one
\* of a call waits for the video that the call brings.
NewPreview(gen, prep) ==
  [NoSession EXCEPT !.gen = gen, !.mgen = gen, !.prep = prep,
                    !.m = Asking(gen, ~prep)]

NewCall(gen, call) ==
  [NoSession EXCEPT !.gen = gen, !.mgen = gen, !.purpose = "call",
                    !.call = call, !.m = BoundToCall(gen)]

Stuck(s) == s.encoder = "stuck"

StopEncoder(s, stops) ==
  [s EXCEPT !.encoder = IF @ = "none" \/ stops THEN "none" ELSE "stuck"]

ClearPublication(s) == [s EXCEPT !.pub = FALSE, !.source = "waiting", !.readyFor = 0]

\* df_media_session_stop_pipeline: the publication is over even when the child
\* is still there.
StopPipeline(s, stops) == ClearPublication(StopEncoder(s, stops))

FailEncoder(s, stops) == [StopPipeline(s, stops) EXCEPT !.state = "failed"]

ResetPipeline(s, stops) ==
  [StopPipeline(s, stops) EXCEPT !.frames = FALSE, !.viewer = FALSE]

\* The stream goes on across attempts, the frames of the old one are dropped.
ResetAttempt(s, gen) ==
  [s EXCEPT !.m.ready = FALSE, !.readyFor = 0, !.frames = @ /\ ~s.prep, !.mgen = gen]

Shown(s) == IF s.viewer THEN "viewing" ELSE "publishing"

\* df_media_session_recover_preview_encoder, or the failure it leads to.
Recovered(s, stops) ==
  LET t == ResetPipeline(s, stops)
  IN IF s.purpose = "call" \/ Stuck(t) THEN FailEncoder(s, stops)
     ELSE [t EXCEPT !.viewer = s.viewer,
                    !.state = IF s.viewer THEN "viewing"
                              ELSE IF s.m.state \in {"idle", "failed"} THEN "publishing"
                              ELSE s.m.state]

\* df_media_encoder_tick finds that the child is gone.
Reaped(s, how) == how = "exited" /\ s.encoder # "none"

\* The child is gone by itself, nothing is left to reap.
ChildExited(s) == Recovered([s EXCEPT !.encoder = "none"], TRUE)

\* The state a session falls back to when its viewer leaves.
WithoutViewer(s) ==
  IF s.m.state \in {"awaiting", "requesting"} THEN s.m.state
  ELSE IF s.m.state = "publishing" \/ (s.frames /\ s.encoder = "running") THEN "publishing"
  ELSE "requesting"

\* DF_MEDIA_MODULE_COMMAND_VIEWER.
Viewed(s, active) ==
  LET t == [s EXCEPT !.viewer = active, !.prep = @ /\ ~active]
  IN [t EXCEPT !.state = IF s.pub THEN Shown(t)
                         ELSE IF active THEN "viewing"
                         ELSE IF @ = "viewing" THEN WithoutViewer(s) ELSE @]

\* Only a preview freezes its last picture for the time without a source.
SourceLost(s) ==
  IF s.purpose = "preview" /\ (s.pub \/ s.prep) /\ s.source # "reconnecting"
  THEN [s EXCEPT !.source = "reconnecting", !.readyFor = IF s.prep THEN 0 ELSE @]
  ELSE s

\* df_media_session_tick_reconnect: the frozen picture is written again.
Refrozen(s, how, stops) ==
  IF s.purpose = "preview" /\ s.pub /\ s.encoder = "running"
  THEN CASE how = "closed"  -> Recovered(s, stops)
         [] how = "dropped" -> FailEncoder(s, stops)
         [] OTHER           -> s
  ELSE s

\* A picture of another size than the one that is frozen ends the publication,
\* otherwise the encoder is only started again.
Resized(s, stops) ==
  IF s.purpose = "preview" /\ s.pub /\ s.source = "reconnecting" THEN FailEncoder(s, stops)
  ELSE IF s.encoder # "running" THEN s
  ELSE LET t == StopEncoder(s, stops) IN IF Stuck(t) THEN FailEncoder(t, stops) ELSE t

Pushed(s, ok) == [s |-> s, ok |-> ok]

\* A child that runs, or another one: none is started while one is out of reach.
Startable(s, how) == s.encoder = "running" \/ (s.encoder = "none" /\ how # "unstartable")

\* The picture is queued and goes to the encoder, which is started if need be.
Queued(s, how, stops) ==
  LET t == [s EXCEPT !.pub = TRUE, !.frames = TRUE, !.source = "live"]
      u == [t EXCEPT !.encoder = "running"]
  IN IF how = "memory" \/ ~Startable(s, how)
     THEN Pushed(FailEncoder(t, stops), FALSE)
     ELSE CASE how = "closed" ->
                 LET r == Recovered(u, stops) IN Pushed(r, r.state # "failed")
            [] how = "dropped" -> Pushed(u, FALSE)
            [] how = "blocked" /\ s.encoder = "running" ->
                 Pushed([u EXCEPT !.state = "publishing"], TRUE)
            [] OTHER -> Pushed([u EXCEPT !.state = Shown(u)], TRUE)

\* df_media_session_push_jpeg.
Encoded(s, how, stops) ==
  LET t == IF Reaped(s, how) THEN ChildExited(s) ELSE s
      u == IF how = "resized" THEN Resized(t, stops) ELSE t
  IN IF u.state = "failed" THEN Pushed(u, FALSE) ELSE Queued(u, how, stops)

\* df_media_session_prepare_jpeg: an unlock only wants to know that it came.
PreparedBy(s) ==
  IF s.state = "failed" THEN Pushed(s, FALSE)
  ELSE Pushed([s EXCEPT !.frames = TRUE, !.source = "live", !.readyFor = s.mgen,
                        !.state = Shown(s)], TRUE)
=============================================================================
