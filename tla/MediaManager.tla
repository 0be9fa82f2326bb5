---------------------------- MODULE MediaManager ----------------------------
(***************************************************************************)
(* The media module of the daemon, media_session_manager.c, and the bindings  *)
(* that runtime_media_module.c keeps next to it: at most one session per      *)
(* station, a limited number of them, one of them at most a call.            *)
(*                                                                         *)
(* A handler is an operator from the session it works on to the session it    *)
(* leaves and whether its slot becomes free.  An action chooses what one      *)
(* handler meets.  A tick visits the sessions one after the other; they share *)
(* nothing there, so each visit is a step.  How a session ended is reported   *)
(* in the status only and left out.                                         *)
(***************************************************************************)
EXTENDS MediaSession, FiniteSets

CONSTANTS
  Registered,       \* the enabled stations of the configuration
  Capacity,         \* sessions that fit: max_encoders
  PreemptPreviews,  \* overload_policy is DF_MEDIA_OVERLOAD_STOP_OLDEST_PREVIEW
  LastCall          \* generations of the calls the daemon can be in

ASSUME ManagerAssumption ==
  /\ IsFiniteSet(Registered)
  /\ Capacity \in Nat \ {0}
  /\ PreemptPreviews \in BOOLEAN
  /\ LastCall \in Nat \ {0}

VARIABLES
  media,   \* the session of each station, NoSession without one
  last,    \* next_generation
  bound,   \* incoming_bindings: the call and the session it was given
  orphan   \* a child was lost with its session; no code reads this

vars == <<media, last, bound, orphan>>

Calls == 1 .. LastCall

Used == {p \in Registered : Active(media[p])}
Calling == {p \in Used : media[p].purpose = "call"}
Previews == Used \ Calling

(***************************************************************************)
(* What a handler meets: a deadline that passed (`due`), a station that has   *)
(* been silent for thirty seconds (`stall`), a frame that could be sent, a    *)
(* child that can be reaped, and what happens to the picture or the child.    *)
(***************************************************************************)
\* No deadline passed, nothing failed; every deadline passed, nothing failed.
InTime == [due |-> FALSE, stall |-> FALSE, sent |-> TRUE, stops |-> TRUE, how |-> "taken"]
Fine == [due |-> TRUE, stall |-> FALSE, sent |-> TRUE, stops |-> TRUE, how |-> "taken"]

\* What each kind of handler looks at, in the session that it finds.
Stops(s) == IF s.encoder = "none" THEN {TRUE} ELSE BOOLEAN

OnTick(s) ==
  [due : BOOLEAN, stall : {FALSE, s.frames}, sent : BOOLEAN, stops : Stops(s),
   how : {"taken"} \cup (IF s.encoder = "running" THEN {"closed", "dropped", "exited"} ELSE {})]
OnFrame(s, frame) ==
  [due : {FALSE, (frame \in {"confirm", "busy"})}, stall : {FALSE},
   sent : {TRUE, (frame \notin {"keepalive", "hangup", "ended"})}, stops : Stops(s),
   how : {"taken"}]
OnStop(s) ==
  [due : BOOLEAN, stall : {FALSE}, sent : {TRUE}, stops : Stops(s), how : {"taken"}]
OnVideo == [due : {FALSE}, stall : {FALSE}, sent : {TRUE}, stops : BOOLEAN, how : Pushes]
OnCheck == [due : BOOLEAN, stall : BOOLEAN, sent : {TRUE}, stops : {TRUE}, how : {"taken"}]
OnCall  == [due : {TRUE}, stall : {FALSE}, sent : BOOLEAN, stops : BOOLEAN, how : {"taken"}]

Kept(s) == [s |-> s, gone |-> FALSE]

\* Broken on purpose: a slot is freed although its child is still there.
GoneAnyway(s) == [s |-> s, gone |-> TRUE]

\* A session goes with its pipeline, or stays with a child that did not go.
Gone(s) == [s |-> s, gone |-> ~Stuck(s)]

\* Broken on purpose: the slot of a failed session is never freed.
ReleaseFailedKept(s, stops) == Kept([StopPipeline(s, stops) EXCEPT !.state = "failed"])

\* df_media_session_manager_release_failed.
ReleaseFailed(s, stops) == Gone([StopPipeline(s, stops) EXCEPT !.state = "failed"])

\* The monitor is idle: the session goes with what ended it.
Finished(s, stops) == Gone(StopPipeline(s, stops))

\* df_media_session_manager_emit_stop_best_effort and the release after it.
Abandoned(s, stops) ==
  ReleaseFailed(IF s.handoff \/ ~CanStop(s.m, s.mgen) THEN s
                ELSE [s EXCEPT !.m = [Stopped(@) EXCEPT !.stopSent = TRUE]], stops)

\* The release of a call, or of a preview that was to be one.  A release that
\* cannot stop the child is tried again by the ticks, for the same reason.
Released(s, reason, stops) ==
  LET t == StopPipeline(s, stops)
  IN IF Stuck(t)
     THEN Kept([t EXCEPT !.pending = reason, !.state = "stopping", !.viewer = FALSE])
     ELSE Gone(t)

\* The next attempt of the monitor: a stream that is published goes on.
NewAttempt(s, stops) ==
  LET t == ResetPipeline(s, stops)
  IN IF s.pub THEN [ResetAttempt(s, s.m.gen) EXCEPT !.state = Shown(s)]
     ELSE IF Stuck(t) THEN [t EXCEPT !.state = "failed"]
     ELSE [t EXCEPT !.viewer = s.viewer, !.mgen = s.m.gen, !.state = "requesting"]

\* df_media_session_manager_finish_preview_retry.
FinishRetry(s, stops) ==
  LET t == NewAttempt(s, stops)
  IN IF t.state = "failed" THEN t ELSE [t EXCEPT !.m.retryReady = FALSE]

(***************************************************************************)
(* df_media_session_manager_tick, one session.                              *)
(***************************************************************************)
\* No picture for thirty seconds: a preview asks its station again, a call ends.
Stalled(s, e) ==
  /\ e.stall
  /\ s.state \in {"publishing", "viewing"}
  /\ s.source # "reconnecting"
  /\ s.frames

\* df_media_session_manager_schedule_preview_retry.
StallRetry(s) ==
  LET t == SourceLost([s EXCEPT !.m = StopToRetry(@)])
  IN IF t.pub THEN [ResetAttempt(t, t.m.gen) EXCEPT !.state = Shown(t)]
     ELSE [t EXCEPT !.state = "stopping"]

\* The end of a visit: the child and the frozen picture.
TickEncoder(s, e) ==
  LET t == IF s.encoder = "running" /\ Reaped(s, e.how) THEN ChildExited(s) ELSE s
      u == Refrozen(t, e.how, e.stops)
  IN IF t.state = "failed" THEN ReleaseFailed(t, e.stops)
     ELSE IF u.state = "failed" THEN Abandoned(u, e.stops) ELSE Kept(u)

TickStalled(s, e) ==
  IF ~Stalled(s, e) THEN TickEncoder(s, e)
  ELSE IF s.purpose = "call" THEN Abandoned(s, e.stops)
  ELSE IF CanRetry(s.m) THEN TickEncoder(StallRetry(s), e)
  ELSE ReleaseFailed(s, e.stops)

\* What the step of the monitor means to the session.
TickMonitor(s, e) ==
  LET preview == s.purpose = "preview"
      t == [s EXCEPT !.state = IF preview /\ s.m.state = "stopping" /\ ~s.pub
                               THEN "stopping" ELSE @]
      u == IF preview /\ s.m.retryReady THEN FinishRetry(t, e.stops) ELSE t
  IN IF u.m.state = "failed" THEN ReleaseFailed(u, e.stops)
     ELSE IF u.state = "stopping" /\ u.m.state = "idle" THEN Finished(u, e.stops)
     ELSE TickStalled(u, e)

\* The 03/02 before a retry could not be sent: the session is given up.
StopUnsent(s, stops) ==
  LET o == ReleaseFailed(s, stops)
  IN IF o.gone THEN o ELSE Kept([o.s EXCEPT !.state = "stopping"])

Ticked(s, e) ==
  LET r == Step(s.m, e.due)
      unsent == r.send # "none" /\ ~s.handoff /\ ~e.sent
  IN IF s.pending # "none"
     THEN IF e.due THEN Released(s, s.pending, e.stops) ELSE Kept(s)
     ELSE IF s.state = "failed" THEN ReleaseFailed(s, e.stops)
     ELSE IF unsent /\ s.m.afterStop THEN StopUnsent(s, e.stops)
     ELSE TickMonitor(IF unsent THEN s ELSE [s EXCEPT !.m = r.m], e)

(***************************************************************************)
(* df_media_session_manager_receive_control, a frame that is accepted.       *)
(***************************************************************************)
\* Only an answer to a request that is still open confirms the preview for a
\* call; video that came first is kept.
ConfirmedBy(s, m, due) ==
  LET t == [s EXCEPT !.m = m,
                     !.confirmed = IF s.m.asked /\ s.m.confirm /\ ~due THEN m.gen ELSE 0]
  IN IF s.m.ready THEN t
     ELSE [ResetAttempt(t, m.gen) EXCEPT !.state = IF s.pub THEN Shown(s) ELSE "awaiting"]

Retrying(s, stops) ==
  IF s.m.peerStop
  THEN LET t == NewAttempt(SourceLost(s), stops)
       IN IF t.state = "failed" THEN ReleaseFailed(t, stops) ELSE Kept(t)
  ELSE Kept([s EXCEPT !.state = IF s.purpose = "preview" /\ s.pub THEN Shown(s)
                                ELSE IF s.m.state = "requesting" THEN "requesting"
                                ELSE "stopping"])

\* An answer that cannot be sent leaves everything as it was.
Received(s, frame, e) ==
  LET r == Receive(s.m, frame, e.due)
      t == [s EXCEPT !.m = r.m]
      u == [t EXCEPT !.confirmed = 0]
      v == FinishRetry(t, e.stops)
  IN IF r.reply # "none" /\ ~e.sent THEN Kept(s)
     ELSE CASE r.confirmed  -> Kept(ConfirmedBy(s, r.m, e.due))
            [] r.retrying   -> Retrying(u, e.stops)
            [] r.retryReady -> Kept(IF v.state = "failed" THEN [v EXCEPT !.m = s.m] ELSE v)
            [] r.failed     -> ReleaseFailed(u, e.stops)
            [] r.stopped    -> Finished(t, e.stops)
            [] OTHER        -> Kept(t)

(***************************************************************************)
(* df_media_session_manager_push_video and df_media_session_manager_push_jpeg, *)
(* a picture that is complete and valid.                                    *)
(***************************************************************************)
\* Broken on purpose: counts a picture although the attempt was not asked for.
WelcomeUnasked(s) ==
  /\ s.pending = "none"
  /\ ~s.m.peerStop
  /\ s.m.state = "idle" \/ Admits(s.m, s.mgen)

Welcome(s) ==
  /\ s.pending = "none"
  /\ s.prep => s.m.asked /\ s.m.gen = s.mgen
  /\ ~s.m.peerStop
  /\ s.m.state = "idle" \/ Admits(s.m, s.mgen)

Pictured(s, e) ==
  LET t == IF s.m.state = "idle" THEN s ELSE [s EXCEPT !.m = Admitted(@)]
      r == IF s.prep THEN PreparedBy(t) ELSE Encoded(t, e.how, e.stops)
  IN IF r.s.state = "failed" THEN Abandoned(r.s, e.stops)
     ELSE IF r.ok /\ r.s.m.state = "awaiting"
     THEN Kept([r.s EXCEPT !.m.state = "publishing"])
     ELSE Kept(r.s)

\* DF_MEDIA_MODULE_COMMAND_STOP.  The user does not wait for the station.
StoppedBy(s, e) ==
  IF CanStop(s.m, s.mgen)
  THEN Kept([StopPipeline(s, e.stops) EXCEPT
               !.m = [Stopped(s.m) EXCEPT !.stopSent = TRUE],
               !.state = "stopping", !.viewer = FALSE])
  ELSE Finished(s, e.stops)

(***************************************************************************)
(* The actions.                                                            *)
(***************************************************************************)
MediaTypeOK ==
  /\ media \in [Registered -> MediaRecords]
  /\ last \in Attempts
  /\ bound \in [Registered -> [call : 0 .. LastCall, gen : Attempts]]
  /\ orphan \in BOOLEAN

Init ==
  /\ media = [p \in Registered |-> NoSession]
  /\ last = 0
  /\ bound = [p \in Registered |-> [call |-> 0, gen |-> 0]]
  /\ orphan = FALSE

\* A slot that becomes free.
Settle(p, o) ==
  /\ media' = [media EXCEPT ![p] = IF o.gone THEN NoSession ELSE o.s]
  /\ orphan' = (orphan \/ (o.gone /\ o.s.encoder # "none"))

Handle(p, o) ==
  /\ Settle(p, o)
  /\ UNCHANGED <<last, bound>>

Keep(p, s) == Handle(p, Kept(s))

\* DF_MEDIA_SESSION_PREVIEW: of a user, or the preparation of an unlock.  The
\* preparation never joins a preview; a preview takes a preparation over.
Start(p, prep) ==
  LET s == media[p]
  IN IF Active(s)
     THEN /\ prep => s.prep
          /\ Keep(p, IF s.prep /\ ~prep THEN [s EXCEPT !.prep = FALSE, !.m.grace = TRUE]
                     ELSE s)
     ELSE /\ Cardinality(Used) < Capacity
          /\ last < LastAttempt
          /\ media' = [media EXCEPT ![p] = NewPreview(last + 1, prep)]
          /\ last' = last + 1
          /\ UNCHANGED <<bound, orphan>>

\* DF_MEDIA_OUTBOUND_CHECK: the preview is confirmed for the attempt it is in
\* and its video is neither overdue nor stalled.
Upgradable(s, e) ==
  /\ s.confirmed # 0
  /\ s.confirmed = s.m.gen
  /\ s.m.gen = s.mgen
  /\ ~s.m.afterStop /\ ~s.m.retryReady /\ ~s.m.waiting /\ ~s.m.peerStop
  /\ Receiving(s.m)
  /\ s.m.state = "awaiting" => s.m.frame /\ ~e.due
  /\ ~(s.frames /\ e.stall)

\* df_media_session_manager_outbound_upgrade.
Upgrade(p, e) ==
  LET s == media[p]
  IN /\ Active(s)
     /\ s.pending = "none"
     /\ Calling = {}
     /\ Upgradable(s, e)
     /\ Keep(p, [s EXCEPT !.purpose = "call", !.handoff = TRUE, !.prep = FALSE,
                          !.sent = FALSE, !.call = 0, !.m.persistent = FALSE])

\* The operations of an outbound call, keyed by its session.
Outbound(p) == media[p].pending = "none" /\ media[p].handoff

Bind(p, c) ==
  /\ Outbound(p)
  /\ media[p].call \in {0, c}
  /\ Keep(p, [media[p] EXCEPT !.call = c])

MarkSent(p) ==
  /\ Outbound(p)
  /\ media[p].call # 0
  /\ Keep(p, [media[p] EXCEPT !.sent = TRUE])

\* Broken on purpose: the preview stays bound to the call that never was.
RollbackBound(p) ==
  /\ Outbound(p)
  /\ ~media[p].sent
  /\ Keep(p, [media[p] EXCEPT !.purpose = "preview", !.handoff = FALSE,
                              !.m.persistent = TRUE])

Rollback(p) ==
  /\ Outbound(p)
  /\ ~media[p].sent
  /\ Keep(p, [media[p] EXCEPT !.purpose = "preview", !.handoff = FALSE, !.call = 0,
                              !.m.persistent = TRUE])

\* Only the release that is pending is tried again.
Release(p, reason, e) ==
  /\ media[p].handoff
  /\ media[p].pending = "none" \/ (media[p].pending = reason /\ e.due)
  /\ Handle(p, Released(media[p], reason, e.stops))

\* df_runtime_media_module_release_incoming: the call names the session that
\* its binding gave it.
ReleaseIncoming(p, c, reason, e) ==
  LET s == media[p]
  IN /\ bound[p].call = c
     /\ Active(s)
     /\ s.gen = bound[p].gen
     /\ s.purpose = "call" /\ ~s.handoff
     /\ s.call = c
     /\ s.pending = "none" \/ (s.pending = reason /\ e.due)
     /\ Handle(p, Released(s, reason, e.stops))

\* Broken on purpose: the runtime keeps the session of the call before.
GivenBefore(p, c, gen) ==
  bound' = [bound EXCEPT ![p] = [call |-> c, gen |-> IF @.gen = 0 THEN gen ELSE @.gen]]

\* The session of a call that comes in, given out by the manager and bound by
\* the runtime.
Given(p, c, gen) == bound' = [bound EXCEPT ![p] = [call |-> c, gen |-> gen]]

\* The station's own session becomes the call, with a generation of its own.
TakeOwn(p, c, e) ==
  LET s == media[p]
      t == StopEncoder(s, e.stops)
  IN IF s.encoder = "running" /\ Stuck(t) THEN Keep(p, t)
     ELSE /\ last < LastAttempt
          /\ media' = [media EXCEPT ![p] =
                         [NewCall(last + 1, c) EXCEPT
                            !.encoder = IF Stuck(s) THEN "stuck" ELSE "none"]]
          /\ last' = last + 1
          /\ Given(p, c, last + 1)
          /\ UNCHANGED orphan

OldestPreview ==
  CHOOSE q \in Previews : \A r \in Previews : media[q].gen <= media[r].gen

\* df_media_session_manager_preempt_preview, then the call takes the slot.
TakeOldest(p, c, e) ==
  LET q == OldestPreview
      s == media[q]
      t == StopPipeline(IF s.m.state = "idle" THEN s
                        ELSE [s EXCEPT !.m = [Stopped(@) EXCEPT !.stopSent = TRUE]],
                        e.stops)
  IN /\ s.m.state = "idle" \/ (CanStop(s.m, s.mgen) /\ e.sent)
     /\ IF Stuck(t) THEN Keep(q, t)
        ELSE /\ media' = [media EXCEPT ![q] = NoSession, ![p] = NewCall(last + 1, c)]
             /\ orphan' = (orphan \/ t.encoder # "none")
             /\ last' = last + 1
             /\ Given(p, c, last + 1)

\* df_media_session_manager_incoming_call.
Incoming(p, c, e) ==
  LET s == media[p]
      full == Cardinality(Used) >= Capacity
  IN /\ s.pending = "none"
     /\ Calling \subseteq {p}
     /\ s.purpose = "call" => c >= s.call
     /\ IF s.purpose = "call" /\ c = s.call
        THEN Given(p, c, s.gen) /\ UNCHANGED <<media, last, orphan>>
        ELSE /\ last < LastAttempt
             /\ IF Active(s) THEN TakeOwn(p, c, e)
                ELSE IF full THEN PreemptPreviews /\ Previews # {} /\ TakeOldest(p, c, e)
                ELSE /\ media' = [media EXCEPT ![p] = NewCall(last + 1, c)]
                     /\ last' = last + 1
                     /\ Given(p, c, last + 1)
                     /\ UNCHANGED orphan

\* A monitor whose attempt the session does not know cannot be stopped.
Stop(p, e) ==
  LET s == media[p]
  IN /\ Active(s)
     /\ s.pending = "none"
     /\ Watching(s.m) => s.mgen = s.m.gen
     /\ Handle(p, StoppedBy(s, e))

View(p, active) ==
  /\ Active(media[p])
  /\ media[p].pending = "none"
  /\ Keep(p, Viewed(media[p], active))

ReceiveControl(p, frame, e) ==
  LET s == media[p]
  IN /\ Active(s)
     /\ s.pending = "none"
     /\ frame \in {"keepalive", "hangup", "ended"} => s.purpose = "preview"
     /\ Accepts(s.m, frame, e.due)
     /\ Handle(p, Received(s, frame, e))

PushVideo(p, e) ==
  /\ Active(media[p])
  /\ Welcome(media[p])
  /\ Handle(p, Pictured(media[p], e))

Tick(p, e) ==
  /\ Active(media[p])
  /\ Handle(p, Ticked(media[p], e))

Next ==
  \E p \in Registered :
    \/ \E prep \in BOOLEAN : Start(p, prep)
    \/ \E e \in OnCheck : Upgrade(p, e)
    \/ \E c \in Calls : Bind(p, c)
    \/ MarkSent(p)
    \/ Rollback(p)
    \/ \E reason \in EndReasons, e \in OnStop(media[p]) : Release(p, reason, e)
    \/ \E c \in Calls, reason \in EndReasons, e \in OnStop(media[p]) :
         ReleaseIncoming(p, c, reason, e)
    \/ \E c \in Calls, e \in OnCall : Incoming(p, c, e)
    \/ \E e \in OnStop(media[p]) : Stop(p, e)
    \/ \E active \in BOOLEAN : View(p, active)
    \/ \E frame \in MonitorFrames : \E e \in OnFrame(media[p], frame) :
         ReceiveControl(p, frame, e)
    \/ \E e \in OnVideo : PushVideo(p, e)
    \/ \E e \in OnTick(media[p]) : Tick(p, e)

Spec == Init /\ [][Next]_vars

-----------------------------------------------------------------------------
(* Properties *)

\* The session and its monitor count attempts on their own, through retries that
\* either of them begins, late answers and video that comes first.  A session
\* whose monitor runs is in the same attempt, and a picture that an unlock may
\* trust (media_session_manager.c:2012) was taken in it, after its request.
InStep(s) ==
  /\ Watching(s.m) /\ s.state # "failed" /\ ~Stuck(s) /\ ~s.m.retryReady => s.mgen = s.m.gen
  /\ s.prep /\ s.readyFor # 0 => s.m.asked /\ s.readyFor = s.mgen
  /\ s.m.persistent = (s.purpose = "preview")

AttemptsInStep == \A p \in Used : InStep(media[p])

\* However a handler fails halfway: a running child belongs to a publication and
\* no session goes while its child is there, so that no ffmpeg is left behind.
ChildOwned ==
  /\ ~orphan
  /\ \A p \in Registered : media[p].encoder = "running" => media[p].pub

\* The accounts of the manager and of the runtime agree after every takeover,
\* preemption, retry and release: not more sessions than fit, one call among
\* them, each with a generation of its own, and the session that the runtime
\* bound to an incoming call is the one that the manager gave it.
CallsAreBound ==
  /\ Cardinality(Used) <= Capacity
  /\ Cardinality(Calling) <= 1
  /\ \A p \in Used : /\ media[p].gen <= last
                     /\ \A q \in Used \ {p} : media[p].gen # media[q].gen
  /\ \A p \in Calling :
       media[p].handoff \/ bound[p] = [call |-> media[p].call, gen |-> media[p].gen]


\* The main loop ticks on: sooner or later a tick finds the deadlines passed, the
\* station reachable and the child stoppable.
LiveSpec == Spec /\ \A p \in Registered : WF_vars(Tick(p, Fine))

\* A session that was stopped, failed or could not be released does not stay like
\* that: its slot becomes free for others, however often that was put off, unless
\* a viewer, a picture or an answer of the station brings it back.
Leaving(s) ==
  \/ s.pending # "none"
  \/ s.state = "failed"
  \/ s.state = "stopping" /\ s.m.state \in {"stopping", "idle"} /\ ~s.m.afterStop

LeavingSessionsGo ==
  \A p \in Registered : []<>~(Active(media[p]) /\ Leaving(media[p]))
=============================================================================
