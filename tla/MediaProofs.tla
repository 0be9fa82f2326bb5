---------------------------- MODULE MediaProofs ----------------------------
(***************************************************************************)
(* Proofs about the media session manager, for every set of stations, every  *)
(* capacity and every limit.  The lemmas follow the layers of the model: the  *)
(* monitor of a session, its pipeline, the handlers of the manager, the       *)
(* accounts of the manager and of the runtime, and what calls see of all that. *)
(***************************************************************************)
EXTENDS MediaRefinement, FiniteSetTheorems, WellFoundedInduction, TLAPS

-----------------------------------------------------------------------------
(* The monitor *)

LEMMA AttemptBounds ==
  /\ 0 \in Attempts
  /\ 0 \in 0 .. BusyLimit
  /\ \A n \in Attempts : n < LastAttempt => n + 1 \in Attempts
  /\ \A n \in 0 .. BusyLimit : n < BusyLimit => n + 1 \in 0 .. BusyLimit
BY MonitorAssumption DEF Attempts

LEMMA NewMonitors ==
  ASSUME NEW gen \in Attempts, NEW grace \in BOOLEAN
  PROVE  /\ Quiet \in Monitors
         /\ Asking(gen, grace) \in Monitors
         /\ BoundToCall(gen) \in Monitors
         /\ Asking(gen, grace).persistent /\ Asking(gen, grace).gen = gen
         /\ ~BoundToCall(gen).persistent /\ BoundToCall(gen).gen = gen
<1>1. Quiet \in Monitors
  BY AttemptBounds DEF Quiet, Monitors, MonitorStates
<1> QED BY <1>1 DEF Quiet, Asking, BoundToCall, Monitors, MonitorStates

\* A record stays a monitor when one field takes a value of its own.
LEMMA MonitorUpdates ==
  \A m \in Monitors :
    /\ \A v \in MonitorStates : [m EXCEPT !.state = v] \in Monitors
    /\ \A v \in Attempts : [m EXCEPT !.gen = v] \in Monitors
    /\ \A v \in 0 .. BusyLimit : [m EXCEPT !.busy = v] \in Monitors
    /\ \A v \in BOOLEAN :
         /\ [m EXCEPT !.persistent = v] \in Monitors
         /\ [m EXCEPT !.grace = v] \in Monitors
         /\ [m EXCEPT !.asked = v] \in Monitors
         /\ [m EXCEPT !.confirm = v] \in Monitors
         /\ [m EXCEPT !.frame = v] \in Monitors
         /\ [m EXCEPT !.ready = v] \in Monitors
         /\ [m EXCEPT !.established = v] \in Monitors
         /\ [m EXCEPT !.afterStop = v] \in Monitors
         /\ [m EXCEPT !.retryReady = v] \in Monitors
         /\ [m EXCEPT !.waiting = v] \in Monitors
         /\ [m EXCEPT !.peerStop = v] \in Monitors
         /\ [m EXCEPT !.stopSent = v] \in Monitors
BY SMT DEF Monitors

\* The monitor goes on in its attempt, and is not watched again unless it was.
GoesOn(m, n) ==
  /\ n \in Monitors
  /\ n.persistent = m.persistent
  /\ n.gen = m.gen
  /\ m.asked => n.asked
  /\ Watching(n) /\ ~n.retryReady => Watching(m) /\ ~m.retryReady

LEMMA MonitorChanges ==
  ASSUME NEW m \in Monitors
  PROVE  /\ GoesOn(m, m)
         /\ GoesOn(m, MonitorFailed(m))
         /\ GoesOn(m, StopToRetry(m))
         /\ GoesOn(m, Stopped(m))
         /\ ~Watching(MonitorFailed(m)) /\ ~Watching(StopToRetry(m)) /\ ~Watching(Stopped(m))
<1>1. GoesOn(m, m)
  BY DEF GoesOn
<1>2. /\ MonitorFailed(m) \in Monitors
      /\ StopToRetry(m) \in Monitors
      /\ Stopped(m) \in Monitors
  BY Zenon, MonitorUpdates DEF MonitorFailed, StopToRetry, Stopped, MonitorStates
<1> DEFINE Over(n) == /\ n.state \in {"failed", "stopping", "stopped"}
                      /\ n.persistent = m.persistent /\ n.gen = m.gen /\ n.asked = m.asked
<1>3. Over(MonitorFailed(m))
  BY SMT DEF MonitorFailed, Monitors
<1>4. Over(StopToRetry(m))
  BY SMT DEF StopToRetry, Monitors
<1>5. Over(Stopped(m))
  BY SMT DEF Stopped, Monitors
<1>6. \A n \in Monitors : Over(n) => GoesOn(m, n) /\ ~Watching(n)
  BY DEF GoesOn, Watching
<1> HIDE DEF Over
<1> QED BY <1>1, <1>2, <1>3, <1>4, <1>5, <1>6

LEMMA NextAttemptType ==
  ASSUME NEW m \in Monitors, m.gen # LastAttempt
  PROVE  /\ NextAttempt(m) \in Monitors
         /\ NextAttempt(m).persistent = m.persistent
         /\ AfterPeerStop(m) \in Monitors
         /\ AfterPeerStop(m).persistent = m.persistent
         /\ AfterPeerStop(m).peerStop
<1>1. m.gen + 1 \in Attempts
  BY MonitorAssumption, AttemptBounds DEF Monitors, Attempts
<1>2. NextAttempt(m) \in Monitors /\ NextAttempt(m).persistent = m.persistent
  <2>1. NextAttempt(m) \in Monitors
    BY Zenon, <1>1, AttemptBounds, MonitorUpdates DEF NextAttempt, MonitorStates
  <2>2. NextAttempt(m).persistent = m.persistent
    BY SMT DEF NextAttempt, Monitors
  <2> QED BY <2>1, <2>2
<1> HIDE DEF NextAttempt
<1>3. AfterPeerStop(m) \in Monitors
  BY Zenon, <1>2, MonitorUpdates DEF AfterPeerStop
<1>4. /\ AfterPeerStop(m).persistent = NextAttempt(m).persistent
      /\ AfterPeerStop(m).peerStop
  BY <1>2 DEF AfterPeerStop, Monitors
<1> QED BY <1>2, <1>3, <1>4

\* A step goes on in the attempt, or it begins the next one and says so.
LEMMA StepMonitor ==
  ASSUME NEW m \in Monitors, NEW due
  PROVE  LET r == Step(m, due)
         IN \/ GoesOn(m, r.m)
            \/ /\ r.m \in Monitors /\ r.m.persistent = m.persistent
               /\ r.m.retryReady /\ r.send = "none"
<1> DEFINE asked == [m EXCEPT !.asked = TRUE, !.waiting = FALSE, !.confirm = TRUE]
           told == [m EXCEPT !.stopSent = TRUE]
           idle == [m EXCEPT !.state = "idle", !.ready = FALSE]
           next == [NextAttempt(m) EXCEPT !.retryReady = TRUE]
<1>1. GoesOn(m, asked)
  BY DEF GoesOn, Monitors, Watching
<1>2. GoesOn(m, told)
  BY DEF GoesOn, Monitors, Watching
<1>3. GoesOn(m, idle)
  BY DEF GoesOn, Monitors, MonitorStates, Watching
<1>4. m.gen # LastAttempt =>
        next \in Monitors /\ next.persistent = m.persistent /\ next.retryReady
  <2> DEFINE first == NextAttempt(m)
  <2>1. m.gen # LastAttempt => first \in Monitors /\ first.persistent = m.persistent
    BY NextAttemptType
  <2> HIDE DEF first
  <2>2. m.gen # LastAttempt => next \in Monitors
    BY Zenon, <2>1, MonitorUpdates DEF first
  <2>3. m.gen # LastAttempt => next.persistent = first.persistent /\ next.retryReady
    BY SMT, <2>1 DEF Monitors, first
  <2> QED BY <2>1, <2>2, <2>3
<1> HIDE DEF asked, told, idle, next
<1>5. Step(m, due).m \in {asked, told, idle, m, StopToRetry(m), MonitorFailed(m)}
      \/ (Step(m, due).m = next /\ Step(m, due).send = "none" /\ m.gen # LastAttempt)
  BY DEF Step, Sends, asked, told, idle, next
<1> QED BY <1>1, <1>2, <1>3, <1>4, <1>5, MonitorChanges

\* What a frame is answered with says how far the monitor went.
Answered(m, r) ==
  /\ r.m \in Monitors /\ r.m.persistent = m.persistent
  /\ r.confirmed => GoesOn(m, r.m)
  /\ r.retrying => r.m.peerStop \/ (GoesOn(m, r.m) /\ ~Watching(r.m))
  /\ ~r.confirmed /\ ~r.retrying /\ ~r.retryReady /\ ~r.failed /\ ~r.stopped
       => GoesOn(m, r.m)

LEMMA GoesOnAnswered ==
  ASSUME NEW m, NEW r, GoesOn(m, r.m), r.retrying => ~Watching(r.m)
  PROVE  Answered(m, r)
BY DEF Answered, GoesOn

LEMMA ConfirmedAnswer ==
  ASSUME NEW m \in Monitors, Watching(m)
  PROVE  Answered(m, Confirmed(m)) /\ Confirmed(m).m.asked = m.asked
<1> DEFINE state == IF m.state = "requesting" THEN "awaiting" ELSE m.state
           frame == m.state = "requesting" \/ m.frame \/ m.state = "awaiting"
           n == [m EXCEPT !.state = state, !.frame = frame, !.confirm = FALSE,
                          !.busy = 0, !.peerStop = FALSE, !.waiting = FALSE]
<1>0. frame \in BOOLEAN /\ state \in MonitorStates
  BY DEF Monitors, MonitorStates
<1> HIDE DEF frame, state
<1>1. GoesOn(m, n) /\ n.asked = m.asked
  <2>1. n \in Monitors
    BY Zenon, <1>0, AttemptBounds, MonitorUpdates
  <2>2. /\ n.persistent = m.persistent /\ n.gen = m.gen /\ n.asked = m.asked
        /\ n.retryReady = m.retryReady
    BY SMT DEF Monitors
  <2> HIDE DEF n
  <2> QED BY <2>1, <2>2 DEF GoesOn
<1> HIDE DEF n
<1>2. Confirmed(m).m = n /\ Confirmed(m).retrying = FALSE
  BY DEF Confirmed, Nothing, n, frame, state
<1> QED BY <1>1, <1>2, GoesOnAnswered

LEMMA RefusedAnswer ==
  ASSUME NEW m \in Monitors, NEW due
  PROVE  Answered(m, Refused(m, due))
<1> DEFINE busy == IF m.busy < BusyLimit THEN m.busy + 1 ELSE m.busy
           told == [m EXCEPT !.confirm = FALSE, !.busy = busy]
           left == [StopToRetry(told) EXCEPT !.busy = busy]
<1>1. busy \in 0 .. BusyLimit
  BY AttemptBounds DEF Monitors
<1> HIDE DEF busy
<1>2. GoesOn(m, told) /\ told \in Monitors
  BY <1>1 DEF GoesOn, Monitors, Watching
<1> HIDE DEF told
<1>3. GoesOn(told, StopToRetry(told)) /\ ~Watching(StopToRetry(told))
  BY <1>2, MonitorChanges
<1>4. GoesOn(m, StopToRetry(told))
  BY <1>2, <1>3 DEF GoesOn
<1>5. GoesOn(m, left) /\ ~Watching(left)
  BY <1>1, <1>3, <1>4 DEF GoesOn, Monitors, Watching
<1> HIDE DEF left
<1>6. \/ Refused(m, due).m = left
      \/ Refused(m, due).m = told /\ Refused(m, due).retrying = FALSE
  BY DEF Refused, Nothing, left, told, busy
<1> QED BY <1>2, <1>5, <1>6, GoesOnAnswered

LEMMA PeerEndedAnswer ==
  ASSUME NEW m \in Monitors, NEW frame
  PROVE  Answered(m, PeerEnded(m, frame))
<1> DEFINE r == PeerEnded(m, frame)
           waits == [AfterPeerStop(m) EXCEPT !.waiting = TRUE, !.confirm = m.confirm,
                                             !.afterStop = m.afterStop]
           again == [AfterPeerStop(m) EXCEPT !.retryReady = FALSE]
<1>1. CASE m.peerStop
  <2>1. r.m = m /\ r.retrying = FALSE
    BY <1>1 DEF PeerEnded, Nothing
  <2> QED BY <2>1, GoesOnAnswered, MonitorChanges
<1>2. CASE ~m.peerStop /\ m.gen = LastAttempt
  <2>1. r.m = MonitorFailed(m) /\ r.retrying = FALSE
    BY <1>2 DEF PeerEnded, Nothing
  <2> QED BY <2>1, GoesOnAnswered, MonitorChanges
<1>3. CASE ~m.peerStop /\ m.gen # LastAttempt
  <2>1. /\ AfterPeerStop(m) \in Monitors
        /\ AfterPeerStop(m).persistent = m.persistent /\ AfterPeerStop(m).peerStop
    BY <1>3, NextAttemptType
  <2> HIDE DEF AfterPeerStop
  <2>2. waits \in Monitors /\ again \in Monitors
    BY <2>1 DEF Monitors
  <2>3. /\ waits.persistent = m.persistent /\ waits.peerStop
        /\ again.persistent = m.persistent /\ again.peerStop
    BY <2>1 DEF Monitors
  <2> HIDE DEF waits, again
  <2>4. /\ r.m \in {again, waits}
        /\ ~r.confirmed /\ r.retrying
    BY <1>3 DEF PeerEnded, Nothing, waits, again
  <2> QED BY <2>1, <2>2, <2>3, <2>4 DEF Answered
<1> QED BY <1>1, <1>2, <1>3

LEMMA StopAnsweredAnswer ==
  ASSUME NEW m \in Monitors, NEW frame
  PROVE  Answered(m, StopAnswered(m, frame))
<1> DEFINE r == StopAnswered(m, frame)
           idle == [m EXCEPT !.state = "idle", !.ready = FALSE]
           next == IF frame = "released"
                   THEN [NextAttempt(m) EXCEPT !.retryReady = TRUE, !.peerStop = FALSE]
                   ELSE [AfterPeerStop(m) EXCEPT !.retryReady = TRUE]
<1>1. GoesOn(m, idle)
  BY DEF GoesOn, Monitors, MonitorStates, Watching
<1>2. m.gen # LastAttempt => next \in Monitors /\ next.persistent = m.persistent
  <2> DEFINE first == NextAttempt(m)
             later == AfterPeerStop(m)
  <2> SUFFICES ASSUME m.gen # LastAttempt
               PROVE  next \in Monitors /\ next.persistent = m.persistent
    OBVIOUS
  <2>1. /\ first \in Monitors /\ first.persistent = m.persistent
        /\ later \in Monitors /\ later.persistent = m.persistent
    BY NextAttemptType
  <2> HIDE DEF first, later
  <2>2. next = IF frame = "released"
               THEN [first EXCEPT !.retryReady = TRUE, !.peerStop = FALSE]
               ELSE [later EXCEPT !.retryReady = TRUE]
    BY DEF first, later
  <2> HIDE DEF next
  <2>3. next \in Monitors
    BY Zenon, <2>1, <2>2, MonitorUpdates
  <2>4. next.persistent = m.persistent
    BY SMT, <2>1, <2>2 DEF Monitors
  <2> QED BY <2>3, <2>4
<1> HIDE DEF idle, next
<1>3. \/ r.m \in {idle, MonitorFailed(m)} /\ r.retrying = FALSE
      \/ /\ m.gen # LastAttempt /\ r.m = next
         /\ ~r.confirmed /\ ~r.retrying /\ r.retryReady
  BY DEF StopAnswered, Nothing, idle, next
<1> QED BY <1>1, <1>2, <1>3, MonitorChanges, GoesOnAnswered DEF Answered

LEMMA ReceiveMonitor ==
  ASSUME NEW m \in Monitors, NEW frame \in MonitorFrames, NEW due, Accepts(m, frame, due)
  PROVE  Answered(m, Receive(m, frame, due))
<1>1. CASE frame = "confirm"
  <2>1. Watching(m)
    BY <1>1 DEF Accepts, VideoFirst, Receiving, Watching
  <2> QED BY <1>1, <2>1, ConfirmedAnswer DEF Receive
<1>2. CASE frame = "busy"
  BY <1>2, RefusedAnswer DEF Receive
<1>3. CASE frame \in {"keepalive", "alive"}
  BY <1>3, MonitorChanges, GoesOnAnswered DEF Receive, Nothing
<1>4. CASE frame \in {"hangup", "ended", "released"}
  BY <1>4, PeerEndedAnswer, StopAnsweredAnswer DEF Receive
<1> QED BY <1>1, <1>2, <1>3, <1>4 DEF MonitorFrames

-----------------------------------------------------------------------------
(* The pipeline *)

\* What no handler changes of a session, and what holds of it halfway through.
Same(s, t) ==
  /\ t \in MediaRecords
  /\ t.gen = s.gen
  /\ t.purpose = s.purpose
  /\ t.handoff = s.handoff
  /\ t.call = s.call
  /\ t.prep = s.prep
  /\ t.m.persistent = s.m.persistent
  /\ t.sent = s.sent
  /\ t.pending = s.pending
  /\ t.viewer \in {s.viewer, FALSE}

Base(s) ==
  /\ s \in MediaRecords
  /\ s.m.persistent = (s.purpose = "preview")
  /\ s.purpose = "call" => ~s.prep

\* The parts of InStep, and what makes them inductive.
Agrees(s) == Watching(s.m) /\ ~s.m.retryReady => s.mgen = s.m.gen
Trusted(s) == s.prep /\ s.readyFor # 0 => s.m.asked /\ s.readyFor = s.mgen
Owned(s) == s.encoder = "running" => s.pub

\* A session that failed is only kept for a child that is out of reach.
Sane(s) ==
  /\ Base(s)
  /\ s.state # "failed" /\ ~Stuck(s) => Agrees(s)
  /\ Trusted(s)
  /\ Owned(s)
  /\ s.state = "failed" => Stuck(s)

LEMMA SameBase ==
  ASSUME NEW s, NEW t, Base(s), Same(s, t)
  PROVE  Base(t)
BY DEF Base, Same

LEMMA SameTrans ==
  ASSUME NEW s, NEW t, NEW u, Same(s, t), Same(t, u)
  PROVE  Same(s, u)
BY DEF Same

LEMMA SameSelf ==
  ASSUME NEW s \in MediaRecords
  PROVE  Same(s, s)
BY DEF Same

LEMMA SaneInStep ==
  ASSUME NEW s
  PROVE  Sane(s) => InStep(s) /\ Base(s)
BY DEF Sane, InStep, Base, Agrees, Trusted

\* The pipeline is down: no picture is trusted and no child runs.
Down(t) == t.encoder \in {"none", "stuck"} /\ t.pub = FALSE /\ t.readyFor = 0

LEMMA DownOwned ==
  ASSUME NEW t, Down(t)
  PROVE  Owned(t) /\ Trusted(t) /\ (~Stuck(t) => t.encoder = "none")
BY DEF Down, Owned, Trusted, Stuck

LEMMA ZeroAttempt == 0 \in Attempts
BY MonitorAssumption DEF Attempts

\* A record stays a session when one field takes a value of its own.
LEMMA SessionUpdates ==
  \A s \in MediaRecords :
    /\ \A v \in {"preview", "call"} : [s EXCEPT !.purpose = v] \in MediaRecords
    /\ \A v \in SessionStates : [s EXCEPT !.state = v] \in MediaRecords
    /\ \A v \in {"waiting", "live", "reconnecting"} : [s EXCEPT !.source = v] \in MediaRecords
    /\ \A v \in Attempts :
         /\ [s EXCEPT !.gen = v] \in MediaRecords
         /\ [s EXCEPT !.mgen = v] \in MediaRecords
         /\ [s EXCEPT !.readyFor = v] \in MediaRecords
    /\ \A v \in Nat : [s EXCEPT !.call = v] \in MediaRecords
    /\ \A v \in Monitors : [s EXCEPT !.m = v] \in MediaRecords
    /\ \A v \in BOOLEAN :
         /\ [s EXCEPT !.prep = v] \in MediaRecords
         /\ [s EXCEPT !.handoff = v] \in MediaRecords
         /\ [s EXCEPT !.sent = v] \in MediaRecords
         /\ [s EXCEPT !.frames = v] \in MediaRecords
BY SMT DEF MediaRecords

\* The same of one field of its monitor.
LEMMA SessionMonitorUpdates ==
  \A s \in MediaRecords : \A v \in BOOLEAN :
    /\ [s EXCEPT !.m.persistent = v] \in MediaRecords
    /\ [s EXCEPT !.m.grace = v] \in MediaRecords
    /\ [s EXCEPT !.m.retryReady = v] \in MediaRecords
<1> SUFFICES ASSUME NEW s \in MediaRecords, NEW v \in BOOLEAN
             PROVE  /\ [s EXCEPT !.m.persistent = v] \in MediaRecords
                    /\ [s EXCEPT !.m.grace = v] \in MediaRecords
                    /\ [s EXCEPT !.m.retryReady = v] \in MediaRecords
  OBVIOUS
<1>1. s.m \in Monitors
  BY DEF MediaRecords
<1> QED BY Zenon, <1>1, MonitorUpdates, SessionUpdates

LEMMA StopEncoderDoes ==
  ASSUME NEW s \in MediaRecords, NEW stops
  PROVE  LET t == StopEncoder(s, stops)
         IN /\ Same(s, t) /\ t.m = s.m /\ t.mgen = s.mgen /\ t.state = s.state
            /\ t.readyFor = s.readyFor /\ t.pub = s.pub /\ t.viewer = s.viewer
            /\ t.confirmed = s.confirmed
            /\ t.encoder \in {"none", "stuck"}
            /\ Stuck(t) => s.encoder # "none"
<1> DEFINE e == IF s.encoder = "none" \/ stops THEN "none" ELSE "stuck"
<1>1. e \in {"none", "stuck"} /\ (e = "stuck" => s.encoder # "none")
  OBVIOUS
<1>2. StopEncoder(s, stops) = [s EXCEPT !.encoder = e]
  BY DEF StopEncoder, MediaRecords
<1> HIDE DEF e
<1> QED BY <1>1, <1>2 DEF MediaRecords, Same, Encoders, Stuck

LEMMA StopPipelineDoes ==
  ASSUME NEW s \in MediaRecords, NEW stops
  PROVE  LET t == StopPipeline(s, stops)
         IN /\ Same(s, t) /\ t.m = s.m /\ t.mgen = s.mgen /\ t.state = s.state
            /\ t.viewer = s.viewer /\ t.confirmed = s.confirmed
            /\ Down(t)
<1> DEFINE u == StopEncoder(s, stops)
<1>1. /\ Same(s, u) /\ u.m = s.m /\ u.mgen = s.mgen /\ u.state = s.state
      /\ u.viewer = s.viewer /\ u.confirmed = s.confirmed
      /\ u.encoder \in {"none", "stuck"}
  BY StopEncoderDoes
<1> HIDE DEF u
<1>2. u \in MediaRecords
  BY <1>1 DEF Same
<1>3. /\ Same(u, ClearPublication(u))
      /\ ClearPublication(u).m = u.m
      /\ ClearPublication(u).mgen = u.mgen
      /\ ClearPublication(u).state = u.state
      /\ ClearPublication(u).viewer = u.viewer
      /\ ClearPublication(u).confirmed = u.confirmed
      /\ ClearPublication(u).encoder = u.encoder
      /\ ClearPublication(u).pub = FALSE
      /\ ClearPublication(u).readyFor = 0
  BY <1>2, ZeroAttempt DEF ClearPublication, Same, MediaRecords
<1>4. StopPipeline(s, stops) = ClearPublication(u)
  BY DEF StopPipeline, u
<1> QED BY <1>1, <1>3, <1>4, SameTrans DEF Down

LEMMA FailEncoderDoes ==
  ASSUME NEW s \in MediaRecords, NEW stops
  PROVE  LET t == FailEncoder(s, stops)
         IN /\ Same(s, t) /\ t.m = s.m /\ t.mgen = s.mgen /\ t.state = "failed"
            /\ t.confirmed = s.confirmed
            /\ Down(t)
<1> DEFINE u == StopPipeline(s, stops)
<1>1. /\ Same(s, u) /\ u.m = s.m /\ u.mgen = s.mgen /\ Down(u)
      /\ u.confirmed = s.confirmed
  BY StopPipelineDoes
<1> HIDE DEF u
<1>2. LET t == [u EXCEPT !.state = "failed"]
      IN /\ Same(u, t) /\ t.m = u.m /\ t.mgen = u.mgen /\ t.state = "failed" /\ Down(t)
         /\ t.confirmed = u.confirmed
  BY <1>1 DEF Same, MediaRecords, SessionStates, Down
<1> QED BY <1>1, <1>2, SameTrans DEF FailEncoder, u

LEMMA ResetPipelineDoes ==
  ASSUME NEW s \in MediaRecords, NEW stops
  PROVE  LET t == ResetPipeline(s, stops)
         IN /\ Same(s, t) /\ t.m = s.m /\ t.mgen = s.mgen /\ t.state = s.state
            /\ t.confirmed = s.confirmed
            /\ Down(t)
<1> DEFINE u == StopPipeline(s, stops)
<1>1. /\ Same(s, u) /\ u.m = s.m /\ u.mgen = s.mgen /\ u.state = s.state /\ Down(u)
      /\ u.confirmed = s.confirmed
  BY StopPipelineDoes
<1> HIDE DEF u
<1>2. LET t == [u EXCEPT !.frames = FALSE, !.viewer = FALSE]
      IN /\ Same(u, t) /\ t.m = u.m /\ t.mgen = u.mgen /\ t.state = u.state /\ Down(t)
         /\ t.confirmed = u.confirmed
  BY <1>1 DEF Same, MediaRecords, Down
<1> QED BY <1>1, <1>2, SameTrans DEF ResetPipeline, u

LEMMA ShownIs == ASSUME NEW s PROVE Shown(s) \in {"viewing", "publishing"}
BY DEF Shown

\* The attempt is reset on the monitor `n`: what only concerned frames is gone.
LEMMA ResetAttemptDoes ==
  ASSUME NEW s \in MediaRecords, NEW gen \in Attempts
  PROVE  LET t == ResetAttempt(s, gen)
         IN /\ Same(s, t) /\ GoesOn(s.m, t.m)
            /\ t.m.retryReady = s.m.retryReady /\ t.m.state = s.m.state
            /\ t.mgen = gen /\ t.readyFor = 0
            /\ t.encoder = s.encoder /\ t.pub = s.pub /\ t.state = s.state
<1> DEFINE n == [s.m EXCEPT !.ready = FALSE]
           frames == s.frames /\ ~s.prep
<1>1. s.m \in Monitors /\ frames \in BOOLEAN
  BY DEF MediaRecords
<1>2. GoesOn(s.m, n) /\ n.retryReady = s.m.retryReady /\ n.state = s.m.state
  BY <1>1 DEF GoesOn, Monitors, Watching
<1>3. n \in Monitors /\ n.persistent = s.m.persistent
  BY <1>2 DEF GoesOn
<1> HIDE DEF n, frames
<1>4. ResetAttempt(s, gen) =
        [s EXCEPT !.m = n, !.readyFor = 0, !.frames = frames, !.mgen = gen]
  <2> DEFINE a == [s EXCEPT !.m = n]
             b == [a EXCEPT !.readyFor = 0]
  <2>1. b.frames = s.frames
    BY SMT DEF MediaRecords
  <2>2. ResetAttempt(s, gen) = [b EXCEPT !.frames = b.frames /\ ~s.prep, !.mgen = gen]
    BY Zenon DEF ResetAttempt, n
  <2> QED BY Zenon, <2>1, <2>2 DEF frames
<1> DEFINE t == ResetAttempt(s, gen)
<1>5. t \in MediaRecords
  <2>1. [s EXCEPT !.m = n, !.readyFor = 0, !.frames = frames, !.mgen = gen] \in MediaRecords
    BY Zenon, <1>1, <1>3, ZeroAttempt, SessionUpdates
  <2> QED BY Zenon, <2>1, <1>4
<1>6. /\ t.gen = s.gen /\ t.purpose = s.purpose /\ t.handoff = s.handoff
      /\ t.call = s.call /\ t.prep = s.prep /\ t.m = n /\ t.mgen = gen
      /\ t.sent = s.sent /\ t.pending = s.pending /\ t.viewer = s.viewer
      /\ t.readyFor = 0 /\ t.encoder = s.encoder /\ t.pub = s.pub /\ t.state = s.state
  BY SMT, <1>4 DEF MediaRecords
<1> HIDE DEF t
<1> QED BY <1>2, <1>3, <1>5, <1>6 DEF Same, t

\* The pipeline works in the attempt it is in.
Works(s, t) ==
  /\ Same(s, t)
  /\ t.m = s.m
  /\ t.mgen = s.mgen
  /\ t.confirmed = s.confirmed
  /\ t.readyFor \in {0, s.readyFor}
  /\ Owned(s) => Owned(t)

LEMMA WorksSelf ==
  ASSUME NEW s \in MediaRecords
  PROVE  Works(s, s)
BY DEF Works, Same

LEMMA WorksTrans ==
  ASSUME NEW s, NEW t, NEW u, Works(s, t), Works(t, u)
  PROVE  Works(s, u)
BY DEF Works, Same

LEMMA WorksKeep ==
  ASSUME NEW s, NEW t, Works(s, t)
  PROVE  /\ Agrees(s) => Agrees(t)
         /\ Trusted(s) => Trusted(t)
         /\ Base(s) => Base(t)
         /\ t \in MediaRecords
BY DEF Works, Same, Agrees, Trusted, Base

LEMMA DownWorks ==
  ASSUME NEW s, NEW t, Same(s, t), t.m = s.m, t.mgen = s.mgen,
         t.confirmed = s.confirmed, Down(t)
  PROVE  Works(s, t)
BY DownOwned DEF Works, Down

LEMMA SourceLostDoes ==
  ASSUME NEW s \in MediaRecords
  PROVE  LET t == SourceLost(s)
         IN /\ Works(s, t)
            /\ t.encoder = s.encoder /\ t.pub = s.pub /\ t.state = s.state
<1> DEFINE lost == IF s.prep THEN 0 ELSE s.readyFor
           t == [s EXCEPT !.source = "reconnecting", !.readyFor = lost]
<1>1. lost \in Attempts /\ lost \in {0, s.readyFor}
  BY ZeroAttempt DEF MediaRecords
<1> HIDE DEF lost
<1>2. Works(s, t) /\ t.encoder = s.encoder /\ t.pub = s.pub /\ t.state = s.state
  BY <1>1 DEF Works, Same, Owned, MediaRecords
<1> HIDE DEF t
<1>3. SourceLost(s) \in {s, t}
  BY DEF SourceLost, MediaRecords, t, lost
<1> QED BY <1>2, <1>3, WorksSelf

LEMMA RecoveredDoes ==
  ASSUME NEW s \in MediaRecords, NEW stops
  PROVE  LET t == Recovered(s, stops)
         IN Works(s, t) /\ Down(t)
<1> DEFINE t == ResetPipeline(s, stops)
           back == IF s.viewer THEN "viewing"
                   ELSE IF s.m.state \in {"idle", "failed"} THEN "publishing"
                   ELSE s.m.state
           u == [t EXCEPT !.viewer = s.viewer, !.state = back]
<1>1. /\ Same(s, t) /\ t.m = s.m /\ t.mgen = s.mgen /\ Down(t)
      /\ t.confirmed = s.confirmed
  BY ResetPipelineDoes
<1>2. back \in SessionStates
  BY DEF MediaRecords, Monitors, MonitorStates, SessionStates
<1> HIDE DEF t, back
<1>3. /\ Same(s, u) /\ u.m = s.m /\ u.mgen = s.mgen /\ Down(u)
      /\ u.confirmed = s.confirmed
  BY <1>1, <1>2 DEF Same, MediaRecords, Down
<1> HIDE DEF u
<1>4. Works(s, u)
  BY <1>3, DownWorks
<1>5. Works(s, FailEncoder(s, stops)) /\ Down(FailEncoder(s, stops))
  BY FailEncoderDoes, DownWorks
<1>6. Recovered(s, stops) \in {u, FailEncoder(s, stops)}
  BY DEF Recovered, u, t, back
<1> QED BY <1>3, <1>4, <1>5, <1>6

LEMMA ChildExitedDoes ==
  ASSUME NEW s \in MediaRecords
  PROVE  Works(s, ChildExited(s)) /\ Down(ChildExited(s))
<1> DEFINE u == [s EXCEPT !.encoder = "none"]
<1>1. Works(s, u)
  BY DEF Works, Same, Owned, MediaRecords, Encoders
<1> HIDE DEF u
<1>2. Works(u, Recovered(u, TRUE)) /\ Down(Recovered(u, TRUE))
  BY <1>1, WorksKeep, RecoveredDoes
<1> QED BY <1>1, <1>2, WorksTrans DEF ChildExited, u

LEMMA RefrozenDoes ==
  ASSUME NEW s \in MediaRecords, NEW how, NEW stops
  PROVE  LET u == Refrozen(s, how, stops)
         IN Works(s, u) /\ (u = s \/ (s.encoder = "running" /\ Down(u)))
<1>1. Works(s, FailEncoder(s, stops)) /\ Down(FailEncoder(s, stops))
  BY FailEncoderDoes, DownWorks
<1>2. Works(s, Recovered(s, stops)) /\ Down(Recovered(s, stops))
  BY RecoveredDoes
<1>3. \/ Refrozen(s, how, stops) = s
      \/ /\ Refrozen(s, how, stops) \in {Recovered(s, stops), FailEncoder(s, stops)}
         /\ s.encoder = "running"
  BY DEF Refrozen
<1> QED BY <1>1, <1>2, <1>3, WorksSelf

LEMMA ResizedDoes ==
  ASSUME NEW s \in MediaRecords, NEW stops
  PROVE  Works(s, Resized(s, stops))
<1> DEFINE t == StopEncoder(s, stops)
<1>1. Works(s, FailEncoder(s, stops))
  BY FailEncoderDoes, DownWorks
<1>2. Same(s, t) /\ t.m = s.m /\ t.mgen = s.mgen /\ t.readyFor = s.readyFor
      /\ t.confirmed = s.confirmed
      /\ t.encoder \in {"none", "stuck"}
  BY StopEncoderDoes
<1>3. Works(s, t)
  BY <1>2 DEF Works, Owned
<1> HIDE DEF t
<1>4. Works(t, FailEncoder(t, stops))
  BY <1>3, WorksKeep, FailEncoderDoes, DownWorks
<1>5. Works(s, FailEncoder(t, stops))
  BY <1>3, <1>4, WorksTrans
<1>6. Resized(s, stops) \in {s, t, FailEncoder(s, stops), FailEncoder(t, stops)}
  BY DEF Resized, t
<1> QED BY <1>1, <1>3, <1>5, <1>6, WorksSelf

LEMMA QueuedDoes ==
  ASSUME NEW s \in MediaRecords, NEW how, NEW stops
  PROVE  LET r == Queued(s, how, stops)
         IN /\ Works(s, r.s) /\ (Owned(s) => Owned(r.s))
            /\ s.encoder = "stuck" => r.s.state = "failed"
<1> DEFINE t == [s EXCEPT !.pub = TRUE, !.frames = TRUE, !.source = "live"]
           u == [t EXCEPT !.encoder = "running"]
           shown == [u EXCEPT !.state = Shown(u)]
           blocked == [u EXCEPT !.state = "publishing"]
           r == Queued(s, how, stops)
<1>1. Works(s, t) /\ t \in MediaRecords /\ t.pub = TRUE /\ t.encoder = s.encoder
  BY DEF Works, Same, Owned, MediaRecords
<1> HIDE DEF t
<1>2. Works(t, u) /\ u \in MediaRecords /\ u.pub = TRUE
  BY <1>1 DEF Works, Same, Owned, MediaRecords, Encoders
<1> HIDE DEF u
<1>3. Works(u, shown) /\ Works(u, blocked)
  BY <1>2, ShownIs DEF Works, Same, Owned, MediaRecords, SessionStates
<1>4. Works(u, Recovered(u, stops))
  BY <1>2, RecoveredDoes
<1>5. Works(t, FailEncoder(t, stops)) /\ FailEncoder(t, stops).state = "failed"
  BY <1>1, FailEncoderDoes, DownWorks
<1> HIDE DEF shown, blocked
<1>6. \/ r.s = FailEncoder(t, stops)
      \/ r.s \in {u, shown, blocked, Recovered(u, stops)} /\ s.encoder # "stuck"
  BY DEF Queued, Pushed, Startable, t, u, shown, blocked
<1>7. Works(s, u) /\ Works(s, FailEncoder(t, stops))
  BY <1>1, <1>2, <1>5, WorksTrans
<1>8. Works(s, shown) /\ Works(s, blocked) /\ Works(s, Recovered(u, stops))
  BY <1>3, <1>4, <1>7, WorksTrans
<1> HIDE DEF r
<1>9. Works(s, r.s) /\ (s.encoder = "stuck" => r.s.state = "failed")
  BY <1>5, <1>6, <1>7, <1>8
<1> QED BY <1>9 DEF Works, r

LEMMA EncodedDoes ==
  ASSUME NEW s \in MediaRecords, NEW how, NEW stops
  PROVE  Works(s, Encoded(s, how, stops).s)
<1> DEFINE t == IF Reaped(s, how) THEN ChildExited(s) ELSE s
           u == IF how = "resized" THEN Resized(t, stops) ELSE t
<1>1. Works(s, t) /\ t \in MediaRecords
  BY ChildExitedDoes, WorksSelf, WorksKeep
<1> HIDE DEF t
<1>2. Works(t, u)
  BY <1>1, ResizedDoes, WorksSelf
<1>3. Works(s, u) /\ u \in MediaRecords
  BY <1>1, <1>2, WorksTrans, WorksKeep
<1> HIDE DEF u
<1>4. Works(u, Queued(u, how, stops).s)
  BY <1>3, QueuedDoes
<1>5. Encoded(s, how, stops).s \in {u, Queued(u, how, stops).s}
  BY DEF Encoded, Pushed, u, t
<1> QED BY <1>3, <1>4, <1>5, WorksTrans

-----------------------------------------------------------------------------
(* The handlers of the manager *)

\* The handler leaves the session to the same call; a slot only becomes free
\* without its child.
SameCall(s, t) ==
  /\ t \in MediaRecords
  /\ t.gen = s.gen
  /\ t.purpose = s.purpose
  /\ t.handoff = s.handoff
  /\ t.call = s.call

Outcome(s, o) ==
  /\ SameCall(s, o.s)
  /\ o.gone \in BOOLEAN
  /\ IF o.gone THEN o.s.encoder = "none" ELSE Sane(o.s)

\* Nor does a handler that nobody asked for anything touch what a request began.
SameUse(s, t) ==
  /\ SameCall(s, t)
  /\ t.sent = s.sent
  /\ t.pending = s.pending
  /\ t.viewer \in {s.viewer, FALSE}

Unasked(s, o) == Outcome(s, o) /\ SameUse(s, o.s)

LEMMA SameIsSameUse ==
  ASSUME NEW s, NEW t, Same(s, t)
  PROVE  SameUse(s, t)
BY DEF Same, SameUse, SameCall

LEMMA OutcomeFrom ==
  ASSUME NEW s, NEW t, NEW o, SameUse(s, t), Unasked(t, o)
  PROVE  Unasked(s, o)
BY DEF SameCall, SameUse, Outcome, Unasked

LEMMA KeptOutcome ==
  ASSUME NEW s, NEW t, SameUse(s, t), Sane(t)
  PROVE  Unasked(s, Kept(t))
BY DEF Unasked, Outcome, Kept, SameUse

LEMMA DownStuck ==
  ASSUME NEW s, NEW t, Base(s), Same(s, t), Down(t), Stuck(t)
  PROVE  Sane(t)
BY SameBase, DownOwned DEF Sane

LEMMA GoneOutcome ==
  ASSUME NEW s, NEW t, Base(s), Same(s, t), Down(t)
  PROVE  Unasked(s, Gone(t))
<1>1. CASE Stuck(t)
  <2>1. Sane(t)
    BY <1>1, DownStuck
  <2> QED BY <1>1, <2>1, SameIsSameUse DEF Gone, Outcome, Unasked, SameUse
<1>2. CASE ~Stuck(t)
  <2>1. t.encoder = "none"
    BY <1>2, DownOwned
  <2> QED BY <1>2, <2>1, SameIsSameUse DEF Gone, Outcome, Unasked, SameUse
<1> QED BY <1>1, <1>2

LEMMA ReleaseFailedDoes ==
  ASSUME NEW s, Base(s), NEW stops
  PROVE  /\ Unasked(s, ReleaseFailed(s, stops))
         /\ ReleaseFailed(s, stops) = Gone(FailEncoder(s, stops))
<1>1. ReleaseFailed(s, stops) = Gone(FailEncoder(s, stops))
  BY DEF ReleaseFailed, FailEncoder
<1>2. Same(s, FailEncoder(s, stops)) /\ Down(FailEncoder(s, stops))
  BY FailEncoderDoes DEF Base
<1> QED BY <1>1, <1>2, GoneOutcome

LEMMA FinishedDoes ==
  ASSUME NEW s, Base(s), NEW stops
  PROVE  Unasked(s, Finished(s, stops))
<1>1. Same(s, StopPipeline(s, stops)) /\ Down(StopPipeline(s, stops))
  BY StopPipelineDoes DEF Base
<1> QED BY <1>1, GoneOutcome DEF Finished

\* Another monitor of the same kind in the session.
LEMMA WithMonitor ==
  ASSUME NEW s \in MediaRecords, NEW m \in Monitors, m.persistent = s.m.persistent
  PROVE  LET t == [s EXCEPT !.m = m]
         IN Same(s, t) /\ t.m = m /\ t.mgen = s.mgen /\ t.readyFor = s.readyFor
            /\ t.encoder = s.encoder /\ t.pub = s.pub /\ t.state = s.state
BY DEF Same, MediaRecords

LEMMA StopSentMonitor ==
  ASSUME NEW m \in Monitors
  PROVE  LET n == [Stopped(m) EXCEPT !.stopSent = TRUE]
         IN GoesOn(m, n) /\ ~Watching(n)
BY DEF Stopped, GoesOn, Monitors, MonitorStates, Watching

LEMMA AbandonedDoes ==
  ASSUME NEW s, Base(s), NEW stops
  PROVE  Unasked(s, Abandoned(s, stops))
<1> DEFINE n == [Stopped(s.m) EXCEPT !.stopSent = TRUE]
           t == [s EXCEPT !.m = n]
<1>1. s \in MediaRecords /\ s.m \in Monitors
  BY DEF Base, MediaRecords
<1>2. n \in Monitors /\ n.persistent = s.m.persistent
  BY <1>1, StopSentMonitor DEF GoesOn
<1> HIDE DEF n
<1>3. Same(s, t)
  BY <1>1, <1>2, WithMonitor
<1>4. Base(t)
  BY <1>3, SameBase
<1>5. t = [s EXCEPT !.m = [Stopped(@) EXCEPT !.stopSent = TRUE]]
  BY <1>1 DEF n, MediaRecords
<1> HIDE DEF t
<1>6. Unasked(s, ReleaseFailed(t, stops))
  BY <1>3, <1>4, ReleaseFailedDoes, SameIsSameUse, OutcomeFrom
<1>7. Unasked(s, ReleaseFailed(s, stops))
  BY ReleaseFailedDoes
<1>8. Abandoned(s, stops) \in {ReleaseFailed(s, stops), ReleaseFailed(t, stops)}
  BY <1>5 DEF Abandoned
<1> QED BY <1>6, <1>7, <1>8

LEMMA ReleasedDoes ==
  ASSUME NEW s, Base(s), NEW reason \in EndReasons \cup {"none"}, NEW stops
  PROVE  Outcome(s, Released(s, reason, stops))
<1> DEFINE t == StopPipeline(s, stops)
           u == [t EXCEPT !.pending = reason, !.state = "stopping", !.viewer = FALSE]
<1>1. Same(s, t) /\ Down(t)
  BY StopPipelineDoes DEF Base
<1>2. Outcome(s, Gone(t))
  BY <1>1, GoneOutcome DEF Unasked
<1> HIDE DEF t
<1>3. Down(u) /\ (Stuck(t) => Stuck(u))
  BY <1>1 DEF Same, Down, Stuck, MediaRecords, SessionStates
<1>4. SameCall(s, u) /\ Base(u)
  <2>1. t \in MediaRecords
    BY <1>1 DEF Same
  <2>2. u \in MediaRecords
    BY <2>1 DEF MediaRecords, SessionStates
  <2>3. /\ u.gen = t.gen /\ u.purpose = t.purpose /\ u.handoff = t.handoff
        /\ u.call = t.call /\ u.prep = t.prep /\ u.m = t.m
    BY <2>1 DEF MediaRecords
  <2> HIDE DEF u
  <2> QED BY <1>1, <2>2, <2>3 DEF Same, SameCall, Base
<1> HIDE DEF u
<1>5. CASE Stuck(t)
  <2>1. Sane(u)
    BY <1>3, <1>4, <1>5, DownOwned DEF Sane
  <2> QED BY <1>4, <1>5, <2>1 DEF Released, Outcome, Kept, t, u
<1>6. CASE ~Stuck(t)
  BY <1>2, <1>6 DEF Released, t
<1> QED BY <1>5, <1>6

\* The next attempt begins in step, or fails on a child that is out of reach.
LEMMA NewAttemptDoes ==
  ASSUME NEW s, Base(s), Owned(s), NEW stops
  PROVE  LET t == NewAttempt(s, stops)
         IN /\ Same(s, t) /\ Owned(t) /\ t.readyFor = 0
            /\ IF t.state = "failed" THEN Stuck(t) ELSE t.mgen = t.m.gen
<1> DEFINE r == ResetAttempt(s, s.m.gen)
           on == [r EXCEPT !.state = Shown(s)]
           t == ResetPipeline(s, stops)
           bad == [t EXCEPT !.state = "failed"]
           new == [t EXCEPT !.viewer = s.viewer, !.mgen = s.m.gen, !.state = "requesting"]
<1>0. s \in MediaRecords /\ s.m.gen \in Attempts
  BY DEF Base, MediaRecords, Monitors
<1>1. /\ Same(s, r) /\ r.mgen = s.m.gen /\ r.readyFor = 0
      /\ r.encoder = s.encoder /\ r.pub = s.pub /\ r.m.gen = s.m.gen
  BY <1>0, ResetAttemptDoes DEF GoesOn
<1> HIDE DEF r
<1>2. /\ Same(r, on) /\ on.mgen = on.m.gen /\ on.readyFor = 0
      /\ on.encoder = s.encoder /\ on.pub = s.pub /\ on.state # "failed"
  BY <1>1, ShownIs DEF Same, MediaRecords, SessionStates
<1> HIDE DEF on
<1>3. Same(s, on) /\ Owned(on)
  BY <1>1, <1>2, SameTrans DEF Owned
<1>4. Same(s, t) /\ Down(t) /\ t.m = s.m
  BY <1>0, ResetPipelineDoes
<1> HIDE DEF t
<1>5. Same(t, bad) /\ Down(bad) /\ bad.state = "failed" /\ (Stuck(t) => Stuck(bad))
  BY <1>4 DEF Same, MediaRecords, SessionStates, Down, Stuck
<1>6. /\ Same(s, new) /\ Down(new) /\ new.state = "requesting" /\ new.mgen = new.m.gen
  BY <1>0, <1>4 DEF Same, MediaRecords, SessionStates, Down
<1> HIDE DEF bad, new
<1>7. Same(s, bad) /\ Same(s, new) /\ Owned(bad) /\ Owned(new)
  BY <1>4, <1>5, <1>6, SameTrans, DownOwned
<1>8. \/ NewAttempt(s, stops) = on
      \/ NewAttempt(s, stops) = bad /\ Stuck(t)
      \/ NewAttempt(s, stops) = new
  BY DEF NewAttempt, on, r, bad, new, t
<1> QED BY <1>2, <1>3, <1>5, <1>6, <1>7, <1>8 DEF Down

LEMMA BegunSane ==
  ASSUME NEW s, NEW t, Base(s), Same(s, t), Owned(t), t.readyFor = 0,
         IF t.state = "failed" THEN Stuck(t) ELSE t.mgen = t.m.gen
  PROVE  Sane(t)
BY SameBase DEF Sane, Agrees, Trusted

LEMMA FinishRetryDoes ==
  ASSUME NEW s, Base(s), Owned(s), NEW stops
  PROVE  LET v == FinishRetry(s, stops)
         IN /\ Same(s, v) /\ Owned(v) /\ v.readyFor = 0 /\ Sane(v)
            /\ v.state = "failed" => Stuck(v)
<1> DEFINE t == NewAttempt(s, stops)
           v == [t EXCEPT !.m.retryReady = FALSE]
<1>1. /\ Same(s, t) /\ Owned(t) /\ t.readyFor = 0
      /\ IF t.state = "failed" THEN Stuck(t) ELSE t.mgen = t.m.gen
  BY NewAttemptDoes
<1> HIDE DEF t
<1>2. /\ Same(t, v) /\ Owned(v) /\ v.readyFor = 0
      /\ IF v.state = "failed" THEN Stuck(v) ELSE v.mgen = v.m.gen
  <2>1. t \in MediaRecords /\ t.m \in Monitors
    BY <1>1 DEF Same, MediaRecords
  <2>2. v \in MediaRecords
    BY Zenon, <2>1, SessionMonitorUpdates
  <2>3. /\ v.gen = t.gen /\ v.purpose = t.purpose /\ v.handoff = t.handoff
        /\ v.call = t.call /\ v.prep = t.prep /\ v.readyFor = t.readyFor
        /\ v.sent = t.sent /\ v.pending = t.pending /\ v.viewer = t.viewer
        /\ v.state = t.state /\ v.mgen = t.mgen /\ v.encoder = t.encoder /\ v.pub = t.pub
    BY SMT, <2>1 DEF MediaRecords
  <2>4. v.m = [t.m EXCEPT !.retryReady = FALSE]
    BY SMT, <2>1 DEF MediaRecords
  <2>5. v.m.gen = t.m.gen /\ v.m.persistent = t.m.persistent
    BY SMT, <2>1, <2>4 DEF Monitors
  <2> HIDE DEF v
  <2> QED BY <1>1, <2>2, <2>3, <2>5 DEF Same, Owned, Stuck
<1>3. Same(s, v)
  BY <1>1, <1>2, SameTrans
<1> HIDE DEF v
<1>4. Sane(t) /\ Sane(v)
  BY <1>1, <1>2, <1>3, BegunSane
<1>5. FinishRetry(s, stops) \in {t, v}
  BY DEF FinishRetry, t, v
<1> QED BY <1>1, <1>2, <1>3, <1>4, <1>5

-----------------------------------------------------------------------------
(* A visit of the tick *)

LEMMA OutcomeFrom3 ==
  ASSUME NEW s, NEW t, NEW stops, SameUse(s, t), Base(t)
  PROVE  /\ Unasked(s, ReleaseFailed(t, stops))
         /\ Unasked(s, Abandoned(t, stops))
         /\ Unasked(s, Finished(t, stops))
BY OutcomeFrom, ReleaseFailedDoes, AbandonedDoes, FinishedDoes

LEMMA TickEncoderDoes ==
  ASSUME NEW s, Sane(s), NEW e
  PROVE  Unasked(s, TickEncoder(s, e))
<1> DEFINE t == IF s.encoder = "running" /\ Reaped(s, e.how) THEN ChildExited(s) ELSE s
           u == Refrozen(t, e.how, e.stops)
<1>0. s \in MediaRecords /\ Base(s)
  BY DEF Sane, Base
<1>1. Works(s, t) /\ (t = s \/ s.encoder = "running")
  BY <1>0, ChildExitedDoes, WorksSelf
<1> HIDE DEF t
<1>2. t \in MediaRecords /\ Base(t) /\ SameUse(s, t)
  BY <1>0, <1>1, WorksKeep, SameIsSameUse DEF Works
<1>3. Works(t, u) /\ (u = t \/ t.encoder = "running")
  BY <1>2, RefrozenDoes
<1> HIDE DEF u
<1>4. Works(s, u)
  BY <1>1, <1>3, WorksTrans
<1>5. Base(u) /\ SameUse(s, u)
  BY <1>0, <1>4, WorksKeep, SameIsSameUse DEF Works
<1>6. CASE t.state = "failed"
  BY <1>2, <1>6, OutcomeFrom3 DEF TickEncoder, t
<1>7. CASE t.state # "failed" /\ u.state = "failed"
  BY <1>5, <1>7, OutcomeFrom3 DEF TickEncoder, t, u
<1>8. CASE t.state # "failed" /\ u.state # "failed"
  <2>1. Stuck(s) => u = s
    BY <1>1, <1>3 DEF Stuck
  <2>2. ~Stuck(s) => Agrees(s) /\ Trusted(s) /\ Owned(s)
    BY DEF Sane
  <2>3. ~Stuck(s) => Agrees(u) /\ Trusted(u) /\ Owned(u)
    BY <1>4, <2>2, WorksKeep DEF Works
  <2>4. ~Stuck(s) => Sane(u)
    BY <1>5, <1>8, <2>3 DEF Sane
  <2>5. TickEncoder(s, e) = Kept(u)
    BY <1>8 DEF TickEncoder, t, u
  <2> QED BY <1>5, <2>1, <2>4, <2>5, KeptOutcome
<1> QED BY <1>6, <1>7, <1>8

LEMMA StallRetryDoes ==
  ASSUME NEW s, Sane(s)
  PROVE  Same(s, StallRetry(s)) /\ Sane(StallRetry(s))
<1> DEFINE n == StopToRetry(s.m)
           a == [s EXCEPT !.m = n]
           t == SourceLost(a)
           r == ResetAttempt(t, t.m.gen)
           on == [r EXCEPT !.state = Shown(t)]
           off == [t EXCEPT !.state = "stopping"]
<1>0. /\ s \in MediaRecords /\ s.m \in Monitors
      /\ a = [s EXCEPT !.m = StopToRetry(@)]
  BY DEF Sane, Base, MediaRecords
<1>1. GoesOn(s.m, n) /\ ~Watching(n)
  BY <1>0, MonitorChanges
<1>2. /\ Same(s, a) /\ a.m = n /\ a.mgen = s.mgen /\ a.readyFor = s.readyFor
      /\ a.encoder = s.encoder /\ a.pub = s.pub
  BY <1>0, <1>1, WithMonitor DEF GoesOn
<1>3. Base(a) /\ Trusted(a) /\ Owned(a) /\ a \in MediaRecords
  BY <1>1, <1>2, SameBase DEF Sane, Trusted, Owned, Same, GoesOn, Base
<1> HIDE DEF a, n
<1>4. Works(a, t) /\ Base(t) /\ Trusted(t) /\ Owned(t) /\ t \in MediaRecords /\ t.m = n
  BY <1>2, <1>3, SourceLostDoes, WorksKeep DEF Works
<1> HIDE DEF t
<1>5. Same(s, t) /\ t.m.gen \in Attempts
  BY <1>2, <1>4, SameTrans DEF Works, MediaRecords, Monitors
<1>6. /\ Same(t, r) /\ r.mgen = t.m.gen /\ r.readyFor = 0 /\ r.m.gen = t.m.gen
      /\ r.encoder = t.encoder /\ r.pub = t.pub
  BY <1>4, <1>5, ResetAttemptDoes DEF GoesOn
<1> HIDE DEF r
<1>7. Same(r, on) /\ Owned(on) /\ on.readyFor = 0 /\ on.mgen = on.m.gen /\ on.state # "failed"
  BY <1>4, <1>6, ShownIs DEF Same, MediaRecords, SessionStates, Owned
<1>8. /\ Same(t, off) /\ Owned(off) /\ Trusted(off) /\ Agrees(off) /\ off.state # "failed"
  BY <1>1, <1>4 DEF Same, MediaRecords, SessionStates, Owned, Trusted, Agrees
<1> HIDE DEF on, off
<1>9. Same(s, on) /\ Same(s, off)
  BY <1>5, <1>6, <1>7, <1>8, SameTrans
<1>10. Sane(on) /\ Sane(off)
  BY <1>7, <1>8, <1>9, SameBase, BegunSane DEF Sane
<1>11. StallRetry(s) \in {on, off}
  BY <1>0 DEF StallRetry, on, off, r, t, a
<1> QED BY <1>9, <1>10, <1>11

LEMMA TickStalledDoes ==
  ASSUME NEW s, Sane(s), NEW e
  PROVE  Unasked(s, TickStalled(s, e))
<1>1. s \in MediaRecords /\ Base(s)
  BY DEF Sane, Base
<1>2. Unasked(s, TickEncoder(s, e))
  BY TickEncoderDoes
<1>3. Unasked(s, TickEncoder(StallRetry(s), e))
  BY StallRetryDoes, TickEncoderDoes, SameIsSameUse, OutcomeFrom
<1>4. Unasked(s, Abandoned(s, e.stops)) /\ Unasked(s, ReleaseFailed(s, e.stops))
  BY <1>1, AbandonedDoes, ReleaseFailedDoes
<1>5. TickStalled(s, e) \in {TickEncoder(s, e), TickEncoder(StallRetry(s), e),
                             Abandoned(s, e.stops), ReleaseFailed(s, e.stops)}
  BY DEF TickStalled
<1> QED BY <1>2, <1>3, <1>4, <1>5

\* What holds once the monitor made its step: a retry that is ready has yet to
\* take the picture of the attempt before away.
Stepped(s) ==
  /\ Base(s)
  /\ Owned(s)
  /\ Agrees(s) \/ Stuck(s)
  /\ Trusted(s) \/ (s.purpose = "preview" /\ s.m.retryReady)
  /\ s.state # "failed"

LEMMA TickMonitorDoes ==
  ASSUME NEW s, Stepped(s), NEW e
  PROVE  Unasked(s, TickMonitor(s, e))
<1> DEFINE preview == s.purpose = "preview"
           state == IF preview /\ s.m.state = "stopping" /\ ~s.pub THEN "stopping" ELSE s.state
           t == [s EXCEPT !.state = state]
           u == IF preview /\ s.m.retryReady THEN FinishRetry(t, e.stops) ELSE t
<1>0. s \in MediaRecords /\ state \in SessionStates /\ state # "failed"
  BY DEF Stepped, Base, MediaRecords, SessionStates
<1> HIDE DEF state
<1>1. Same(s, t) /\ t.m = s.m /\ Owned(t) /\ (Agrees(t) \/ Stuck(t)) /\ t.state # "failed"
  BY <1>0 DEF Stepped, Same, MediaRecords, Owned, Agrees, Stuck
<1>2. Trusted(t) \/ (s.purpose = "preview" /\ s.m.retryReady)
  BY <1>0 DEF Stepped, MediaRecords, Trusted
<1>3. Base(t)
  BY <1>1, SameBase DEF Stepped
<1>4. t = [s EXCEPT !.state = IF preview /\ s.m.state = "stopping" /\ ~s.pub
                              THEN "stopping" ELSE @]
  BY <1>0 DEF MediaRecords, state
<1> HIDE DEF t
<1>5. SameUse(s, u) /\ Sane(u)
  <2>1. CASE preview /\ s.m.retryReady
    <3>1. Same(t, u) /\ Sane(u)
      BY <1>1, <1>3, <2>1, FinishRetryDoes
    <3> QED BY <1>1, <3>1, SameTrans, SameIsSameUse
  <2>2. CASE ~(preview /\ s.m.retryReady)
    <3>1. u = t /\ Trusted(t)
      BY <1>2, <2>2
    <3> QED BY <1>1, <1>3, <3>1, SameIsSameUse DEF Sane
  <2> QED BY <2>1, <2>2
<1>6. TickMonitor(s, e) \in {ReleaseFailed(u, e.stops), Finished(u, e.stops), TickStalled(u, e)}
  BY <1>4 DEF TickMonitor, u
<1> HIDE DEF u
<1>7. Unasked(s, TickStalled(u, e))
  BY <1>5, TickStalledDoes, OutcomeFrom
<1>8. Unasked(s, ReleaseFailed(u, e.stops)) /\ Unasked(s, Finished(u, e.stops))
  BY <1>5, OutcomeFrom3 DEF Sane
<1> QED BY <1>6, <1>7, <1>8

LEMMA StopUnsentDoes ==
  ASSUME NEW s, Base(s), NEW stops
  PROVE  Unasked(s, StopUnsent(s, stops))
<1> DEFINE t == FailEncoder(s, stops)
           u == [t EXCEPT !.state = "stopping"]
           o == ReleaseFailed(s, stops)
<1>1. Unasked(s, o) /\ o = Gone(t)
  BY ReleaseFailedDoes
<1>2. Same(s, t) /\ Down(t)
  BY FailEncoderDoes DEF Base
<1> HIDE DEF t
<1>3. Same(t, u) /\ Down(u) /\ (Stuck(t) => Stuck(u))
  BY <1>2 DEF Same, MediaRecords, SessionStates, Down, Stuck
<1> HIDE DEF u
<1>4. Stuck(t) => Unasked(s, Kept(u))
  BY <1>2, <1>3, SameTrans, DownStuck, SameIsSameUse, KeptOutcome
<1>5. o.gone = ~Stuck(t) /\ o.s = t
  BY <1>1 DEF Gone
<1> HIDE DEF o
<1>6. StopUnsent(s, stops) = IF o.gone THEN o ELSE Kept(u)
  BY <1>5 DEF StopUnsent, o, u
<1> QED BY <1>1, <1>4, <1>5, <1>6

LEMMA TickedDoes ==
  ASSUME NEW s, Sane(s), NEW e
  PROVE  /\ Outcome(s, Ticked(s, e))
         /\ s.pending = "none" => Unasked(s, Ticked(s, e))
<1> DEFINE r == Step(s.m, e.due)
           unsent == r.send # "none" /\ ~s.handoff /\ ~e.sent
           n == [s EXCEPT !.m = r.m]
           a == IF unsent THEN s ELSE n
<1>0. /\ s \in MediaRecords /\ s.m \in Monitors /\ Base(s)
      /\ s.pending \in EndReasons \cup {"none"}
  BY DEF Sane, Base, MediaRecords
<1>1. \/ GoesOn(s.m, r.m)
      \/ /\ r.m \in Monitors /\ r.m.persistent = s.m.persistent
         /\ r.m.retryReady
  BY <1>0, StepMonitor
<1> HIDE DEF r
<1>2. /\ Same(s, n) /\ n.m = r.m /\ n.mgen = s.mgen /\ n.readyFor = s.readyFor
      /\ n.encoder = s.encoder /\ n.pub = s.pub /\ n.state = s.state
  BY <1>0, <1>1, WithMonitor DEF GoesOn
<1> HIDE DEF n
<1>3. Base(n) /\ Owned(n)
  BY <1>0, <1>2, SameBase DEF Sane, Owned
<1>4. s.state # "failed" => Agrees(s) \/ Stuck(s)
  BY DEF Sane
<1>5. Agrees(s) \/ Stuck(s) => Agrees(n) \/ Stuck(n)
  BY <1>1, <1>2 DEF Agrees, Stuck, GoesOn
<1>6. Trusted(n) \/ (n.purpose = "preview" /\ n.m.retryReady)
  BY <1>1, <1>2, <1>3 DEF Sane, Trusted, GoesOn, Base, Same, MediaRecords
<1>7. s.state # "failed" => Stepped(s) /\ Stepped(n)
  BY <1>0, <1>2, <1>3, <1>4, <1>5, <1>6 DEF Stepped, Sane
<1>8. s.state # "failed" => Unasked(s, TickMonitor(a, e))
  BY <1>2, <1>7, TickMonitorDoes, SameIsSameUse, OutcomeFrom
<1> HIDE DEF a
<1>9. /\ Outcome(s, Released(s, s.pending, e.stops))
      /\ Unasked(s, Kept(s))
      /\ Unasked(s, ReleaseFailed(s, e.stops))
      /\ Unasked(s, StopUnsent(s, e.stops))
  BY <1>0, ReleasedDoes, KeptOutcome, SameSelf, SameIsSameUse, ReleaseFailedDoes, StopUnsentDoes
<1>10. \/ Ticked(s, e) \in {Kept(s), ReleaseFailed(s, e.stops), StopUnsent(s, e.stops)}
       \/ s.state # "failed" /\ Ticked(s, e) = TickMonitor(a, e)
       \/ s.pending # "none" /\ Ticked(s, e) = Released(s, s.pending, e.stops)
  BY DEF Ticked, a, n, r
<1> QED BY <1>8, <1>9, <1>10 DEF Unasked

-----------------------------------------------------------------------------
(* Frames, pictures and requests *)

\* The monitor goes on in its attempt, and so does the session.
LEMMA MonitorWentOn ==
  ASSUME NEW s, Sane(s), NEW m, GoesOn(s.m, m)
  PROVE  LET t == [s EXCEPT !.m = m]
         IN /\ Same(s, t) /\ t.m = m /\ t.mgen = s.mgen /\ t.state = s.state
            /\ t.encoder = s.encoder /\ t.pub = s.pub
            /\ Sane(t)
<1> DEFINE t == [s EXCEPT !.m = m]
<1>1. s \in MediaRecords /\ m \in Monitors /\ m.persistent = s.m.persistent
  BY DEF Sane, Base, GoesOn
<1>2. /\ Same(s, t) /\ t.m = m /\ t.mgen = s.mgen /\ t.readyFor = s.readyFor
      /\ t.encoder = s.encoder /\ t.pub = s.pub /\ t.state = s.state
  BY <1>1, WithMonitor
<1> HIDE DEF t
<1>3. Base(t)
  BY <1>2, SameBase DEF Sane
<1>4. Sane(t)
  BY <1>2, <1>3 DEF Sane, Agrees, Trusted, Owned, Stuck, Same, GoesOn
<1> QED BY <1>2, <1>4 DEF t

LEMMA ConfirmedByDoes ==
  ASSUME NEW s, Sane(s), NEW m, GoesOn(s.m, m), NEW due
  PROVE  SameUse(s, ConfirmedBy(s, m, due)) /\ Sane(ConfirmedBy(s, m, due))
<1> DEFINE a == [s EXCEPT !.m = m]
           conf == IF s.m.asked /\ s.m.confirm /\ ~due THEN m.gen ELSE 0
           t == [a EXCEPT !.confirmed = conf]
           r == ResetAttempt(t, m.gen)
           state == IF s.pub THEN Shown(s) ELSE "awaiting"
           u == [r EXCEPT !.state = state]
<1>0. m.gen \in Attempts /\ conf \in Attempts /\ state \in SessionStates /\ state # "failed"
  BY ShownIs, ZeroAttempt DEF GoesOn, Monitors, SessionStates
<1>1. Same(s, a) /\ Sane(a) /\ a.m = m
  BY MonitorWentOn
<1>2. t = [s EXCEPT !.m = m, !.confirmed = conf]
  OBVIOUS
<1> HIDE DEF a, conf, state
<1>3. Same(a, t) /\ Sane(t) /\ t.m = m
  BY <1>0, <1>1
  DEF Same, Sane, Base, Agrees, Trusted, Owned, Stuck, MediaRecords
<1> HIDE DEF t
<1>4. /\ Same(t, r) /\ r.mgen = m.gen /\ r.readyFor = 0 /\ r.m.gen = m.gen
      /\ r.encoder = t.encoder /\ r.pub = t.pub
  BY <1>0, <1>3, ResetAttemptDoes DEF Sane, Base, GoesOn
<1> HIDE DEF r
<1>5. Same(r, u) /\ u.mgen = u.m.gen /\ u.readyFor = 0 /\ u.state # "failed" /\ Owned(u)
  BY <1>0, <1>3, <1>4 DEF Same, MediaRecords, Sane, Owned
<1> HIDE DEF u
<1>6. Same(s, t) /\ Same(s, u) /\ Sane(u)
  BY <1>1, <1>3, <1>4, <1>5, SameTrans, BegunSane DEF Sane
<1>7. ConfirmedBy(s, m, due) \in {t, u}
  BY <1>2 DEF ConfirmedBy, u, r, state, conf
<1> QED BY <1>3, <1>6, <1>7, SameIsSameUse

LEMMA RetryingDoes ==
  ASSUME NEW s, Base(s), Owned(s), NEW stops,
         s.m.peerStop \/ (~Watching(s.m) /\ Trusted(s))
  PROVE  Unasked(s, Retrying(s, stops))
<1>0. s \in MediaRecords
  BY DEF Base
<1>1. CASE s.m.peerStop
  <2> DEFINE l == SourceLost(s)
             t == NewAttempt(l, stops)
  <2>1. Works(s, l) /\ Base(l) /\ Owned(l)
    BY <1>0, SourceLostDoes, WorksKeep DEF Works
  <2> HIDE DEF l
  <2>2. /\ Same(l, t) /\ Owned(t) /\ t.readyFor = 0
        /\ IF t.state = "failed" THEN Stuck(t) ELSE t.mgen = t.m.gen
    BY <2>1, NewAttemptDoes
  <2> HIDE DEF t
  <2>3. Same(s, t) /\ Base(t) /\ Sane(t)
    BY <2>1, <2>2, SameTrans, SameBase, BegunSane DEF Works
  <2>4. Unasked(s, ReleaseFailed(t, stops)) /\ Unasked(s, Kept(t))
    BY <2>3, SameIsSameUse, OutcomeFrom3, KeptOutcome
  <2>5. Retrying(s, stops) \in {ReleaseFailed(t, stops), Kept(t)}
    BY <1>1 DEF Retrying, t, l
  <2> QED BY <2>4, <2>5
<1>2. CASE ~s.m.peerStop
  <2> DEFINE state == IF s.purpose = "preview" /\ s.pub THEN Shown(s)
                      ELSE IF s.m.state = "requesting" THEN "requesting"
                      ELSE "stopping"
             t == [s EXCEPT !.state = state]
  <2>1. state \in SessionStates /\ state # "failed"
    BY ShownIs DEF SessionStates
  <2>2. Retrying(s, stops) = Kept(t)
    BY <1>2 DEF Retrying
  <2> HIDE DEF state
  <2>3. Same(s, t) /\ t.state # "failed" /\ Agrees(t) /\ Trusted(t) /\ Owned(t)
    BY <1>0, <1>2, <2>1 DEF Same, MediaRecords, Agrees, Trusted, Owned
  <2> HIDE DEF t
  <2>4. Sane(t)
    BY <2>3, SameBase DEF Sane
  <2> QED BY <2>2, <2>3, <2>4, SameIsSameUse, KeptOutcome
<1> QED BY <1>1, <1>2

LEMMA RetryReadyDoes ==
  ASSUME NEW s, NEW t, NEW stops, Base(t), Owned(t), Same(s, t), s \in MediaRecords
  PROVE  LET v == FinishRetry(t, stops)
         IN Unasked(s, Kept(IF v.state = "failed" THEN [v EXCEPT !.m = s.m] ELSE v))
<1> DEFINE v == FinishRetry(t, stops)
           w == [v EXCEPT !.m = s.m]
<1>1. /\ Same(t, v) /\ Owned(v) /\ v.readyFor = 0 /\ Sane(v)
      /\ v.state = "failed" => Stuck(v)
  BY FinishRetryDoes
<1> HIDE DEF v
<1>2. Same(s, v) /\ v \in MediaRecords /\ Base(v)
  BY <1>1, SameTrans DEF Sane, Same
<1>3. s.m \in Monitors /\ s.m.persistent = v.m.persistent
  BY <1>2 DEF Same, MediaRecords
<1>4. /\ Same(v, w) /\ w.m = s.m /\ w.mgen = v.mgen /\ w.readyFor = v.readyFor
      /\ w.encoder = v.encoder /\ w.pub = v.pub /\ w.state = v.state
  BY <1>2, <1>3, WithMonitor
<1> HIDE DEF w
<1>5. v.state = "failed" => Sane(w)
  BY <1>1, <1>2, <1>4, SameBase DEF Sane, Stuck, Trusted, Owned
<1>6. SameUse(s, v) /\ SameUse(s, w)
  BY <1>2, <1>4, SameTrans, SameIsSameUse
<1> QED BY <1>1, <1>5, <1>6, KeptOutcome DEF v, w

LEMMA ReceivedDoes ==
  ASSUME NEW s, Sane(s), NEW frame \in MonitorFrames, NEW e, Accepts(s.m, frame, e.due)
  PROVE  Unasked(s, Received(s, frame, e))
<1> DEFINE r == Receive(s.m, frame, e.due)
           t == [s EXCEPT !.m = r.m]
           u == [t EXCEPT !.confirmed = 0]
           v == FinishRetry(t, e.stops)
           w == Kept(IF v.state = "failed" THEN [v EXCEPT !.m = s.m] ELSE v)
<1>0. s \in MediaRecords /\ s.m \in Monitors /\ Base(s) /\ Owned(s)
  BY DEF Sane, Base, MediaRecords
<1>1. Answered(s.m, r)
  BY <1>0, ReceiveMonitor
<1> HIDE DEF r
<1>2. /\ Same(s, t) /\ t.m = r.m /\ t.readyFor = s.readyFor /\ t.mgen = s.mgen
      /\ t.encoder = s.encoder /\ t.pub = s.pub
  BY <1>0, <1>1, WithMonitor DEF Answered
<1>3. Base(t) /\ Owned(t)
  BY <1>0, <1>2, SameBase DEF Owned
<1> HIDE DEF t
<1>4. Same(t, u) /\ u.m = r.m /\ u.readyFor = s.readyFor /\ u.mgen = s.mgen /\ Owned(u)
  BY <1>2, <1>3, ZeroAttempt DEF Same, MediaRecords, Owned
<1> HIDE DEF u
<1>5. Same(s, u) /\ Base(u)
  BY <1>2, <1>3, <1>4, SameTrans, SameBase
<1>6. Unasked(s, ReleaseFailed(u, e.stops)) /\ Unasked(s, Finished(t, e.stops))
  BY <1>2, <1>3, <1>5, OutcomeFrom3, SameIsSameUse
<1>7. Unasked(s, Kept(s))
  BY <1>0, SameSelf, SameIsSameUse, KeptOutcome
<1>8. Unasked(s, w)
  BY <1>0, <1>2, <1>3, RetryReadyDoes
<1>9. r.confirmed => Unasked(s, Kept(ConfirmedBy(s, r.m, e.due)))
  BY <1>1, ConfirmedByDoes, KeptOutcome DEF Answered
<1>10. r.retrying => Unasked(s, Retrying(u, e.stops))
  <2> SUFFICES ASSUME r.retrying PROVE Unasked(s, Retrying(u, e.stops))
    OBVIOUS
  <2>1. u.m.peerStop \/ (~Watching(u.m) /\ Trusted(u))
    BY <1>1, <1>4, <1>5 DEF Answered, GoesOn, Trusted, Sane, Same
  <2> QED BY <1>4, <1>5, <2>1, RetryingDoes, SameIsSameUse, OutcomeFrom
<1>11. ~r.confirmed /\ ~r.retrying /\ ~r.retryReady /\ ~r.failed /\ ~r.stopped
         => Unasked(s, Kept(t))
  BY <1>1, MonitorWentOn, SameIsSameUse, KeptOutcome DEF Answered, t
<1>12. Received(s, frame, e) =
         IF r.reply # "none" /\ ~e.sent THEN Kept(s)
         ELSE CASE r.confirmed  -> Kept(ConfirmedBy(s, r.m, e.due))
                [] r.retrying   -> Retrying(u, e.stops)
                [] r.retryReady -> w
                [] r.failed     -> ReleaseFailed(u, e.stops)
                [] r.stopped    -> Finished(t, e.stops)
                [] OTHER        -> Kept(t)
  BY DEF Received, r, t, u, v, w
<1> HIDE DEF w
<1> QED BY <1>6, <1>7, <1>8, <1>9, <1>10, <1>11, <1>12

LEMMA PicturedDoes ==
  ASSUME NEW s, Sane(s), Welcome(s), NEW e
  PROVE  Unasked(s, Pictured(s, e))
<1> DEFINE n == Admitted(s.m)
           t == IF s.m.state = "idle" THEN s ELSE [s EXCEPT !.m = n]
           p == [t EXCEPT !.frames = TRUE, !.source = "live", !.readyFor = t.mgen,
                          !.state = Shown(t)]
           r == IF s.prep THEN PreparedBy(t) ELSE Encoded(t, e.how, e.stops)
           u == [r.s EXCEPT !.m.state = "publishing"]
<1>0. s \in MediaRecords /\ s.m \in Monitors /\ Base(s) /\ Trusted(s) /\ Owned(s)
  BY DEF Sane, Base, MediaRecords
<1>1. /\ n \in Monitors /\ n.persistent = s.m.persistent
      /\ n.gen = s.m.gen /\ n.asked = s.m.asked
  BY <1>0 DEF Admitted, Monitors, MonitorStates
<1>2. /\ Same(s, t) /\ t.mgen = s.mgen /\ t.readyFor = s.readyFor
      /\ t.encoder = s.encoder /\ t.pub = s.pub
      /\ t.m.gen = s.m.gen /\ t.m.asked = s.m.asked
  BY <1>0, <1>1, WithMonitor, SameSelf
<1>3. Agrees(t)
  <2>1. CASE s.m.state = "idle"
    BY <2>1 DEF Agrees, Watching
  <2>2. CASE s.m.state # "idle"
    BY <1>2, <2>2 DEF Agrees, Welcome, Admits
  <2> QED BY <2>1, <2>2
<1>4. t = IF s.m.state = "idle" THEN s ELSE [s EXCEPT !.m = Admitted(@)]
  BY <1>0 DEF MediaRecords
<1> HIDE DEF t, n
<1>5. Base(t) /\ Trusted(t) /\ Owned(t) /\ t \in MediaRecords
  BY <1>0, <1>2, SameBase DEF Trusted, Owned, Same
<1>6. /\ Same(t, p) /\ Agrees(p) /\ Owned(p)
      /\ s.prep => p.m.asked /\ p.readyFor = p.mgen
  <2>1. Shown(t) \in SessionStates /\ t.mgen \in Attempts
    BY <1>5, ShownIs DEF SessionStates, MediaRecords
  <2>2. p \in MediaRecords
    BY Zenon, <1>5, <2>1, SessionUpdates
  <2>3. /\ p.gen = t.gen /\ p.purpose = t.purpose /\ p.handoff = t.handoff
        /\ p.call = t.call /\ p.prep = t.prep /\ p.m = t.m
        /\ p.sent = t.sent /\ p.pending = t.pending /\ p.viewer = t.viewer
        /\ p.mgen = t.mgen /\ p.encoder = t.encoder /\ p.pub = t.pub
    BY SMT, <1>5 DEF MediaRecords
  <2>4. p.readyFor = t.mgen
    BY SMT, <1>5 DEF MediaRecords
  <2> HIDE DEF p
  <2> QED BY <1>0, <1>2, <1>3, <1>5, <2>2, <2>3, <2>4 DEF Same, Agrees, Owned, Welcome
<1> HIDE DEF p
<1>7. SameUse(s, r.s) /\ Base(r.s) /\ (r.s.state # "failed" => Sane(r.s))
  <2>1. CASE s.prep
    <3>1. r.s = p \/ (r.s = t /\ t.state = "failed")
      BY <2>1 DEF PreparedBy, Pushed, p
    <3>2. Base(p) /\ Same(s, p) /\ Trusted(p)
      BY <1>2, <1>5, <1>6, <2>1, SameBase, SameTrans DEF Trusted
    <3> HIDE DEF r
    <3> QED BY <1>2, <1>5, <1>6, <3>1, <3>2, SameIsSameUse DEF Sane
  <2>2. CASE ~s.prep
    <3>1. r = Encoded(t, e.how, e.stops)
      BY <2>2
    <3>2. Works(t, r.s)
      BY <1>5, <3>1, EncodedDoes
    <3> HIDE DEF r
    <3>3. Base(r.s) /\ Agrees(r.s) /\ Trusted(r.s) /\ Owned(r.s)
      BY <1>3, <1>5, <3>2, WorksKeep DEF Works
    <3> QED BY <1>2, <3>2, <3>3, SameTrans, SameIsSameUse DEF Sane, Works
  <2> QED BY <2>1, <2>2
<1>8. \/ Pictured(s, e) = Abandoned(r.s, e.stops)
      \/ r.s.state # "failed" /\ Pictured(s, e) = Kept(r.s)
      \/ /\ r.s.state # "failed" /\ r.s.m.state = "awaiting"
         /\ Pictured(s, e) = Kept(u)
  BY <1>4 DEF Pictured, r, u
<1> HIDE DEF r
<1>9. r.s.state # "failed" /\ r.s.m.state = "awaiting" => Same(r.s, u) /\ Sane(u)
  BY <1>7
  DEF Sane, Base, Same, MediaRecords, Monitors, MonitorStates, Agrees, Trusted, Owned,
      Stuck, Watching
<1> HIDE DEF u
<1>10. Unasked(s, Abandoned(r.s, e.stops))
  BY <1>7, OutcomeFrom3
<1>11. r.s.state # "failed" => Unasked(s, Kept(r.s))
  BY <1>7, KeptOutcome
<1>12. r.s.state # "failed" /\ r.s.m.state = "awaiting" => Unasked(s, Kept(u))
  BY <1>7, <1>9, SameIsSameUse, KeptOutcome, OutcomeFrom
<1> QED BY <1>8, <1>10, <1>11, <1>12

LEMMA StoppedByDoes ==
  ASSUME NEW s, Sane(s), NEW e
  PROVE  Unasked(s, StoppedBy(s, e))
<1> DEFINE t == StopPipeline(s, e.stops)
           n == [Stopped(s.m) EXCEPT !.stopSent = TRUE]
           u == [t EXCEPT !.m = n, !.state = "stopping", !.viewer = FALSE]
<1>0. s \in MediaRecords /\ s.m \in Monitors /\ Base(s)
  BY DEF Sane, Base, MediaRecords
<1>1. Same(s, t) /\ Down(t)
  BY <1>0, StopPipelineDoes
<1>2. n \in Monitors /\ n.persistent = s.m.persistent /\ ~Watching(n)
  BY <1>0, StopSentMonitor DEF GoesOn
<1> HIDE DEF t, n
<1>3. Same(s, u) /\ Down(u) /\ u.state # "failed" /\ Agrees(u)
  BY <1>1, <1>2 DEF Same, MediaRecords, SessionStates, Down, Agrees
<1> HIDE DEF u
<1>4. Sane(u)
  BY <1>0, <1>3, SameBase, DownOwned DEF Sane
<1>5. Unasked(s, Kept(u)) /\ Unasked(s, Finished(s, e.stops))
  BY <1>0, <1>3, <1>4, SameIsSameUse, KeptOutcome, FinishedDoes
<1>6. StoppedBy(s, e) \in {Kept(u), Finished(s, e.stops)}
  BY DEF StoppedBy, u, t, n
<1> QED BY <1>5, <1>6

LEMMA ViewedDoes ==
  ASSUME NEW s, Sane(s), NEW active \in BOOLEAN
  PROVE  Outcome(s, Kept(Viewed(s, active)))
<1> DEFINE prep == s.prep /\ ~active
           t == [s EXCEPT !.viewer = active, !.prep = prep]
           state == IF s.pub THEN Shown(t)
                    ELSE IF active THEN "viewing"
                    ELSE IF s.state = "viewing" THEN WithoutViewer(s) ELSE s.state
           u == [t EXCEPT !.state = state]
<1>0. s \in MediaRecords /\ Base(s) /\ prep \in BOOLEAN
  BY DEF Sane, Base, MediaRecords
<1>1. state \in SessionStates /\ (state = "failed" => s.state = "failed")
  <2>1. WithoutViewer(s) \in {"awaiting", "requesting", "publishing"}
    BY DEF WithoutViewer
  <2> QED BY <1>0, <2>1, ShownIs DEF MediaRecords, SessionStates
<1>2. Viewed(s, active) = u
  BY <1>0 DEF Viewed, MediaRecords
<1> HIDE DEF state
<1>3. SameCall(s, u) /\ Base(u) /\ Trusted(u) /\ Owned(u)
  BY <1>0, <1>1 DEF Sane, Base, SameCall, MediaRecords, Trusted, Owned
<1>4. u.m = s.m /\ u.mgen = s.mgen /\ u.encoder = s.encoder /\ u.state = state
  BY <1>0, <1>1 DEF MediaRecords
<1> HIDE DEF u
<1>5. Sane(u)
  BY <1>1, <1>3, <1>4 DEF Sane, Agrees, Stuck
<1> QED BY <1>2, <1>3, <1>5 DEF Outcome, Kept

-----------------------------------------------------------------------------
(* The session of a call, which a preview has become or which came in *)

\* Its monitor asks for nothing any more: it receives the video, or it ends.
Settled(m) ==
  /\ m.state # "requesting"
  /\ ~m.persistent
  /\ ~m.afterStop /\ ~m.retryReady /\ ~m.waiting /\ ~m.peerStop
  /\ m.state = "awaiting" => m.frame

\* An answer that is still open comes to a preview that was confirmed before.
Engaged(s) ==
  /\ s \in MediaRecords
  /\ s.purpose = "call"
  /\ Settled(s.m)
  /\ s.m.confirm => s.confirmed # 0 /\ s.confirmed = s.m.gen /\ s.m.gen = s.mgen

\* The confirmation that made a preview the call is lost in the end, never won.
Fades(s, t) == Engaged(t) /\ (Upgradable(t, InTime) => Upgradable(s, InTime))

Faded(s, o) == o.gone \/ Fades(s, o.s)

Quieter(m, n) ==
  /\ n \in Monitors
  /\ n.gen = m.gen
  /\ Settled(n)
  /\ Receiving(n) => Receiving(m)
  /\ n.confirm => m.confirm

LEMMA FadesTrans ==
  ASSUME NEW s, NEW t, NEW u, Fades(s, t), Fades(t, u)
  PROVE  Fades(s, u)
BY DEF Fades

LEMMA Fading ==
  ASSUME NEW s, Engaged(s), NEW t \in MediaRecords, t.purpose = "call",
         Quieter(s.m, t.m), t.mgen = s.mgen, t.confirmed = s.confirmed
  PROVE  Fades(s, t)
<1>1. Engaged(t)
  BY DEF Engaged, Quieter
<1>2. Upgradable(t, InTime) => Upgradable(s, InTime)
  BY DEF Engaged, Quieter, Settled, Upgradable, InTime
<1> QED BY <1>1, <1>2 DEF Fades

LEMMA QuieterSelf ==
  ASSUME NEW m \in Monitors, Settled(m)
  PROVE  Quieter(m, m)
BY DEF Quieter

LEMMA FadesWorks ==
  ASSUME NEW s, Engaged(s), NEW t, Works(s, t)
  PROVE  Fades(s, t)
<1>1. s.m \in Monitors /\ Quieter(s.m, s.m)
  BY QuieterSelf DEF Engaged, MediaRecords
<1> QED BY <1>1, Fading DEF Works, Same, Engaged

\* Another state, and nothing else that counts.
LEMMA FadesState ==
  ASSUME NEW s, Engaged(s), NEW state \in SessionStates
  PROVE  Fades(s, [s EXCEPT !.state = state])
<1> DEFINE t == [s EXCEPT !.state = state]
<1>1. s \in MediaRecords /\ s.m \in Monitors /\ Quieter(s.m, s.m)
  BY QuieterSelf DEF Engaged, MediaRecords
<1>2. /\ t \in MediaRecords /\ t.purpose = "call" /\ t.m = s.m
      /\ t.mgen = s.mgen /\ t.confirmed = s.confirmed
  BY <1>1 DEF Engaged, MediaRecords
<1> HIDE DEF t
<1> QED BY <1>1, <1>2, Fading DEF t

LEMMA FadesMonitor ==
  ASSUME NEW s, Engaged(s), NEW m, Quieter(s.m, m)
  PROVE  Fades(s, [s EXCEPT !.m = m])
<1> DEFINE t == [s EXCEPT !.m = m]
<1>1. s \in MediaRecords /\ m \in Monitors
  BY DEF Engaged, Quieter
<1>2. /\ t \in MediaRecords /\ t.purpose = "call" /\ t.m = m
      /\ t.mgen = s.mgen /\ t.confirmed = s.confirmed
  BY <1>1 DEF Engaged, MediaRecords
<1> HIDE DEF t
<1> QED BY <1>1, <1>2, Fading DEF t

LEMMA QuieterMonitors ==
  ASSUME NEW m \in Monitors, Settled(m)
  PROVE  /\ Quieter(m, MonitorFailed(m))
         /\ Quieter(m, [Stopped(m) EXCEPT !.stopSent = TRUE])
         /\ Quieter(m, [m EXCEPT !.stopSent = TRUE])
         /\ Quieter(m, [m EXCEPT !.state = "idle", !.ready = FALSE])
         /\ Watching(m) => Quieter(m, Admitted(m))
         /\ m.state = "awaiting" => Quieter(m, [m EXCEPT !.state = "publishing"])
<1>1. Quieter(m, MonitorFailed(m))
  BY DEF MonitorFailed, Quieter, Settled, Receiving, Monitors, MonitorStates
<1>2. Quieter(m, [Stopped(m) EXCEPT !.stopSent = TRUE])
  BY DEF Stopped, Quieter, Settled, Receiving, Monitors, MonitorStates
<1>3. Quieter(m, [m EXCEPT !.stopSent = TRUE])
  BY DEF Quieter, Settled, Receiving, Monitors, MonitorStates
<1>4. Quieter(m, [m EXCEPT !.state = "idle", !.ready = FALSE])
  BY DEF Quieter, Settled, Receiving, Monitors, MonitorStates
<1>5. Watching(m) => Quieter(m, Admitted(m))
  BY DEF Admitted, Watching, Quieter, Settled, Receiving, Monitors, MonitorStates
<1>6. m.state = "awaiting" => Quieter(m, [m EXCEPT !.state = "publishing"])
  BY DEF Quieter, Settled, Receiving, Monitors, MonitorStates
<1> QED BY <1>1, <1>2, <1>3, <1>4, <1>5, <1>6

LEMMA QuieterStep ==
  ASSUME NEW m \in Monitors, Settled(m), NEW due
  PROVE  Quieter(m, Step(m, due).m)
<1> DEFINE told == [m EXCEPT !.stopSent = TRUE]
           idle == [m EXCEPT !.state = "idle", !.ready = FALSE]
<1>1. Step(m, due).m \in {m, MonitorFailed(m), told, idle}
  BY DEF Step, Sends, Settled
<1> HIDE DEF told, idle
<1> QED BY <1>1, QuieterSelf, QuieterMonitors DEF told, idle

LEMMA FadedFrom ==
  ASSUME NEW s, NEW t, Fades(s, t), NEW o, Faded(t, o)
  PROVE  Faded(s, o)
BY FadesTrans DEF Faded

LEMMA FadedKept ==
  ASSUME NEW s, NEW t, Fades(s, t)
  PROVE  Faded(s, Kept(t)) /\ Faded(s, Gone(t))
BY DEF Faded, Kept, Gone

\* The ends of a call.
LEMMA EndsFade ==
  ASSUME NEW s, Engaged(s), NEW stops
  PROVE  /\ Faded(s, ReleaseFailed(s, stops))
         /\ Faded(s, Finished(s, stops))
         /\ Faded(s, Abandoned(s, stops))
<1> DEFINE n == [Stopped(s.m) EXCEPT !.stopSent = TRUE]
           t == [s EXCEPT !.m = n]
<1>1. ASSUME NEW u, Engaged(u)
      PROVE  Faded(u, ReleaseFailed(u, stops)) /\ Faded(u, Finished(u, stops))
  <2>1. Works(u, FailEncoder(u, stops)) /\ Works(u, StopPipeline(u, stops))
    BY <1>1, FailEncoderDoes, StopPipelineDoes, DownWorks DEF Engaged
  <2>2. Fades(u, FailEncoder(u, stops)) /\ Fades(u, StopPipeline(u, stops))
    BY <1>1, <2>1, FadesWorks
  <2>3. /\ ReleaseFailed(u, stops) = Gone(FailEncoder(u, stops))
        /\ Finished(u, stops) = Gone(StopPipeline(u, stops))
    BY DEF ReleaseFailed, FailEncoder, Finished
  <2> QED BY <2>2, <2>3, FadedKept
<1>2. Fades(s, t)
  <2>1. s.m \in Monitors /\ Settled(s.m)
    BY DEF Engaged, MediaRecords
  <2>2. Quieter(s.m, n)
    BY <2>1, QuieterMonitors
  <2> HIDE DEF n
  <2> QED BY <2>2, FadesMonitor
<1>3. t = [s EXCEPT !.m = [Stopped(@) EXCEPT !.stopSent = TRUE]]
  BY DEF Engaged, MediaRecords
<1> HIDE DEF t
<1>4. Abandoned(s, stops) \in {ReleaseFailed(s, stops), ReleaseFailed(t, stops)}
  BY <1>3 DEF Abandoned
<1>5. Faded(s, ReleaseFailed(t, stops))
  BY <1>1, <1>2, FadedFrom DEF Fades
<1> QED BY <1>1, <1>4, <1>5

LEMMA TickEncoderFades ==
  ASSUME NEW s, Engaged(s), NEW e
  PROVE  Faded(s, TickEncoder(s, e))
<1> DEFINE t == IF s.encoder = "running" /\ Reaped(s, e.how) THEN ChildExited(s) ELSE s
           u == Refrozen(t, e.how, e.stops)
<1>0. s \in MediaRecords
  BY DEF Engaged
<1>1. Works(s, t)
  BY <1>0, ChildExitedDoes, WorksSelf
<1> HIDE DEF t
<1>2. Fades(s, t) /\ Engaged(t) /\ t \in MediaRecords
  BY <1>1, FadesWorks DEF Fades, Engaged
<1>3. Works(t, u)
  BY <1>2, RefrozenDoes
<1> HIDE DEF u
<1>4. Fades(s, u) /\ Engaged(u)
  BY <1>2, <1>3, FadesWorks, FadesTrans DEF Fades
<1>5. Faded(s, ReleaseFailed(t, e.stops))
  BY <1>2, EndsFade, FadedFrom
<1>6. Faded(s, Abandoned(u, e.stops)) /\ Faded(s, Kept(u))
  BY <1>4, EndsFade, FadedFrom, FadedKept
<1>7. TickEncoder(s, e) \in {ReleaseFailed(t, e.stops), Abandoned(u, e.stops), Kept(u)}
  BY DEF TickEncoder, t, u
<1> QED BY <1>5, <1>6, <1>7

LEMMA TickMonitorFades ==
  ASSUME NEW s, Engaged(s), NEW e
  PROVE  Faded(s, TickMonitor(s, e))
<1>1. s.purpose = "call" /\ s \in MediaRecords /\ s.state \in SessionStates
  BY DEF Engaged, MediaRecords
<1> DEFINE t == [s EXCEPT !.state = s.state]
<1>2. Fades(s, t) /\ Engaged(t) /\ t.purpose = "call"
  BY <1>1, FadesState DEF Fades, Engaged
<1>3. t = [s EXCEPT !.state = IF s.purpose = "preview" /\ s.m.state = "stopping" /\ ~s.pub
                              THEN "stopping" ELSE @]
  BY <1>1
<1> HIDE DEF t
<1>4. TickMonitor(s, e) \in {ReleaseFailed(t, e.stops), Finished(t, e.stops), TickStalled(t, e)}
  BY <1>1, <1>3 DEF TickMonitor
<1>5. TickStalled(t, e) \in {TickEncoder(t, e), Abandoned(t, e.stops)}
  BY <1>2 DEF TickStalled
<1> QED BY <1>2, <1>4, <1>5, EndsFade, TickEncoderFades, FadedFrom

LEMMA TickedFades ==
  ASSUME NEW s, Engaged(s), s.pending = "none", NEW e
  PROVE  Faded(s, Ticked(s, e))
<1> DEFINE r == Step(s.m, e.due)
           unsent == r.send # "none" /\ ~s.handoff /\ ~e.sent
           n == [s EXCEPT !.m = r.m]
           a == IF unsent THEN s ELSE n
<1>1. s \in MediaRecords /\ s.m \in Monitors /\ Settled(s.m)
  BY DEF Engaged, MediaRecords
<1>2. Quieter(s.m, r.m)
  BY <1>1, QuieterStep
<1> HIDE DEF r
<1>3. Fades(s, n) /\ Fades(s, s)
  BY <1>1, <1>2, FadesMonitor, FadesWorks, WorksSelf
<1> HIDE DEF n
<1>4. Fades(s, a) /\ Engaged(a)
  BY <1>3 DEF Fades
<1>5. Ticked(s, e) \in {ReleaseFailed(s, e.stops), TickMonitor(a, e)}
  BY <1>1 DEF Ticked, Settled, a, unsent, n, r
<1> HIDE DEF a
<1> QED BY <1>4, <1>5, EndsFade, TickMonitorFades, FadedFrom

LEMMA ConfirmedByFades ==
  ASSUME NEW s, Engaged(s), NEW due, VideoFirst(s.m)
  PROVE  Fades(s, ConfirmedBy(s, Confirmed(s.m).m, due))
<1> DEFINE m == Confirmed(s.m).m
           conf == IF s.m.asked /\ s.m.confirm /\ ~due THEN m.gen ELSE 0
           t == [s EXCEPT !.m = m, !.confirmed = conf]
<1>1. s \in MediaRecords /\ s.m \in Monitors /\ Settled(s.m) /\ s.m.ready /\ Receiving(s.m)
  BY DEF Engaged, MediaRecords, VideoFirst
<1>2. /\ m.gen = s.m.gen /\ m.state = s.m.state /\ m.persistent = s.m.persistent
      /\ m.afterStop = s.m.afterStop /\ m.retryReady = s.m.retryReady
      /\ m.waiting = FALSE /\ m.peerStop = FALSE /\ m.confirm = FALSE
      /\ m.state = "awaiting" => m.frame
  BY <1>1 DEF Confirmed, Nothing, Settled, Receiving, Monitors
<1>3. m \in Monitors
  <2>1. Watching(s.m)
    BY <1>1 DEF Receiving, Watching
  <2> QED BY <1>1, <2>1, ConfirmedAnswer DEF Answered
<1> HIDE DEF m
<1>4. conf \in {0, s.m.gen} /\ conf \in Attempts
  BY <1>1, <1>2, ZeroAttempt DEF Monitors
<1>5. ConfirmedBy(s, m, due) = t
  BY <1>1 DEF ConfirmedBy
<1> HIDE DEF conf
<1>6. /\ t \in MediaRecords /\ t.purpose = s.purpose /\ t.m = m /\ t.mgen = s.mgen
      /\ t.confirmed = conf
  BY <1>1, <1>3, <1>4 DEF MediaRecords
<1> HIDE DEF t
<1>7. Engaged(t)
  BY <1>1, <1>2, <1>6 DEF Engaged, Settled
<1>8. Upgradable(t, InTime) => Upgradable(s, InTime)
  BY <1>1, <1>2, <1>4, <1>6 DEF Upgradable, InTime, Engaged, VideoFirst, Settled
<1> QED BY <1>5, <1>7, <1>8 DEF Fades, m

\* What is left of the frames for a call: a late answer to a preview that it was,
\* a sign of life and the answer to its end.
LEMMA ReceivedFades ==
  ASSUME NEW s, Engaged(s), NEW frame \in MonitorFrames, NEW e,
         frame \notin {"keepalive", "hangup", "ended"}, Accepts(s.m, frame, e.due)
  PROVE  Faded(s, Received(s, frame, e))
<1>1. s \in MediaRecords /\ s.m \in Monitors /\ Settled(s.m)
  BY DEF Engaged, MediaRecords
<1>2. Faded(s, Kept(s))
  BY <1>1, FadesWorks, WorksSelf, FadedKept
<1>3. CASE frame = "confirm"
  <2>1. VideoFirst(s.m)
    BY <1>1, <1>3 DEF Accepts, Settled
  <2>2. Received(s, frame, e) \in {Kept(s), Kept(ConfirmedBy(s, Confirmed(s.m).m, e.due))}
    BY <1>3 DEF Received, Receive, Confirmed, Nothing
  <2>3. Faded(s, Kept(ConfirmedBy(s, Confirmed(s.m).m, e.due)))
    BY <2>1, ConfirmedByFades, FadedKept
  <2> QED BY <1>2, <2>2, <2>3
<1>4. CASE frame = "busy"
  BY <1>1, <1>4 DEF Accepts, Settled
<1>5. CASE frame = "alive"
  <2>1. Received(s, frame, e) = Kept([s EXCEPT !.m = s.m])
    BY <1>5 DEF Received, Receive, Nothing
  <2> QED BY <1>1, <2>1, QuieterSelf, FadesMonitor, FadedKept
<1>6. CASE frame = "released"
  <2> DEFINE n == [s.m EXCEPT !.state = "idle", !.ready = FALSE]
             t == [s EXCEPT !.m = n]
  <2>1. s.m.state = "stopping"
    BY <1>6 DEF Accepts
  <2>2. Quieter(s.m, n)
    BY <1>1, QuieterMonitors
  <2>3. Receive(s.m, frame, e.due) =
          [Nothing(n) EXCEPT !.reply = "none", !.stopped = TRUE]
    BY <1>1, <1>6, <2>1 DEF Receive, StopAnswered, Settled
  <2> HIDE DEF n
  <2>4. Fades(s, t)
    BY <2>2, FadesMonitor
  <2>5. Received(s, frame, e) = Finished(t, e.stops)
    BY <2>3 DEF Received, Nothing
  <2> HIDE DEF t
  <2> QED BY <2>4, <2>5, EndsFade, FadedFrom DEF Fades
<1> QED BY <1>3, <1>4, <1>5, <1>6 DEF MonitorFrames

LEMMA PicturedFades ==
  ASSUME NEW s, Sane(s), Engaged(s), Welcome(s), NEW e
  PROVE  Faded(s, Pictured(s, e))
<1> DEFINE n == Admitted(s.m)
           t == IF s.m.state = "idle" THEN s ELSE [s EXCEPT !.m = n]
           r == Encoded(t, e.how, e.stops)
           v == [r.s.m EXCEPT !.state = "publishing"]
           u == [r.s EXCEPT !.m = v]
<1>1. s \in MediaRecords /\ s.m \in Monitors /\ Settled(s.m) /\ ~s.prep
  BY DEF Engaged, MediaRecords, Sane, Base
<1>2. s.m.state # "idle" => Quieter(s.m, n)
  BY <1>1, QuieterMonitors DEF Welcome, Admits
<1> HIDE DEF n
<1>3. Fades(s, t)
  BY <1>1, <1>2, FadesMonitor, FadesWorks, WorksSelf
<1>4. t = IF s.m.state = "idle" THEN s ELSE [s EXCEPT !.m = Admitted(@)]
  BY <1>1 DEF MediaRecords, n
<1> HIDE DEF t
<1>5. Works(t, r.s)
  BY <1>3, EncodedDoes DEF Fades, Engaged
<1>6. \/ Pictured(s, e) = Abandoned(r.s, e.stops)
      \/ Pictured(s, e) = Kept(r.s)
      \/ r.s.m.state = "awaiting" /\ Pictured(s, e) = Kept([r.s EXCEPT !.m.state = "publishing"])
  BY <1>1, <1>4 DEF Pictured
<1> HIDE DEF r
<1>7. Fades(s, r.s) /\ Engaged(r.s)
  BY <1>3, <1>5, FadesWorks, FadesTrans DEF Fades
<1>8. r.s \in MediaRecords /\ r.s.m \in Monitors /\ Settled(r.s.m)
  BY <1>7 DEF Engaged, MediaRecords
<1>9. r.s.m.state = "awaiting" => Quieter(r.s.m, v)
  BY <1>8, QuieterMonitors
<1>10. u = [r.s EXCEPT !.m.state = "publishing"]
  BY <1>8 DEF MediaRecords
<1> HIDE DEF v
<1>11. r.s.m.state = "awaiting" => Fades(s, u)
  BY <1>7, <1>9, FadesMonitor, FadesTrans
<1> HIDE DEF u
<1> QED BY <1>6, <1>7, <1>10, <1>11, EndsFade, FadedFrom, FadedKept

LEMMA StoppedByFades ==
  ASSUME NEW s, Engaged(s), NEW e
  PROVE  Faded(s, StoppedBy(s, e))
<1> DEFINE t == StopPipeline(s, e.stops)
           n == [Stopped(s.m) EXCEPT !.stopSent = TRUE]
           u == [t EXCEPT !.m = n, !.state = "stopping", !.viewer = FALSE]
<1>1. s \in MediaRecords /\ s.m \in Monitors /\ Settled(s.m)
  BY DEF Engaged, MediaRecords
<1>2. Quieter(s.m, n)
  BY <1>1, QuieterMonitors
<1>3. t \in MediaRecords /\ t.purpose = "call" /\ t.mgen = s.mgen /\ t.confirmed = s.confirmed
  BY <1>1, StopPipelineDoes DEF Same, Engaged
<1>4. StoppedBy(s, e) \in {Kept(u), Finished(s, e.stops)}
  BY DEF StoppedBy
<1> HIDE DEF t, n
<1>5. /\ u \in MediaRecords /\ u.purpose = "call" /\ u.m = n /\ u.mgen = s.mgen
      /\ u.confirmed = s.confirmed
  BY <1>2, <1>3 DEF MediaRecords, SessionStates, Quieter
<1> HIDE DEF u
<1>6. Fades(s, u)
  BY <1>2, <1>5, Fading
<1> QED BY <1>4, <1>6, EndsFade, FadedKept

-----------------------------------------------------------------------------
(* The accounts of the manager and of the runtime *)

\* A slot is free or holds a session that is sane.
SlotOK(s) == s = NoSession \/ (Active(s) /\ Sane(s))

SlotsOK == \A p \in Registered : SlotOK(media[p])

\* The inductive invariant.
MediaInv == MediaTypeOK /\ SlotsOK /\ orphan = FALSE /\ CallsAreBound

LEMMA NoSessionType ==
  /\ NoSession \in MediaRecords
  /\ ~Active(NoSession)
  /\ NoSession.handoff = FALSE
  /\ NoSession.purpose = "preview"
  /\ NoSession.encoder = "none"
<1>1. Quiet \in Monitors /\ 0 \in Attempts
  BY NewMonitors, ZeroAttempt
<1> HIDE DEF Quiet
<1> QED BY <1>1 DEF NoSession, MediaRecords, SessionStates, Encoders, Active

LEMMA NewPreviewSane ==
  ASSUME NEW gen \in Attempts, gen # 0, NEW prep \in BOOLEAN
  PROVE  LET t == NewPreview(gen, prep)
         IN /\ Sane(t) /\ Active(t) /\ t \in MediaRecords
            /\ t.gen = gen /\ t.purpose = "preview"
<1> DEFINE n == Asking(gen, ~prep)
           t == [NoSession EXCEPT !.gen = gen, !.mgen = gen, !.prep = prep, !.m = n]
<1>1. n \in Monitors /\ n.persistent /\ n.gen = gen
  BY NewMonitors
<1>2. n.persistent = TRUE
  BY <1>1 DEF Monitors
<1>3. t = NewPreview(gen, prep)
  BY DEF NewPreview
<1> HIDE DEF n
<1>4. /\ t \in MediaRecords /\ t.gen = gen /\ t.purpose = "preview" /\ t.readyFor = 0
      /\ t.encoder = "none" /\ t.state = "requesting" /\ t.mgen = gen /\ t.m = n
  <2>1. t \in MediaRecords
    BY Zenon, <1>1, NoSessionType, SessionUpdates
  <2>2. /\ t.gen = gen /\ t.purpose = "preview" /\ t.readyFor = 0
        /\ t.encoder = "none" /\ t.state = "requesting" /\ t.mgen = gen /\ t.m = n
    BY SMT DEF NoSession
  <2> QED BY <2>1, <2>2
<1> HIDE DEF t
<1>5. Sane(t) /\ Active(t)
  BY <1>1, <1>2, <1>4 DEF Sane, Base, Agrees, Trusted, Owned, Stuck, Active
<1> QED BY <1>3, <1>4, <1>5

LEMMA NewCallSane ==
  ASSUME NEW gen \in Attempts, gen # 0, NEW c \in Nat
  PROVE  /\ NewCall(gen, c) \in MediaRecords /\ NewCall(gen, c).gen = gen
         /\ NewCall(gen, c).purpose = "call" /\ NewCall(gen, c).call = c
         /\ NewCall(gen, c).encoder = "none"
         /\ Sane(NewCall(gen, c))
<1> DEFINE n == BoundToCall(gen)
           t == [NoSession EXCEPT !.gen = gen, !.mgen = gen, !.purpose = "call",
                                  !.call = c, !.m = n]
<1>1. n \in Monitors /\ ~n.persistent /\ n.gen = gen
  BY NewMonitors
<1>2. n.persistent = FALSE
  BY <1>1 DEF Monitors
<1>3. t = NewCall(gen, c)
  BY DEF NewCall
<1> HIDE DEF n
<1>4. /\ t \in MediaRecords /\ t.gen = gen /\ t.purpose = "call" /\ t.readyFor = 0
      /\ t.encoder = "none" /\ t.state = "requesting" /\ t.mgen = gen /\ t.m = n
      /\ t.call = c /\ t.prep = FALSE
  BY <1>1, NoSessionType DEF NoSession, MediaRecords
<1> HIDE DEF t
<1>5. Sane(t)
  BY <1>1, <1>2, <1>4 DEF Sane, Base, Agrees, Trusted, Owned, Stuck
<1> QED BY <1>3, <1>4, <1>5

\* The child of the session before, which is out of reach, stays with the slot.
OwnCall(gen, c, encoder) == [NewCall(gen, c) EXCEPT !.encoder = encoder]

LEMMA OwnCallSane ==
  ASSUME NEW gen \in Attempts, gen # 0, NEW c \in Nat, NEW encoder \in {"none", "stuck"}
  PROVE  LET t == OwnCall(gen, c, encoder)
         IN /\ t \in MediaRecords /\ t.gen = gen
            /\ t.purpose = "call" /\ t.call = c
            /\ Sane(t)
<1> DEFINE k == NewCall(gen, c)
           t == [k EXCEPT !.encoder = encoder]
<1>1. /\ k \in MediaRecords /\ k.gen = gen /\ k.purpose = "call" /\ k.call = c
      /\ Sane(k)
  BY NewCallSane
<1>2. k.encoder = "none"
  BY NewCallSane
<1> HIDE DEF k
<1>3. /\ t \in MediaRecords /\ t.gen = gen /\ t.purpose = "call" /\ t.call = c
      /\ t.encoder = encoder /\ t.m = k.m /\ t.mgen = k.mgen /\ t.state = k.state
      /\ t.readyFor = k.readyFor /\ t.prep = k.prep
  BY <1>1 DEF MediaRecords, Encoders
<1> HIDE DEF t
<1>4. Sane(t)
  BY <1>1, <1>2, <1>3 DEF Sane, Base, Agrees, Trusted, Owned, Stuck
<1> QED BY <1>3, <1>4 DEF OwnCall, t, k

LEMMA SlotFacts ==
  ASSUME MediaInv, NEW p \in Registered
  PROVE  /\ media[p] \in MediaRecords
         /\ media[p].gen \in Attempts
         /\ media[p].call \in Nat
         /\ Active(media[p]) => Sane(media[p])
         /\ ~Active(media[p]) => media[p] = NoSession
         /\ last \in Attempts /\ last \in Nat
BY NoSessionType DEF MediaInv, MediaTypeOK, SlotsOK, SlotOK, MediaRecords, Attempts

LEMMA UsedFinite ==
  ASSUME MediaInv
  PROVE  /\ IsFiniteSet(Used) /\ Cardinality(Used) \in Nat
         /\ IsFiniteSet(Calling) /\ Cardinality(Calling) \in Nat
         /\ \A p \in Calling : Calling = {p}
<1>1. Used \in SUBSET Registered /\ Calling \in SUBSET Registered
  BY DEF Used, Calling
<1>2. /\ IsFiniteSet(Used) /\ Cardinality(Used) \in Nat
      /\ IsFiniteSet(Calling) /\ Cardinality(Calling) \in Nat
  BY <1>1, ManagerAssumption, FS_Subset, FS_CardinalityType
<1>3. ASSUME NEW p \in Calling PROVE Calling = {p}
  <2>1. Cardinality(Calling) <= 1
    BY DEF MediaInv, CallsAreBound
  <2>2. Cardinality(Calling) # 0
    BY <1>2, FS_EmptySet
  <2>3. Cardinality(Calling) = 1
    BY <1>2, <2>1, <2>2
  <2>4. \E x : Calling = {x}
    BY <1>2, <2>3, FS_Singleton
  <2> QED BY <2>4
<1> QED BY <1>2, <1>3

\* A step that leaves the station `p` to a sane session or to none and does not
\* touch the others, except that it may take a slot away.
LEMMA AccountsKept ==
  ASSUME MediaInv, MediaTypeOK', orphan' = FALSE, NEW p \in Registered,
         \A r \in Registered \ {p} : media'[r] \in {media[r], NoSession},
         \A r \in Registered \ {p} : bound'[r] = bound[r],
         SlotOK(media'[p]),
         last' \in {last, last + 1},
         Active(media'[p]) => media'[p].gen = IF last' = last THEN media[p].gen ELSE last',
         Active(media'[p]) /\ media'[p].purpose = "call" =>
           /\ Calling \subseteq {p}
           /\ \/ media'[p].handoff
              \/ bound'[p] = [call |-> media'[p].call, gen |-> media'[p].gen],
         Cardinality(Used') <= Capacity
  PROVE  MediaInv'
<1>1. SlotsOK'
  BY DEF MediaInv, SlotsOK, SlotOK
<1>2. last \in Nat /\ \A r \in Registered : media[r].gen \in Nat
  BY SlotFacts DEF Attempts
<1>3. \A r \in Registered : Active(media[r]) => media[r].gen <= last
  BY DEF MediaInv, CallsAreBound, Used
<1>4. \A r \in Registered, q \in Registered :
        r # q /\ Active(media[r]) /\ Active(media[q]) => media[r].gen # media[q].gen
  BY DEF MediaInv, CallsAreBound, Used
<1>5. \A r \in Registered \ {p} : Active(media'[r]) => media'[r] = media[r]
  BY NoSessionType
<1>6. Active(media'[p]) =>
        \/ media'[p].gen = media[p].gen /\ Active(media[p])
        \/ media'[p].gen = last + 1 /\ last' = last + 1
  BY DEF Active
<1>7. \A r \in Registered : Active(media'[r]) => media'[r].gen <= last'
  BY <1>2, <1>3, <1>5, <1>6
<1>8. \A r \in Registered \ {p} : Active(media'[r]) /\ Active(media'[p])
        => media'[r].gen # media'[p].gen
  BY <1>2, <1>3, <1>4, <1>5, <1>6
<1>9. \A r \in Used' : \A q \in Used' \ {r} : media'[r].gen # media'[q].gen
  <2> SUFFICES ASSUME NEW r \in Registered, NEW q \in Registered, r # q,
                      Active(media'[r]), Active(media'[q])
               PROVE  media'[r].gen # media'[q].gen
    BY DEF Used
  <2> QED BY <1>4, <1>5, <1>8
<1>10. Calling' \subseteq Calling \/ Calling' \subseteq {p}
  <2>1. CASE Active(media'[p]) /\ media'[p].purpose = "call"
    BY <1>5, <2>1 DEF Calling, Used
  <2>2. CASE ~(Active(media'[p]) /\ media'[p].purpose = "call")
    BY <1>5, <2>2 DEF Calling, Used
  <2> QED BY <2>1, <2>2
<1>11. Cardinality(Calling') <= 1
  <2>1. CASE Calling' \subseteq Calling
    <3>1. IsFiniteSet(Calling) /\ Cardinality(Calling) <= 1 /\ Cardinality(Calling) \in Nat
      BY UsedFinite DEF MediaInv, CallsAreBound
    <3>2. Cardinality(Calling') <= Cardinality(Calling) /\ Cardinality(Calling') \in Nat
      BY <2>1, <3>1, FS_Subset, FS_CardinalityType
    <3> QED BY <3>1, <3>2
  <2>2. CASE Calling' \subseteq {p}
    <3>1. IsFiniteSet({p}) /\ Cardinality({p}) = 1
      BY FS_Singleton
    <3>2. Cardinality(Calling') <= Cardinality({p})
      BY <2>2, <3>1, FS_Subset
    <3> QED BY <3>1, <3>2
  <2> QED BY <1>10, <2>1, <2>2
<1>12. \A r \in Calling' :
         media'[r].handoff \/ bound'[r] = [call |-> media'[r].call, gen |-> media'[r].gen]
  <2> SUFFICES ASSUME NEW r \in Registered, Active(media'[r]), media'[r].purpose = "call"
               PROVE  \/ media'[r].handoff
                      \/ bound'[r] = [call |-> media'[r].call, gen |-> media'[r].gen]
    BY DEF Calling, Used
  <2>1. r # p => media[r].handoff \/ bound[r] = [call |-> media[r].call, gen |-> media[r].gen]
    BY <1>5 DEF MediaInv, CallsAreBound, Calling, Used
  <2> QED BY <1>5, <2>1
<1>13. CallsAreBound'
  BY <1>7, <1>9, <1>11, <1>12 DEF CallsAreBound, Used
<1> QED BY <1>1, <1>13 DEF MediaInv

\* A session goes on, or its slot becomes free.
LEMMA ChangeKeeps ==
  ASSUME MediaInv, NEW p \in Registered, NEW t \in MediaRecords, SlotOK(t),
         media' = [media EXCEPT ![p] = t],
         orphan' = FALSE, last' = last, bound' = bound,
         Active(t) => t.gen = media[p].gen,
         Active(t) /\ t.purpose = "call" =>
           /\ Calling \subseteq {p}
           /\ t.handoff \/ bound[p] = [call |-> t.call, gen |-> t.gen]
  PROVE  MediaInv'
<1>1. /\ media' \in [Registered -> MediaRecords]
      /\ media'[p] = t
      /\ \A r \in Registered \ {p} : media'[r] = media[r]
  BY DEF MediaInv, MediaTypeOK
<1>2. MediaTypeOK'
  BY <1>1 DEF MediaInv, MediaTypeOK
<1>3. Used' \in SUBSET Used
  BY <1>1 DEF Used, Active
<1>4. Cardinality(Used') <= Capacity
  <2>1. Cardinality(Used') <= Cardinality(Used) /\ Cardinality(Used') \in Nat
    BY <1>3, UsedFinite, FS_Subset, FS_CardinalityType
  <2>2. Cardinality(Used) <= Capacity
    BY Zenon DEF MediaInv, CallsAreBound
  <2>3. Cardinality(Used) \in Nat /\ Capacity \in Nat
    BY UsedFinite, ManagerAssumption
  <2> QED BY <2>1, <2>2, <2>3
<1>5. \A r \in Registered \ {p} : /\ media'[r] \in {media[r], NoSession}
                                  /\ bound'[r] = bound[r]
  BY <1>1
<1>6. Active(media'[p]) /\ media'[p].purpose = "call" =>
           /\ Calling \subseteq {p}
           /\ \/ media'[p].handoff
              \/ bound'[p] = [call |-> media'[p].call, gen |-> media'[p].gen]
  BY <1>1
<1> QED BY <1>1, <1>2, <1>4, <1>5, <1>6, AccountsKept

\* What a session keeps through a handler keeps the accounts.
LEMMA OutcomeKeeps ==
  ASSUME MediaInv, NEW p \in Registered, Active(media[p]),
         NEW o, Outcome(media[p], o), Handle(p, o)
  PROVE  MediaInv'
<1> DEFINE t == IF o.gone THEN NoSession ELSE o.s
<1>1. /\ media' = [media EXCEPT ![p] = t] /\ orphan' = FALSE
      /\ last' = last /\ bound' = bound
  BY DEF Handle, Settle, Outcome, MediaInv
<1>2. t \in MediaRecords /\ SlotOK(t)
  BY NoSessionType DEF Outcome, SlotOK, SameCall, Active
<1>3. Active(t) => /\ t.gen = media[p].gen /\ t.purpose = media[p].purpose
                   /\ t.handoff = media[p].handoff /\ t.call = media[p].call
  BY NoSessionType DEF Outcome, SameCall
<1> HIDE DEF t
<1>4. media[p].purpose = "call" =>
        /\ Calling \subseteq {p}
        /\ media[p].handoff \/ bound[p] = [call |-> media[p].call, gen |-> media[p].gen]
  <2> SUFFICES ASSUME media[p].purpose = "call"
               PROVE  /\ Calling \subseteq {p}
                      /\ \/ media[p].handoff
                         \/ bound[p] = [call |-> media[p].call, gen |-> media[p].gen]
    OBVIOUS
  <2>1. p \in Calling
    BY DEF Calling, Used
  <2> QED BY <2>1, UsedFinite DEF MediaInv, CallsAreBound
<1> QED BY <1>1, <1>2, <1>3, <1>4, ChangeKeeps

LEMMA KeepKeeps ==
  ASSUME MediaInv, NEW p \in Registered, Active(media[p]), NEW t,
         SameCall(media[p], t), Sane(t), Keep(p, t)
  PROVE  MediaInv'
BY OutcomeKeeps DEF Outcome, Kept, Keep

\* A session that changes its purpose.
LEMMA TurnKeeps ==
  ASSUME MediaInv, NEW p \in Registered, Active(media[p]), NEW t,
         Sane(t), t.gen = media[p].gen, Keep(p, t),
         t.purpose = "call" => Calling \subseteq {p} /\ t.handoff
  PROVE  MediaInv'
<1>1. media' = [media EXCEPT ![p] = t] /\ orphan' = FALSE /\ last' = last /\ bound' = bound
  BY DEF Keep, Handle, Settle, Kept, MediaInv
<1>2. t \in MediaRecords /\ SlotOK(t)
  BY DEF Sane, Base, SlotOK, Active
<1> QED BY <1>1, <1>2, ChangeKeeps

\* A new session takes its own slot, a free one, or the one of a preview.
LEMMA BeginKeeps ==
  ASSUME MediaInv, NEW p \in Registered, NEW t, Sane(t),
         last < LastAttempt, last' = last + 1, t.gen = last + 1,
         media' \in [Registered -> MediaRecords], media'[p] = t,
         \A r \in Registered \ {p} : media'[r] \in {media[r], NoSession},
         orphan' = FALSE,
         bound' \in [Registered -> [call : 0 .. LastCall, gen : Attempts]],
         \A r \in Registered \ {p} : bound'[r] = bound[r],
         t.purpose = "call" =>
           Calling \subseteq {p} /\ bound'[p] = [call |-> t.call, gen |-> t.gen],
         Cardinality(Used') <= Capacity
  PROVE  MediaInv'
<1>1. last + 1 \in Attempts /\ last' # last /\ last + 1 # 0
  BY SlotFacts, AttemptBounds DEF Attempts
<1>2. MediaTypeOK'
  BY <1>1, ManagerAssumption DEF MediaInv, MediaTypeOK
<1>3. SlotOK(t) /\ Active(t)
  BY <1>1 DEF SlotOK, Active
<1> QED BY <1>1, <1>2, <1>3, AccountsKept

LEMMA OldestIsPreview ==
  ASSUME MediaInv, Previews # {}
  PROVE  /\ OldestPreview \in Previews
         /\ \A r \in Previews : media[OldestPreview].gen <= media[r].gen
<1> DEFINE gens == {media[q].gen : q \in Previews}
<1>1. gens \subseteq Nat /\ gens # {} /\ \A q \in Previews : media[q].gen \in Nat
  BY SlotFacts DEF Previews, Used, Attempts
<1>2. \E n \in gens : \A k \in gens : <<k, n>> \notin OpToRel(<, Nat)
  BY <1>1, WFMin, NatLessThanWellFounded, Zenon
<1>3. \E n \in gens : \A k \in gens : ~(k < n)
  BY <1>1, <1>2, Zenon DEF OpToRel
<1>4. \E q \in Previews : \A r \in Previews : media[q].gen <= media[r].gen
  <2>1. PICK n \in gens : \A k \in gens : ~(k < n)
    BY <1>3
  <2>2. PICK q \in Previews : n = media[q].gen
    OBVIOUS
  <2>3. \A r \in Previews : ~(media[r].gen < n)
    BY <2>1
  <2> HIDE DEF gens
  <2> QED BY <1>1, <2>2, <2>3
<1> QED BY <1>4 DEF OldestPreview

LEMMA InitMedia == Init => MediaInv
<1> SUFFICES ASSUME Init PROVE MediaInv
  OBVIOUS
<1>1. MediaTypeOK
  <2>1. [call |-> 0, gen |-> 0] \in [call : 0 .. LastCall, gen : Attempts]
    BY ZeroAttempt, ManagerAssumption
  <2> QED BY <2>1, NoSessionType, ZeroAttempt DEF Init, MediaTypeOK
<1>2. SlotsOK /\ orphan = FALSE
  BY DEF Init, SlotsOK, SlotOK
<1>3. Used = {} /\ Calling = {}
  BY NoSessionType DEF Init, Used, Calling
<1>4. Cardinality(Used) = 0 /\ Cardinality(Calling) = 0
  BY <1>3, FS_EmptySet
<1>5. CallsAreBound
  BY <1>3, <1>4, ManagerAssumption DEF CallsAreBound
<1> QED BY <1>1, <1>2, <1>5 DEF MediaInv

-----------------------------------------------------------------------------
(* The actions *)

LEMMA Fits ==
  ASSUME MediaInv, NEW p, NEW T \in SUBSET Used, Used' \subseteq T \cup {p},
         Cardinality(T) < Capacity \/ p \in T
  PROVE  Cardinality(Used') <= Capacity
<1>1. IsFiniteSet(T) /\ Cardinality(T) <= Cardinality(Used) /\ Cardinality(T) \in Nat
  BY UsedFinite, FS_Subset, FS_CardinalityType
<1>2. Cardinality(Used) <= Capacity
  BY Zenon DEF MediaInv, CallsAreBound
<1>3. /\ IsFiniteSet(T \cup {p})
      /\ Cardinality(T \cup {p}) = IF p \in T THEN Cardinality(T) ELSE Cardinality(T) + 1
      /\ Cardinality(T \cup {p}) \in Nat
  BY <1>1, FS_AddElement, FS_CardinalityType
<1>4. Cardinality(Used') <= Cardinality(T \cup {p}) /\ Cardinality(Used') \in Nat
  BY <1>3, FS_Subset, FS_CardinalityType
<1>5. Cardinality(Used) \in Nat /\ Capacity \in Nat
  BY UsedFinite, ManagerAssumption
<1> QED BY <1>1, <1>2, <1>3, <1>4, <1>5

LEMMA StartKeeps ==
  ASSUME MediaInv, NEW p \in Registered, NEW prep \in BOOLEAN, Start(p, prep)
  PROVE  MediaInv'
<1> DEFINE s == media[p]
           joined == [s EXCEPT !.prep = FALSE, !.m.grace = TRUE]
           t == NewPreview(last + 1, prep)
<1>0. s \in MediaRecords
  BY SlotFacts
<1>1. CASE Active(s)
  <2>1. Sane(s) /\ SameCall(s, s)
    BY <1>0, <1>1, SlotFacts DEF SameCall
  <2>2. SameCall(s, joined) /\ Sane(joined)
    <3>0. s.m \in Monitors
      BY <1>0 DEF MediaRecords
    <3>1. joined \in MediaRecords
      BY Zenon, <1>0, SessionUpdates, SessionMonitorUpdates
    <3>2. /\ joined.gen = s.gen /\ joined.purpose = s.purpose
          /\ joined.handoff = s.handoff /\ joined.call = s.call /\ joined.prep = FALSE
          /\ joined.state = s.state /\ joined.mgen = s.mgen
          /\ joined.encoder = s.encoder /\ joined.pub = s.pub
      BY SMT, <1>0 DEF MediaRecords
    <3>3. joined.m = [s.m EXCEPT !.grace = TRUE]
      BY SMT, <1>0 DEF MediaRecords
    <3>4. /\ joined.m.gen = s.m.gen /\ joined.m.persistent = s.m.persistent
          /\ joined.m.state = s.m.state /\ joined.m.retryReady = s.m.retryReady
      BY SMT, <3>0, <3>3 DEF Monitors
    <3> HIDE DEF joined
    <3> QED BY <2>1, <3>1, <3>2, <3>4
        DEF SameCall, Sane, Base, Agrees, Trusted, Owned, Stuck, Watching
  <2>3. Keep(p, s) \/ Keep(p, joined)
    BY <1>1 DEF Start
  <2> QED BY <1>1, <2>1, <2>2, <2>3, KeepKeeps
<1>2. CASE ~Active(s)
  <2>1. /\ Cardinality(Used) < Capacity
        /\ last < LastAttempt
        /\ media' = [media EXCEPT ![p] = t]
        /\ last' = last + 1
        /\ bound' = bound /\ orphan' = orphan
    BY <1>2 DEF Start
  <2>2. last + 1 \in Attempts /\ last + 1 # 0
    BY <2>1, SlotFacts, AttemptBounds DEF Attempts
  <2>3. Sane(t) /\ t \in MediaRecords /\ t.gen = last + 1 /\ t.purpose = "preview"
    BY <2>2, NewPreviewSane
  <2> HIDE DEF t
  <2>4. /\ media' \in [Registered -> MediaRecords] /\ media'[p] = t
        /\ \A r \in Registered \ {p} : media'[r] = media[r]
    BY <2>1, <2>3 DEF MediaInv, MediaTypeOK
  <2>5. Used' \subseteq Used \cup {p}
    BY <2>4 DEF Used
  <2>6. Cardinality(Used') <= Capacity
    BY <2>1, <2>5, Fits
  <2>7. orphan' = FALSE /\ bound' \in [Registered -> [call : 0 .. LastCall, gen : Attempts]]
    BY <2>1 DEF MediaInv, MediaTypeOK
  <2> QED BY <2>1, <2>3, <2>4, <2>6, <2>7, BeginKeeps
<1> QED BY <1>1, <1>2

\* A session that turns to another purpose, and the monitor with it.
LEMMA Turns ==
  ASSUME NEW s \in MediaRecords, Sane(s), NEW t \in MediaRecords, t.gen = s.gen,
         t.m = [s.m EXCEPT !.persistent = (t.purpose = "preview")],
         t.prep => s.prep /\ t.purpose = "preview",
         t.readyFor = s.readyFor, t.mgen = s.mgen, t.encoder = s.encoder,
         t.pub = s.pub, t.state = s.state
  PROVE  Sane(t)
<1>1. s.m \in Monitors
  BY DEF MediaRecords
<1>2. /\ t.m.persistent = (t.purpose = "preview") /\ t.m.gen = s.m.gen
      /\ t.m.asked = s.m.asked /\ t.m.state = s.m.state
      /\ t.m.retryReady = s.m.retryReady
  BY SMT, <1>1 DEF Monitors
<1> QED BY <1>2 DEF Sane, Base, Agrees, Trusted, Owned, Stuck, Watching

LEMMA UpgradeKeeps ==
  ASSUME MediaInv, NEW p \in Registered, NEW e, Upgrade(p, e)
  PROVE  MediaInv'
<1> DEFINE s == media[p]
           t == [s EXCEPT !.purpose = "call", !.handoff = TRUE, !.prep = FALSE,
                          !.sent = FALSE, !.call = 0, !.m.persistent = FALSE]
<1>1. Active(s) /\ Calling = {} /\ Keep(p, t)
  BY DEF Upgrade
<1>2. Sane(s) /\ s \in MediaRecords
  BY <1>1, SlotFacts
<1>3. /\ Sane(t) /\ t.gen = s.gen /\ t.handoff = TRUE
  <2>1. t \in MediaRecords
    BY Zenon, <1>2, SessionUpdates, SessionMonitorUpdates
  <2>2. /\ t.gen = s.gen /\ t.purpose = "call" /\ t.handoff = TRUE /\ t.prep = FALSE
        /\ t.readyFor = s.readyFor /\ t.mgen = s.mgen /\ t.encoder = s.encoder
        /\ t.pub = s.pub /\ t.state = s.state
    BY SMT, <1>2 DEF MediaRecords
  <2>3. t.m = [s.m EXCEPT !.persistent = FALSE]
    BY SMT, <1>2 DEF MediaRecords
  <2> HIDE DEF t
  <2> QED BY <1>2, <2>1, <2>2, <2>3, Turns
<1> HIDE DEF t
<1> QED BY <1>1, <1>3, TurnKeeps

LEMMA OutboundActive ==
  ASSUME MediaInv, NEW p \in Registered, media[p].handoff
  PROVE  Active(media[p])
BY SlotFacts, NoSessionType

LEMMA BindKeeps ==
  ASSUME MediaInv, NEW p \in Registered, NEW c \in Calls, Bind(p, c)
  PROVE  MediaInv'
<1> DEFINE s == media[p]
           t == [s EXCEPT !.call = c]
<1>1. s.handoff /\ Keep(p, t) /\ c \in Nat
  BY DEF Bind, Outbound, Calls
<1>2. Active(s) /\ Sane(s) /\ s \in MediaRecords
  BY <1>1, SlotFacts, OutboundActive
<1>3. Sane(t) /\ t.gen = s.gen /\ t.handoff /\ t.purpose = s.purpose
  <2>1. t \in MediaRecords
    BY Zenon, <1>1, <1>2, SessionUpdates
  <2>2. /\ t.gen = s.gen /\ t.purpose = s.purpose /\ t.handoff = s.handoff
        /\ t.prep = s.prep /\ t.m = s.m
        /\ t.readyFor = s.readyFor /\ t.mgen = s.mgen /\ t.encoder = s.encoder
        /\ t.pub = s.pub /\ t.state = s.state
    BY SMT, <1>2 DEF MediaRecords
  <2> HIDE DEF t
  <2> QED BY <1>1, <1>2, <2>1, <2>2 DEF Sane, Base, Agrees, Trusted, Owned, Stuck
<1> HIDE DEF t
<1>4. s.purpose = "call" => Calling \subseteq {p}
  BY <1>2, UsedFinite DEF Calling, Used
<1> QED BY <1>1, <1>2, <1>3, <1>4, TurnKeeps

LEMMA MarkSentKeeps ==
  ASSUME MediaInv, NEW p \in Registered, MarkSent(p)
  PROVE  MediaInv'
<1> DEFINE s == media[p]
           t == [s EXCEPT !.sent = TRUE]
<1>1. s.handoff /\ Keep(p, t)
  BY DEF MarkSent, Outbound
<1>2. Active(s) /\ Sane(s) /\ s \in MediaRecords
  BY <1>1, SlotFacts, OutboundActive
<1>3. SameCall(s, t) /\ Sane(t)
  <2>1. t \in MediaRecords
    BY Zenon, <1>2, SessionUpdates
  <2>2. /\ t.gen = s.gen /\ t.purpose = s.purpose /\ t.handoff = s.handoff
        /\ t.call = s.call /\ t.prep = s.prep /\ t.m = s.m
        /\ t.readyFor = s.readyFor /\ t.mgen = s.mgen /\ t.encoder = s.encoder
        /\ t.pub = s.pub /\ t.state = s.state
    BY SMT, <1>2 DEF MediaRecords
  <2> HIDE DEF t
  <2> QED BY <1>2, <2>1, <2>2 DEF SameCall, Sane, Base, Agrees, Trusted, Owned, Stuck
<1> HIDE DEF t
<1> QED BY <1>1, <1>2, <1>3, KeepKeeps

LEMMA RollbackKeeps ==
  ASSUME MediaInv, NEW p \in Registered, Rollback(p)
  PROVE  MediaInv'
<1> DEFINE s == media[p]
           t == [s EXCEPT !.purpose = "preview", !.handoff = FALSE, !.call = 0,
                          !.m.persistent = TRUE]
<1>1. s.handoff /\ Keep(p, t)
  BY DEF Rollback, Outbound
<1>2. Active(s) /\ Sane(s) /\ s \in MediaRecords
  BY <1>1, SlotFacts, OutboundActive
<1>3. Sane(t) /\ t.gen = s.gen /\ t.purpose = "preview"
  <2>1. t \in MediaRecords
    BY Zenon, <1>2, SessionUpdates, SessionMonitorUpdates
  <2>2. /\ t.gen = s.gen /\ t.purpose = "preview" /\ t.prep = s.prep
        /\ t.readyFor = s.readyFor /\ t.mgen = s.mgen /\ t.encoder = s.encoder
        /\ t.pub = s.pub /\ t.state = s.state
    BY SMT, <1>2 DEF MediaRecords
  <2>3. t.m = [s.m EXCEPT !.persistent = TRUE]
    BY SMT, <1>2 DEF MediaRecords
  <2> HIDE DEF t
  <2> QED BY <1>2, <2>1, <2>2, <2>3, Turns
<1> HIDE DEF t
<1> QED BY <1>1, <1>2, <1>3, TurnKeeps

LEMMA ReleaseKeeps ==
  ASSUME MediaInv, NEW p \in Registered, NEW reason \in EndReasons, NEW e,
         Release(p, reason, e)
  PROVE  MediaInv'
<1>1. media[p].handoff /\ Handle(p, Released(media[p], reason, e.stops))
  BY DEF Release
<1>2. Active(media[p]) /\ Sane(media[p])
  BY <1>1, SlotFacts, OutboundActive
<1> QED BY <1>1, <1>2, ReleasedDoes, OutcomeKeeps DEF Sane

LEMMA ReleaseIncomingKeeps ==
  ASSUME MediaInv, NEW p \in Registered, NEW c, NEW reason \in EndReasons, NEW e,
         ReleaseIncoming(p, c, reason, e)
  PROVE  MediaInv'
<1>1. Active(media[p]) /\ Handle(p, Released(media[p], reason, e.stops))
  BY DEF ReleaseIncoming
<1>2. Sane(media[p])
  BY <1>1, SlotFacts
<1> QED BY <1>1, <1>2, ReleasedDoes, OutcomeKeeps DEF Sane

LEMMA HandlersKeep ==
  ASSUME MediaInv, NEW p \in Registered
  PROVE  /\ \A e : Stop(p, e) \/ PushVideo(p, e) \/ Tick(p, e) => MediaInv'
         /\ \A active \in BOOLEAN : View(p, active) => MediaInv'
         /\ \A frame \in MonitorFrames : \A e : ReceiveControl(p, frame, e) => MediaInv'
<1>1. ASSUME NEW e, Stop(p, e) PROVE MediaInv'
  BY <1>1, SlotFacts, StoppedByDoes, OutcomeKeeps DEF Stop, Unasked
<1>2. ASSUME NEW e, PushVideo(p, e) PROVE MediaInv'
  BY <1>2, SlotFacts, PicturedDoes, OutcomeKeeps DEF PushVideo, Unasked
<1>3. ASSUME NEW e, Tick(p, e) PROVE MediaInv'
  BY <1>3, SlotFacts, TickedDoes, OutcomeKeeps DEF Tick
<1>4. ASSUME NEW active \in BOOLEAN, View(p, active) PROVE MediaInv'
  BY <1>4, SlotFacts, ViewedDoes, OutcomeKeeps DEF View, Keep
<1>5. ASSUME NEW frame \in MonitorFrames, NEW e, ReceiveControl(p, frame, e)
      PROVE  MediaInv'
  BY <1>5, SlotFacts, ReceivedDoes, OutcomeKeeps DEF ReceiveControl, Unasked
<1> QED BY <1>1, <1>2, <1>3, <1>4, <1>5

LEMMA GivenType ==
  ASSUME MediaInv, NEW p \in Registered, NEW c \in Calls, NEW gen \in Attempts,
         Given(p, c, gen)
  PROVE  /\ bound' \in [Registered -> [call : 0 .. LastCall, gen : Attempts]]
         /\ bound'[p] = [call |-> c, gen |-> gen]
         /\ \A r \in Registered \ {p} : bound'[r] = bound[r]
<1>1. [call |-> c, gen |-> gen] \in [call : 0 .. LastCall, gen : Attempts]
  BY ManagerAssumption DEF Calls
<1>2. bound \in [Registered -> [call : 0 .. LastCall, gen : Attempts]]
  BY DEF MediaInv, MediaTypeOK
<1> QED BY <1>1, <1>2 DEF Given

\* The session `t` of a call takes a slot in which it fits.
LEMMA CallBegins ==
  ASSUME MediaInv, NEW p \in Registered, NEW c \in Calls, Calling \subseteq {p},
         NEW t, Sane(t), t.gen = last + 1, t.purpose = "call", t.call = c,
         last < LastAttempt, last' = last + 1, Given(p, c, last + 1),
         media' \in [Registered -> MediaRecords], media'[p] = t,
         \A r \in Registered \ {p} : media'[r] \in {media[r], NoSession},
         orphan' = FALSE, Cardinality(Used') <= Capacity
  PROVE  MediaInv'
<1>1. last + 1 \in Attempts
  BY SlotFacts, AttemptBounds DEF Attempts
<1>2. /\ bound' \in [Registered -> [call : 0 .. LastCall, gen : Attempts]]
      /\ bound'[p] = [call |-> t.call, gen |-> t.gen]
      /\ \A r \in Registered \ {p} : bound'[r] = bound[r]
  BY <1>1, GivenType
<1> QED BY <1>2, BeginKeeps

LEMMA SameCallKeeps ==
  ASSUME MediaInv, NEW p \in Registered, NEW c \in Calls,
         media[p].purpose = "call", media[p].call = c,
         Given(p, c, media[p].gen), UNCHANGED <<media, last, orphan>>
  PROVE  MediaInv'
<1>1. Active(media[p]) /\ media[p].gen \in Attempts
  BY SlotFacts, NoSessionType
<1>2. Calling = {p}
  BY <1>1, UsedFinite DEF Calling, Used
<1>3. /\ bound' \in [Registered -> [call : 0 .. LastCall, gen : Attempts]]
      /\ bound'[p] = [call |-> c, gen |-> media[p].gen]
      /\ \A r \in Registered \ {p} : bound'[r] = bound[r]
  BY <1>1, GivenType
<1>4. MediaTypeOK' /\ orphan' = FALSE
  BY <1>3 DEF MediaInv, MediaTypeOK
<1>5. Cardinality(Used') <= Capacity
  <2>1. Used' = Used
    BY DEF Used
  <2> QED BY <2>1, Zenon DEF MediaInv, CallsAreBound
<1>6. SlotOK(media'[p])
  BY DEF MediaInv, SlotsOK
<1> QED BY <1>2, <1>3, <1>4, <1>5, <1>6, AccountsKept

LEMMA TakeOwnKeeps ==
  ASSUME MediaInv, NEW p \in Registered, NEW c \in Calls, NEW e,
         Active(media[p]), Calling \subseteq {p}, TakeOwn(p, c, e)
  PROVE  MediaInv'
<1> DEFINE s == media[p]
           t == StopEncoder(s, e.stops)
           encoder == IF Stuck(s) THEN "stuck" ELSE "none"
           n == OwnCall(last + 1, c, encoder)
<1>0. s \in MediaRecords /\ Sane(s) /\ c \in Nat
  BY SlotFacts DEF Calls
<1>1. CASE s.encoder = "running" /\ Stuck(t)
  <2>1. Keep(p, t)
    BY <1>1 DEF TakeOwn
  <2>2. Same(s, t) /\ t.m = s.m /\ t.mgen = s.mgen /\ t.readyFor = s.readyFor
    BY <1>0, StopEncoderDoes
  <2> HIDE DEF t
  <2>3. Sane(t)
    BY <1>0, <1>1, <2>2, SameBase DEF Sane, Trusted, Owned, Stuck, Same
  <2> QED BY <2>1, <2>2, <2>3, SameIsSameUse, KeepKeeps DEF SameUse
<1>2. CASE ~(s.encoder = "running" /\ Stuck(t))
  <2>1. /\ last < LastAttempt /\ last' = last + 1 /\ Given(p, c, last + 1)
        /\ media' = [media EXCEPT ![p] = n] /\ orphan' = orphan
    BY <1>2 DEF TakeOwn, OwnCall
  <2>2. last + 1 \in Attempts /\ last + 1 # 0
    BY <2>1, SlotFacts, AttemptBounds DEF Attempts
  <2>3. encoder \in {"none", "stuck"}
    OBVIOUS
  <2> HIDE DEF encoder
  <2>4. Sane(n) /\ n \in MediaRecords /\ n.gen = last + 1 /\ n.purpose = "call" /\ n.call = c
    BY <1>0, <2>2, <2>3, OwnCallSane
  <2> HIDE DEF n
  <2>5. /\ media' \in [Registered -> MediaRecords] /\ media'[p] = n
        /\ \A r \in Registered \ {p} : media'[r] = media[r]
    BY <2>1, <2>4 DEF MediaInv, MediaTypeOK
  <2>6. Used' \subseteq Used \cup {p} /\ p \in Used
    BY <2>5 DEF Used
  <2>7. Cardinality(Used') <= Capacity
    BY <2>6, Fits
  <2>8. orphan' = FALSE
    BY <2>1 DEF MediaInv
  <2> QED BY <2>1, <2>4, <2>5, <2>7, <2>8, CallBegins
<1> QED BY <1>1, <1>2

LEMMA TakeOldestKeeps ==
  ASSUME MediaInv, NEW p \in Registered, NEW c \in Calls, NEW e,
         ~Active(media[p]), Calling \subseteq {p}, Previews # {}, last < LastAttempt,
         TakeOldest(p, c, e)
  PROVE  MediaInv'
<1> DEFINE q == OldestPreview
           s == media[q]
           n == [Stopped(s.m) EXCEPT !.stopSent = TRUE]
           a == IF s.m.state = "idle" THEN s ELSE [s EXCEPT !.m = n]
           t == StopPipeline(a, e.stops)
           k == NewCall(last + 1, c)
<1>0. q \in Registered /\ Active(s) /\ q # p /\ q \in Used
  BY OldestIsPreview DEF Previews, Used
<1> HIDE DEF q
<1>1. s \in MediaRecords /\ Sane(s) /\ s.m \in Monitors /\ c \in Nat
  BY <1>0, SlotFacts DEF Calls, MediaRecords
<1>2. n \in Monitors /\ n.persistent = s.m.persistent
  BY <1>1, StopSentMonitor DEF GoesOn
<1>3. a = IF s.m.state = "idle" THEN s
          ELSE [s EXCEPT !.m = [Stopped(@) EXCEPT !.stopSent = TRUE]]
  BY <1>1 DEF MediaRecords
<1> HIDE DEF n
<1>4. Same(s, a)
  BY <1>1, <1>2, WithMonitor, SameSelf
<1> HIDE DEF a
<1>5. Same(s, t) /\ Down(t)
  <2>1. a \in MediaRecords
    BY <1>4 DEF Same
  <2>2. Same(a, t) /\ Down(t)
    BY <2>1, StopPipelineDoes
  <2> HIDE DEF t
  <2> QED BY <1>4, <2>2, SameTrans
<1>6. IF Stuck(t) THEN Keep(q, t)
      ELSE /\ media' = [media EXCEPT ![q] = NoSession, ![p] = k]
           /\ orphan' = (orphan \/ t.encoder # "none")
           /\ last' = last + 1
           /\ Given(p, c, last + 1)
  BY <1>3 DEF TakeOldest, q
<1> HIDE DEF t
<1>7. CASE Stuck(t)
  <2>1. Sane(t)
    BY <1>1, <1>5, <1>7, DownStuck DEF Sane
  <2> QED BY <1>0, <1>5, <1>6, <1>7, <2>1, SameIsSameUse, KeepKeeps DEF SameUse
<1>8. CASE ~Stuck(t)
  <2>1. orphan' = FALSE
    BY <1>5, <1>6, <1>8, DownOwned DEF MediaInv
  <2>2. last + 1 \in Attempts /\ last + 1 # 0
    BY SlotFacts, AttemptBounds DEF Attempts
  <2>3. Sane(k) /\ k \in MediaRecords /\ k.gen = last + 1 /\ k.purpose = "call" /\ k.call = c
    BY <1>1, <2>2, NewCallSane
  <2> HIDE DEF k
  <2>4. /\ media' \in [Registered -> MediaRecords] /\ media'[p] = k
        /\ media'[q] = NoSession
        /\ \A r \in Registered \ {p, q} : media'[r] = media[r]
    BY <1>0, <1>6, <1>8, <2>3, NoSessionType DEF MediaInv, MediaTypeOK
  <2>5. Used' \subseteq (Used \ {q}) \cup {p}
    BY <1>0, <2>4, NoSessionType DEF Used
  <2>6. Cardinality(Used \ {q}) < Capacity
    <3>1. Cardinality(Used \ {q}) = Cardinality(Used) - 1 /\ Cardinality(Used) \in Nat
      BY <1>0, UsedFinite, FS_RemoveElement
    <3>2. Cardinality(Used) <= Capacity
      BY Zenon DEF MediaInv, CallsAreBound
    <3> QED BY <3>1, <3>2, ManagerAssumption
  <2>7. Cardinality(Used') <= Capacity
    BY <2>5, <2>6, Fits
  <2>8. \A r \in Registered \ {p} : media'[r] \in {media[r], NoSession}
    BY <2>4
  <2> QED BY <1>6, <1>8, <2>1, <2>3, <2>4, <2>7, <2>8, CallBegins
<1> QED BY <1>7, <1>8

LEMMA IncomingKeeps ==
  ASSUME MediaInv, NEW p \in Registered, NEW c \in Calls, NEW e, Incoming(p, c, e)
  PROVE  MediaInv'
<1> DEFINE s == media[p]
           k == NewCall(last + 1, c)
<1>1. CASE s.purpose = "call" /\ c = s.call
  BY <1>1, SameCallKeeps DEF Incoming
<1>2. CASE ~(s.purpose = "call" /\ c = s.call) /\ Active(s)
  BY <1>2, TakeOwnKeeps DEF Incoming
<1>3. CASE ~(s.purpose = "call" /\ c = s.call) /\ ~Active(s)
  <2>1. Calling \subseteq {p} /\ last < LastAttempt
    BY <1>3 DEF Incoming
  <2>2. CASE Cardinality(Used) >= Capacity
    BY <1>3, <2>1, <2>2, TakeOldestKeeps DEF Incoming
  <2>3. CASE ~(Cardinality(Used) >= Capacity)
    <3>1. /\ media' = [media EXCEPT ![p] = k] /\ last' = last + 1
          /\ Given(p, c, last + 1) /\ orphan' = orphan
      BY <1>3, <2>3 DEF Incoming
    <3>2. last + 1 \in Attempts /\ last + 1 # 0 /\ c \in Nat
      BY <2>1, SlotFacts, AttemptBounds DEF Attempts, Calls
    <3>3. Sane(k) /\ k \in MediaRecords /\ k.gen = last + 1 /\ k.purpose = "call" /\ k.call = c
      BY <3>2, NewCallSane
    <3> HIDE DEF k
    <3>4. /\ media' \in [Registered -> MediaRecords] /\ media'[p] = k
          /\ \A r \in Registered \ {p} : media'[r] = media[r]
      BY <3>1, <3>3 DEF MediaInv, MediaTypeOK
    <3>5. Used' \subseteq Used \cup {p} /\ Cardinality(Used) < Capacity
      BY <2>3, <3>4, UsedFinite, ManagerAssumption DEF Used
    <3>6. Cardinality(Used') <= Capacity
      BY <3>5, Fits
    <3>7. orphan' = FALSE
      BY <3>1 DEF MediaInv
    <3> QED BY <2>1, <3>1, <3>3, <3>4, <3>6, <3>7, CallBegins
  <2> QED BY <2>2, <2>3
<1> QED BY <1>1, <1>2, <1>3

LEMMA NextKeepsMedia == MediaInv /\ [Next]_vars => MediaInv'
<1> SUFFICES ASSUME MediaInv, [Next]_vars PROVE MediaInv'
  OBVIOUS
<1>1. CASE UNCHANGED vars
  BY <1>1
  DEF vars, MediaInv, MediaTypeOK, SlotsOK, CallsAreBound, Used, Calling
<1>2. CASE Next
  <2> PICK p \in Registered :
        \/ \E prep \in BOOLEAN : Start(p, prep)
        \/ \E e \in OnCheck : Upgrade(p, e)
        \/ \E c \in Calls : Bind(p, c)
        \/ MarkSent(p)
        \/ Rollback(p)
        \/ \E reason \in EndReasons, e \in OnStop(media[p]) : Release(p, reason, e)
        \/ \E c \in Calls, reason \in EndReasons, e \in OnStop(media[p]) :
             ReleaseIncoming(p, c, reason, e)
        \/ \E c \in Calls, e \in OnCall : Incoming(p, c, e)
        \/ \E e \in OnStop(media[p]) : Stop(p, e)
        \/ \E active \in BOOLEAN : View(p, active)
        \/ \E frame \in MonitorFrames : \E e \in OnFrame(media[p], frame) :
             ReceiveControl(p, frame, e)
        \/ \E e \in OnVideo : PushVideo(p, e)
        \/ \E e \in OnTick(media[p]) : Tick(p, e)
    BY <1>2 DEF Next
  <2>1. ASSUME NEW prep \in BOOLEAN, Start(p, prep) PROVE MediaInv'
    BY <2>1, StartKeeps
  <2>2. ASSUME NEW e, Upgrade(p, e) PROVE MediaInv'
    BY <2>2, UpgradeKeeps
  <2>3. ASSUME NEW c \in Calls, Bind(p, c) PROVE MediaInv'
    BY <2>3, BindKeeps
  <2>4. ASSUME MarkSent(p) PROVE MediaInv'
    BY <2>4, MarkSentKeeps
  <2>5. ASSUME Rollback(p) PROVE MediaInv'
    BY <2>5, RollbackKeeps
  <2>6. ASSUME NEW reason \in EndReasons, NEW e, Release(p, reason, e) PROVE MediaInv'
    BY <2>6, ReleaseKeeps
  <2>7. ASSUME NEW c \in Calls, NEW reason \in EndReasons, NEW e,
               ReleaseIncoming(p, c, reason, e)
        PROVE  MediaInv'
    BY <2>7, ReleaseIncomingKeeps
  <2>8. ASSUME NEW c \in Calls, NEW e, Incoming(p, c, e) PROVE MediaInv'
    BY <2>8, IncomingKeeps
  <2> QED BY <2>1, <2>2, <2>3, <2>4, <2>5, <2>6, <2>7, <2>8, HandlersKeep
<1> QED BY <1>1, <1>2

-----------------------------------------------------------------------------
(* What calls see of the manager *)

\* Only a call was handed over or waits for its release, and it stays a call.
Handed(s) ==
  /\ s.handoff => s.purpose = "call"
  /\ s.pending # "none" => s.purpose = "call"
  /\ s.purpose = "call" => Engaged(s)

CallsEngaged == \A p \in Registered : Handed(media[p])

\* A step of the manager is a step of CallMedia, or calls do not see it.
Follows ==
  \/ UNCHANGED <<Sides, last>>
  \/ /\ last' = CM!LastGeneration(last, Sides')
     /\ \E p \in Registered : CallMediaStep(Sides, Sides', p)

LEMMA NoSessionSide ==
  /\ CallSide(NoSession) = CM!NoMedia
  /\ Handed(NoSession)
<1>1. CallSide(NoSession) = CM!NoMedia
  BY DEF CallSide, NoSession, CM!NoMedia, Active, Upgradable, InTime, Quiet
<1>2. Handed(NoSession)
  BY DEF Handed, NoSession
<1> QED BY <1>1, <1>2

LEMMA SideFields ==
  ASSUME NEW s
  PROVE  LET m == CallSide(s)
         IN /\ m.active = Active(s) /\ m.generation = s.gen /\ m.purpose = s.purpose
            /\ m.handoff = s.handoff /\ m.call = s.call /\ m.sent = s.sent
            /\ m.viewer = s.viewer /\ m.pending = s.pending
            /\ m.confirmed = Upgradable(s, InTime)
            /\ m.state \in {"live", "stopping", "failed"}
BY DEF CallSide

\* What CallMedia keeps, as a type.
SideRecords ==
  [active : BOOLEAN, generation : Nat, purpose : {"preview", "call"},
   handoff : BOOLEAN, call : Nat, sent : BOOLEAN, viewer : BOOLEAN,
   confirmed : BOOLEAN, state : {"live", "stopping", "failed"},
   pending : EndReasons \cup {"none"}]

LEMMA SideTyped ==
  ASSUME NEW s \in MediaRecords
  PROVE  CallSide(s) \in SideRecords
<1>1. Active(s) \in BOOLEAN /\ Upgradable(s, InTime) \in BOOLEAN
  BY DEF Active, Upgradable
<1> QED BY <1>1 DEF CallSide, SideRecords, MediaRecords, Attempts

\* Whatever becomes of a session unasked is one of the turns of CallMedia.
LEMMA UnaskedSide ==
  ASSUME NEW s \in MediaRecords, Active(s), Handed(s), s.pending = "none",
         NEW t, SameUse(s, t),
         s.purpose = "call" => Fades(s, t)
  PROVE  CallSide(t) \in CM!MediaChanges(CallSide(s)) /\ Handed(t)
<1> DEFINE A == CallSide(s)
           B == CallSide(t)
           state == IF t.state \in {"failed", "stopping"} THEN t.state ELSE "live"
           confirmed == Upgradable(t, InTime)
<1>1. /\ t.gen = s.gen /\ t.purpose = s.purpose /\ t.handoff = s.handoff
      /\ t.call = s.call /\ t.sent = s.sent /\ t.pending = s.pending
      /\ t.viewer \in {s.viewer, FALSE} /\ t.purpose \in {"preview", "call"}
  BY DEF SameUse, SameCall, MediaRecords
<1>2. B = CM!Turned(A, state, confirmed, t.viewer)
  <2>1. Active(t) = Active(s) /\ t \in MediaRecords
    BY <1>1 DEF Active, SameUse, SameCall
  <2>2. A \in SideRecords /\ B \in SideRecords
    BY <2>1, SideTyped
  <2>3. /\ B.active = A.active /\ B.generation = A.generation /\ B.purpose = A.purpose
        /\ B.handoff = A.handoff /\ B.call = A.call /\ B.sent = A.sent
        /\ B.pending = A.pending /\ B.viewer = t.viewer /\ B.state = state
        /\ B.confirmed = confirmed
    BY <1>1, <2>1 DEF CallSide
  <2> HIDE DEF A, B, state, confirmed
  <2> QED BY Zenon, <2>2, <2>3 DEF SideRecords, CM!Turned
<1>3. A.active /\ A.pending = "none" /\ A.viewer = s.viewer
      /\ A.purpose = s.purpose /\ A.confirmed = Upgradable(s, InTime)
  BY SideFields
<1>4. state \in {"live", "failed", "stopping"}
  OBVIOUS
<1>5. confirmed \in BOOLEAN /\ Upgradable(s, InTime) \in BOOLEAN
  BY DEF Upgradable
<1>6. s.purpose = "call" /\ confirmed => Upgradable(s, InTime)
  BY DEF Fades
<1> HIDE DEF A, B, state, confirmed
<1>7. confirmed \in CM!Confirmations(A)
  BY <1>1, <1>3, <1>5, <1>6 DEF CM!Confirmations
<1>8. t.viewer \in CM!Watchers(A)
  BY <1>1, <1>3 DEF CM!Watchers
<1>9. B \in CM!Turns(A)
  BY <1>2, <1>4, <1>7, <1>8 DEF CM!Turns
<1>10. B \in CM!MediaChanges(A)
  BY <1>3, <1>9 DEF CM!MediaChanges
<1>11. Handed(t)
  BY <1>1 DEF Handed, Fades
<1> QED BY <1>10, <1>11 DEF A, B

LEMMA GoneSide ==
  ASSUME NEW s, Active(s)
  PROVE  CM!NoMedia \in CM!MediaChanges(CallSide(s))
BY SideFields DEF CM!MediaChanges

LEMMA ChangedSides ==
  ASSUME MediaInv, NEW p \in Registered, NEW t, media' = [media EXCEPT ![p] = t]
  PROVE  /\ Sides' = [Sides EXCEPT ![p] = CallSide(t)]
         /\ \A q \in Registered : Sides[q] = CallSide(media[q])
         /\ \A q \in Registered : Sides'[q] = CallSide(media'[q])
<1>1. media \in [Registered -> MediaRecords]
  BY DEF MediaInv, MediaTypeOK
<1>2. \A q \in Registered : CallSide(media[q])' = CallSide(media'[q])
  BY DEF CallSide, Active, Upgradable, InTime, Receiving
<1> QED BY <1>1, <1>2 DEF Sides

LEMMA LastKept ==
  ASSUME MediaInv, MediaInv', last' = last
  PROVE  last' = CM!LastGeneration(last, Sides')
<1>1. \A q \in Registered : Sides'[q].generation = media'[q].gen
  BY DEF Sides, CallSide
<1>2. ASSUME NEW q \in Registered PROVE media'[q].gen <= last'
  <2>1. media'[q].gen \in Nat /\ last' \in Nat
    BY DEF MediaInv, MediaTypeOK, MediaRecords, Attempts
  <2>2. Active(media'[q]) => media'[q].gen <= last'
    BY DEF MediaInv, CallsAreBound, Used
  <2> QED BY <2>1, <2>2 DEF Active
<1>3. \A q \in Registered : media'[q].gen \in Nat /\ last \in Nat
  BY DEF MediaInv, MediaTypeOK, MediaRecords, Attempts
<1>4. ~\E q \in Registered : Sides'[q].generation > last
  BY <1>1, <1>2, <1>3
<1> QED BY <1>4 DEF CM!LastGeneration

LEMMA LastTaken ==
  ASSUME MediaInv, last' = last + 1, NEW p \in Registered, media'[p].gen = last + 1
  PROVE  last' = CM!LastGeneration(last, Sides')
<1>1. Sides'[p].generation = media'[p].gen
  BY DEF Sides, CallSide
<1>2. last \in Nat
  BY DEF MediaInv, MediaTypeOK, Attempts
<1>3. \E q \in Registered : Sides'[q].generation > last
  BY <1>1, <1>2
<1> QED BY <1>3 DEF CM!LastGeneration

LEMMA HandedKept ==
  ASSUME CallsEngaged, MediaInv, NEW p \in Registered, NEW t, Handed(t),
         media' = [media EXCEPT ![p] = t]
  PROVE  CallsEngaged'
<1>1. media \in [Registered -> MediaRecords]
  BY DEF MediaInv, MediaTypeOK
<1>2. ASSUME NEW q \in Registered PROVE Handed(media'[q])
  BY <1>1 DEF CallsEngaged
<1>3. \A q \in Registered : Handed(media[q])' <=> Handed(media'[q])
  BY DEF Handed, Engaged, Settled
<1> QED BY <1>2, <1>3 DEF CallsEngaged

\* The session of one station changes, and no generation is given out.
LEMMA ChangeFollows ==
  ASSUME MediaInv, MediaInv', CallsEngaged, NEW p \in Registered, NEW t, Handed(t),
         media' = [media EXCEPT ![p] = t], last' = last,
         \/ CallSide(t) = CallSide(media[p])
         \/ CallMediaStep(Sides, [Sides EXCEPT ![p] = CallSide(t)], p)
  PROVE  CallsEngaged' /\ Follows
<1>1. CallsEngaged'
  BY HandedKept
<1>2. Sides' = [Sides EXCEPT ![p] = CallSide(t)] /\ Sides[p] = CallSide(media[p])
  BY ChangedSides
<1>3. last' = CM!LastGeneration(last, Sides')
  BY LastKept
<1>4. CASE CallSide(t) = CallSide(media[p])
  <2>1. Sides' = Sides
    BY <1>2, <1>4 DEF Sides
  <2> QED BY <1>1, <2>1 DEF Follows
<1>5. CASE CallMediaStep(Sides, [Sides EXCEPT ![p] = CallSide(t)], p)
  BY <1>1, <1>2, <1>3, <1>5 DEF Follows
<1> QED BY <1>4, <1>5

LEMMA HandledTo ==
  ASSUME NEW p, NEW o, Handle(p, o)
  PROVE  /\ media' = [media EXCEPT ![p] = IF o.gone THEN NoSession ELSE o.s]
         /\ last' = last
BY DEF Handle, Settle

\* The handlers that nobody asked for a change.
LEMMA UnaskedFollows ==
  ASSUME MediaInv, MediaInv', CallsEngaged, NEW p \in Registered,
         Active(media[p]), media[p].pending = "none",
         NEW o, Unasked(media[p], o), Handle(p, o),
         media[p].purpose = "call" => Faded(media[p], o)
  PROVE  CallsEngaged' /\ Follows
<1> DEFINE t == IF o.gone THEN NoSession ELSE o.s
<1>1. media' = [media EXCEPT ![p] = t] /\ last' = last
  BY HandledTo
<1>2. Handed(media[p]) /\ media[p] \in MediaRecords
  BY DEF CallsEngaged, MediaInv, MediaTypeOK
<1>3. CallSide(t) \in CM!MediaChanges(CallSide(media[p])) /\ Handed(t)
  <2>1. CASE o.gone
    BY <2>1, GoneSide, NoSessionSide
  <2>2. CASE ~o.gone
    BY <1>2, <2>2, UnaskedSide DEF Unasked, Faded
  <2> QED BY <2>1, <2>2
<1> HIDE DEF t
<1>4. Sides[p] = CallSide(media[p])
  BY DEF Sides
<1>5. CallMediaStep(Sides, [Sides EXCEPT ![p] = CallSide(t)], p)
  BY <1>3, <1>4 DEF CallMediaStep
<1> QED BY <1>1, <1>3, <1>5, ChangeFollows

\* A session of its own, with a generation that is new.
LEMMA BegunFollows ==
  ASSUME MediaInv, CallsEngaged, NEW p \in Registered, NEW t, Handed(t),
         media' = [media EXCEPT ![p] = t], last' = last + 1, t.gen = last + 1,
         CallMediaStep(Sides, [Sides EXCEPT ![p] = CallSide(t)], p)
  PROVE  CallsEngaged' /\ Follows
<1>1. CallsEngaged'
  BY HandedKept
<1>2. Sides' = [Sides EXCEPT ![p] = CallSide(t)]
  BY ChangedSides
<1>3. media'[p].gen = last + 1
  BY DEF MediaInv, MediaTypeOK
<1>4. last' = CM!LastGeneration(last, Sides')
  BY <1>3, LastTaken
<1> QED BY <1>1, <1>2, <1>4 DEF Follows

LEMMA UsedSides ==
  ASSUME MediaInv
  PROVE  /\ CM!Used(Sides) = Used
         /\ CM!Calling(Sides) = Calling
         /\ CM!Previews(Sides) = Previews
<1>1. \A q \in Registered : /\ Sides[q].active = Active(media[q])
                            /\ Sides[q].purpose = media[q].purpose
                            /\ media[q].purpose \in {"preview", "call"}
  BY SlotFacts DEF Sides, CallSide, MediaRecords
<1>2. CM!Used(Sides) = Used
  BY <1>1 DEF CM!Used, Used
<1> QED BY <1>1, <1>2 DEF CM!Calling, CM!Previews, Calling, Previews, Used

\* The oldest preview is the same one, since no two sessions share a generation.
LEMMA OldestSide ==
  ASSUME MediaInv, Previews # {}
  PROVE  CM!OldestPreview(Sides) = OldestPreview
<1> DEFINE q == OldestPreview
           r == CM!OldestPreview(Sides)
<1>1. q \in Previews /\ \A k \in Previews : media[q].gen <= media[k].gen
  BY OldestIsPreview
<1>2. /\ CM!Previews(Sides) = Previews
      /\ \A k \in Previews : Sides[k].generation = media[k].gen
  BY UsedSides DEF Sides, CallSide, Previews, Used
<1>3. r \in Previews /\ \A k \in Previews : media[r].gen <= media[k].gen
  <2>1. r \in CM!Previews(Sides)
        /\ \A k \in CM!Previews(Sides) : Sides[r].generation <= Sides[k].generation
    BY <1>1, <1>2 DEF CM!OldestPreview
  <2> HIDE DEF r
  <2> QED BY <1>2, <2>1
<1> HIDE DEF q, r
<1>4. media[q].gen = media[r].gen
  <2>1. media[q].gen \in Nat /\ media[r].gen \in Nat
    BY <1>1, <1>3, SlotFacts DEF Previews, Used, Attempts
  <2> QED BY <1>1, <1>3, <2>1
<1>5. q = r
  BY <1>1, <1>3, <1>4 DEF MediaInv, CallsAreBound, Previews
<1> QED BY <1>5 DEF q, r

\* What a session that keeps its confirmation leaves of itself.
LEMMA SidePair ==
  ASSUME NEW s \in MediaRecords, NEW t \in MediaRecords, t.gen = s.gen,
         Upgradable(t, InTime) = Upgradable(s, InTime)
  PROVE  LET m == CallSide(s)
             n == CallSide(t)
         IN /\ m \in SideRecords /\ n \in SideRecords
            /\ n.active = m.active /\ n.generation = m.generation
            /\ n.confirmed = m.confirmed
            /\ t.state = s.state => n.state = m.state
BY SideTyped DEF CallSide, Active

LEMMA SameConfirmation ==
  ASSUME NEW s, NEW t, t.m = s.m, t.mgen = s.mgen, t.confirmed = s.confirmed
  PROVE  Upgradable(t, InTime) = Upgradable(s, InTime)
BY DEF Upgradable, InTime

\* A release that is refused by the child is remembered, the other one is a fault.
LEMMA ReleasedFollows ==
  ASSUME MediaInv, MediaInv', CallsEngaged, NEW p \in Registered, Active(media[p]),
         media[p].purpose = "call", NEW reason \in EndReasons, NEW stops,
         media[p].pending \in {"none", reason},
         Handle(p, Released(media[p], reason, stops))
  PROVE  CallsEngaged' /\ Follows
<1> DEFINE s == media[p]
           t == StopPipeline(s, stops)
           u == [t EXCEPT !.pending = reason, !.state = "stopping", !.viewer = FALSE]
           A == Sides
           B == [Sides EXCEPT ![p] = CallSide(u)]
<1>1. s \in MediaRecords /\ Handed(s) /\ Engaged(s)
  BY SlotFacts DEF CallsEngaged, Handed
<1>2. /\ t \in MediaRecords /\ t.m = s.m /\ t.mgen = s.mgen /\ t.confirmed = s.confirmed
      /\ t.gen = s.gen /\ t.purpose = s.purpose /\ t.handoff = s.handoff
      /\ t.call = s.call /\ t.sent = s.sent
  BY <1>1, StopPipelineDoes DEF Same
<1>3. CASE ~Stuck(t)
  <2>1. media' = [media EXCEPT ![p] = NoSession] /\ last' = last
    <3>1. Released(s, reason, stops) = Gone(t)
      BY <1>3 DEF Released
    <3>2. Gone(t).gone = TRUE
      BY <1>3 DEF Gone
    <3> HIDE DEF t, s
    <3>3. media' = [media EXCEPT ![p] = IF Gone(t).gone THEN NoSession ELSE Gone(t).s]
          /\ last' = last
      BY <3>1, HandledTo DEF s
    <3> QED BY <3>2, <3>3
  <2>2. CallMediaStep(Sides, [Sides EXCEPT ![p] = CallSide(NoSession)], p)
    <3>1. CallSide(NoSession) \in CM!MediaChanges(Sides[p])
      BY GoneSide, NoSessionSide DEF Sides
    <3> QED BY <3>1 DEF CallMediaStep
  <2> QED BY <2>1, <2>2, NoSessionSide, ChangeFollows
<1>4. CASE Stuck(t)
  <2>1. media' = [media EXCEPT ![p] = u] /\ last' = last
    BY <1>4, HandledTo DEF Released, Kept
  <2> HIDE DEF t
  <2>2. /\ u \in MediaRecords /\ u.m = s.m /\ u.mgen = s.mgen /\ u.confirmed = s.confirmed
        /\ u.gen = s.gen /\ u.purpose = s.purpose /\ u.handoff = s.handoff
        /\ u.call = s.call /\ u.sent = s.sent /\ u.pending = reason
        /\ u.state = "stopping" /\ u.viewer = FALSE
    BY <1>2 DEF MediaRecords, SessionStates
  <2> HIDE DEF u
  <2>3. Handed(u)
    BY <1>1, <2>2 DEF Handed, Engaged
  <2>4. CallSide(u) = [A[p] EXCEPT !.pending = reason, !.state = "stopping", !.viewer = FALSE]
    <3> DEFINE m == CallSide(s)
               n == CallSide(u)
    <3>1. /\ m \in SideRecords /\ n \in SideRecords
          /\ n.active = m.active /\ n.generation = m.generation
          /\ n.confirmed = m.confirmed
      BY <1>1, <2>2, SidePair, SameConfirmation
    <3>2. /\ n.purpose = m.purpose /\ n.handoff = m.handoff /\ n.call = m.call
          /\ n.sent = m.sent /\ n.pending = reason /\ n.viewer = FALSE
          /\ n.state = "stopping"
      BY <2>2 DEF CallSide
    <3> HIDE DEF m, n
    <3>3. n = [m EXCEPT !.pending = reason, !.state = "stopping", !.viewer = FALSE]
      BY Zenon, <3>1, <3>2 DEF SideRecords
    <3> QED BY <3>3 DEF Sides, m, n
  <2>5. /\ A[p].active /\ A[p].purpose = "call" /\ A[p].handoff = s.handoff
        /\ A[p].pending = s.pending
    BY SideFields DEF Sides
  <2>6. CM!Release(A, p, reason, FALSE).media = B
    BY <2>4 DEF CM!Release, CM!Done
  <2>7. \/ CM!ReleaseOutbound(A, p, A[p].generation, A[p].call, reason, FALSE).media = B
        \/ CM!ReleaseIncoming(A, p, A[p].call, reason, FALSE).media = B
    <3>1. CM!Releasable(A, p, A[p].generation, A[p].call, reason)
      BY <2>5 DEF CM!Releasable, CM!Keyed
    <3> QED BY <2>5, <2>6, <3>1 DEF CM!ReleaseOutbound, CM!ReleaseIncoming
  <2>8. B[p].pending = reason /\ reason # "none"
    <3>1. p \in DOMAIN Sides
      BY DEF Sides
    <3> QED BY <2>2, <3>1, SessionMediaAssumption, SideFields
  <2> HIDE DEF A, B
  <2>9. CallMediaStep(A, B, p)
    BY <2>7, <2>8 DEF CallMediaStep
  <2> QED BY <2>1, <2>3, <2>9, ChangeFollows DEF A, B
<1> QED BY <1>3, <1>4

\* What calls see of a session that begins.
LEMMA NewMediaIs ==
  ASSUME NEW gen \in Nat, NEW purpose \in {"preview", "call"}, NEW c \in Nat
  PROVE  CM!NewMedia(gen, purpose, c) =
           [active |-> TRUE, generation |-> gen, purpose |-> purpose, handoff |-> FALSE,
            call |-> c, sent |-> FALSE, viewer |-> FALSE, confirmed |-> FALSE,
            state |-> "live", pending |-> "none"]
<1> DEFINE m == CM!NoMedia
           n == [active |-> TRUE, generation |-> gen, purpose |-> purpose,
                 handoff |-> FALSE, call |-> c, sent |-> FALSE, viewer |-> FALSE,
                 confirmed |-> FALSE, state |-> "live", pending |-> "none"]
<1>1. m \in SideRecords /\ n \in SideRecords
  BY DEF SideRecords, CM!NoMedia
<1>2. /\ n.active = TRUE /\ n.generation = gen /\ n.purpose = purpose /\ n.call = c
      /\ n.handoff = m.handoff /\ n.sent = m.sent /\ n.viewer = m.viewer
      /\ n.confirmed = m.confirmed /\ n.state = m.state /\ n.pending = m.pending
  BY DEF CM!NoMedia
<1>3. CM!NewMedia(gen, purpose, c) = [m EXCEPT !.active = TRUE, !.generation = gen,
                                               !.purpose = purpose, !.call = c]
  BY DEF CM!NewMedia
<1> HIDE DEF m, n
<1>4. n = [m EXCEPT !.active = TRUE, !.generation = gen, !.purpose = purpose, !.call = c]
  BY Zenon, <1>1, <1>2 DEF SideRecords
<1> QED BY <1>3, <1>4 DEF n

LEMMA NewPreviewSide ==
  ASSUME NEW gen \in Attempts, gen # 0, NEW prep \in BOOLEAN
  PROVE  LET t == NewPreview(gen, prep)
         IN CallSide(t) = CM!NewMedia(gen, "preview", 0) /\ Handed(t) /\ t.gen = gen
<1> DEFINE n == Asking(gen, ~prep)
           t == [NoSession EXCEPT !.gen = gen, !.mgen = gen, !.prep = prep, !.m = n]
<1>1. t = NewPreview(gen, prep)
  BY DEF NewPreview
<1> HIDE DEF n
<1>2. /\ t.gen = gen /\ t.purpose = "preview" /\ t.handoff = FALSE /\ t.call = 0
      /\ t.sent = FALSE /\ t.viewer = FALSE /\ t.state = "requesting"
      /\ t.pending = "none" /\ t.confirmed = 0
  BY SMT DEF NoSession
<1> HIDE DEF t
<1>3. Active(t) = TRUE /\ Upgradable(t, InTime) = FALSE
  BY <1>2 DEF Active, Upgradable
<1>4. CallSide(t) = CM!NewMedia(gen, "preview", 0)
  <2>1. gen \in Nat
    BY DEF Attempts
  <2>2. CallSide(t) =
          [active |-> TRUE, generation |-> gen, purpose |-> "preview", handoff |-> FALSE,
           call |-> 0, sent |-> FALSE, viewer |-> FALSE, confirmed |-> FALSE,
           state |-> "live", pending |-> "none"]
    BY <1>2, <1>3 DEF CallSide
  <2> QED BY <2>1, <2>2, NewMediaIs
<1>5. Handed(t)
  BY <1>2 DEF Handed
<1> QED BY <1>1, <1>2, <1>4, <1>5

LEMMA NewCallSide ==
  ASSUME NEW gen \in Attempts, gen # 0, NEW c \in Nat, NEW encoder \in {"none", "stuck"},
         NEW t \in {NewCall(gen, c), OwnCall(gen, c, encoder)}
  PROVE  CallSide(t) = CM!NewMedia(gen, "call", c) /\ Handed(t) /\ t.gen = gen
<1> DEFINE n == BoundToCall(gen)
           k == [NoSession EXCEPT !.gen = gen, !.mgen = gen, !.purpose = "call",
                                  !.call = c, !.m = n]
<1>1. t \in {k, [k EXCEPT !.encoder = encoder]} /\ k \in MediaRecords /\ t \in MediaRecords
  <2>1. NewCall(gen, c) \in MediaRecords /\ OwnCall(gen, c, encoder) \in MediaRecords
    BY NewCallSane, OwnCallSane
  <2>2. k = NewCall(gen, c)
    BY DEF NewCall
  <2> HIDE DEF k
  <2> QED BY <2>1, <2>2 DEF OwnCall
<1>2. n.state = "awaiting" /\ n.frame /\ ~n.persistent /\ ~n.confirm
      /\ ~n.afterStop /\ ~n.retryReady /\ ~n.waiting /\ ~n.peerStop
  BY DEF BoundToCall, Quiet
<1> HIDE DEF n
<1>3. /\ t.gen = gen /\ t.purpose = "call" /\ t.handoff = FALSE /\ t.call = c
      /\ t.sent = FALSE /\ t.viewer = FALSE /\ t.state = "requesting"
      /\ t.pending = "none" /\ t.confirmed = 0 /\ t.m = n
  <2>1. /\ k.gen = gen /\ k.purpose = "call" /\ k.handoff = FALSE /\ k.call = c
        /\ k.sent = FALSE /\ k.viewer = FALSE /\ k.state = "requesting"
        /\ k.pending = "none" /\ k.confirmed = 0 /\ k.m = n
    BY SMT DEF NoSession
  <2> HIDE DEF k
  <2> QED BY <1>1, <2>1 DEF MediaRecords
<1>4. Active(t) = TRUE /\ Upgradable(t, InTime) = FALSE
  BY <1>3 DEF Active, Upgradable
<1>5. CallSide(t) = CM!NewMedia(gen, "call", c)
  <2>1. gen \in Nat
    BY DEF Attempts
  <2>2. CallSide(t) =
          [active |-> TRUE, generation |-> gen, purpose |-> "call", handoff |-> FALSE,
           call |-> c, sent |-> FALSE, viewer |-> FALSE, confirmed |-> FALSE,
           state |-> "live", pending |-> "none"]
    BY <1>3, <1>4 DEF CallSide
  <2> QED BY <2>1, <2>2, NewMediaIs
<1>6. Handed(t)
  BY <1>1, <1>2, <1>3 DEF Handed, Engaged, Settled
<1> QED BY <1>3, <1>5, <1>6

\* CallMedia counts in the same way.
LEMMA CardinalitySeen == \A S : CM!Cardinality(S) = Cardinality(S)
BY Zenon DEF Cardinality, CM!Cardinality

\* A monitor that only counts as another one for its owner.
LEMMA StartFollows ==
  ASSUME MediaInv, MediaInv', CallsEngaged, NEW p \in Registered, NEW prep \in BOOLEAN,
         Start(p, prep)
  PROVE  CallsEngaged' /\ Follows
<1> DEFINE s == media[p]
           n == NewPreview(last + 1, prep)
           u == [s EXCEPT !.prep = FALSE, !.m.grace = TRUE]
           t == IF s.prep /\ ~prep THEN u ELSE s
<1>1. s \in MediaRecords /\ s.m \in Monitors /\ Handed(s)
  BY SlotFacts DEF CallsEngaged, MediaRecords
<1>2. CASE Active(s)
  <2>1. media' = [media EXCEPT ![p] = t] /\ last' = last
    BY <1>2, HandledTo DEF Start, Keep, Kept
  <2>2. s.purpose = "call" => ~s.prep
    BY <1>2, SlotFacts DEF Sane, Base
  <2>3. /\ u \in MediaRecords /\ u.gen = s.gen /\ u.purpose = s.purpose
        /\ u.handoff = s.handoff /\ u.call = s.call /\ u.sent = s.sent
        /\ u.viewer = s.viewer /\ u.state = s.state /\ u.pending = s.pending
    BY <1>1 DEF MediaRecords, Monitors
  <2>4. u.m = [s.m EXCEPT !.grace = TRUE] /\ u.mgen = s.mgen /\ u.confirmed = s.confirmed
        /\ u.frames = s.frames
    BY <1>1 DEF MediaRecords
  <2> HIDE DEF u
  <2>5. Upgradable(u, InTime) = Upgradable(s, InTime)
    BY <1>1, <2>4 DEF Upgradable, InTime, Receiving, Monitors
  <2>6. CallSide(u) = CallSide(s)
    BY <2>3, <2>5 DEF CallSide, Active
  <2>7. CallSide(t) = CallSide(s) /\ Handed(t)
    BY <1>1, <2>2, <2>3, <2>6 DEF Handed
  <2> HIDE DEF t
  <2> QED BY <2>1, <2>7, ChangeFollows
<1>3. CASE ~Active(s)
  <2>1. /\ Cardinality(Used) < Capacity /\ last < LastAttempt
        /\ media' = [media EXCEPT ![p] = n] /\ last' = last + 1
    BY <1>3 DEF Start
  <2>2. last + 1 \in Attempts /\ last + 1 # 0
    BY <2>1, SlotFacts, AttemptBounds DEF Attempts
  <2>3. CallSide(n) = CM!NewMedia(last + 1, "preview", 0) /\ Handed(n) /\ n.gen = last + 1
    BY <2>2, NewPreviewSide
  <2> HIDE DEF n
  <2>4. CM!StartPreview(Sides, last, p).media = [Sides EXCEPT ![p] = CallSide(n)]
    <3>1. ~Sides[p].active
      BY <1>3, SideFields DEF Sides
    <3>2. CM!StartPreview(Sides, last, p) =
            CM!Done(TRUE, [Sides EXCEPT ![p] = CM!NewMedia(last + 1, "preview", 0)])
      <4>1. CM!Cardinality(CM!Used(Sides)) < Capacity
        BY <2>1, UsedSides, CardinalitySeen
      <4> QED BY <2>1, <3>1, <4>1 DEF CM!StartPreview
    <3> QED BY <2>3, <3>2 DEF CM!Done
  <2>5. CallMediaStep(Sides, [Sides EXCEPT ![p] = CallSide(n)], p)
    BY <2>4 DEF CallMediaStep
  <2> QED BY <2>1, <2>3, <2>5, BegunFollows
<1> QED BY <1>2, <1>3

\* Only a preview whose confirmation and video hold becomes a call.
LEMMA UpgradeFollows ==
  ASSUME MediaInv, MediaInv', CallsEngaged, NEW p \in Registered, NEW e, Upgrade(p, e)
  PROVE  CallsEngaged' /\ Follows
<1> DEFINE s == media[p]
           t == [s EXCEPT !.purpose = "call", !.handoff = TRUE, !.prep = FALSE,
                          !.sent = FALSE, !.call = 0, !.m.persistent = FALSE]
<1>1. s \in MediaRecords /\ s.m \in Monitors /\ Handed(s)
  BY SlotFacts DEF CallsEngaged, MediaRecords
<1>2. /\ Active(s) /\ s.pending = "none" /\ Calling = {} /\ Upgradable(s, e)
      /\ media' = [media EXCEPT ![p] = t] /\ last' = last
  BY HandledTo DEF Upgrade, Keep, Kept
<1>3. s.purpose = "preview" /\ ~s.handoff
  BY <1>1, <1>2 DEF Calling, Used, MediaRecords, Handed
<1>4. Upgradable(s, InTime)
  BY <1>2 DEF Upgradable, InTime
<1>5. /\ t \in MediaRecords /\ t.gen = s.gen /\ t.purpose = "call" /\ t.handoff = TRUE
      /\ t.call = 0 /\ t.sent = FALSE /\ t.viewer = s.viewer /\ t.state = s.state
      /\ t.pending = s.pending /\ t.mgen = s.mgen /\ t.confirmed = s.confirmed
      /\ t.m = [s.m EXCEPT !.persistent = FALSE]
  BY <1>1 DEF MediaRecords, Monitors
<1> HIDE DEF t
<1>6. /\ t.m.state = s.m.state /\ t.m.gen = s.m.gen /\ t.m.persistent = FALSE
      /\ t.m.afterStop = s.m.afterStop /\ t.m.retryReady = s.m.retryReady
      /\ t.m.waiting = s.m.waiting /\ t.m.peerStop = s.m.peerStop
      /\ t.m.frame = s.m.frame /\ t.m.confirm = s.m.confirm
  BY <1>1, <1>5 DEF Monitors
<1>7. Upgradable(t, InTime) = Upgradable(s, InTime)
  BY <1>5, <1>6 DEF Upgradable, InTime, Receiving
<1>8. Engaged(t) /\ Handed(t)
  BY <1>2, <1>4, <1>5, <1>6 DEF Engaged, Handed, Settled, Upgradable, Receiving, InTime
<1>9. CallSide(t) = [Sides[p] EXCEPT !.purpose = "call", !.handoff = TRUE,
                                     !.sent = FALSE, !.call = 0]
  <2> DEFINE m == CallSide(s)
             n == CallSide(t)
  <2>1. /\ m \in SideRecords /\ n \in SideRecords
        /\ n.active = m.active /\ n.generation = m.generation
        /\ n.confirmed = m.confirmed /\ n.state = m.state
    BY <1>1, <1>5, <1>7, SidePair
  <2>2. /\ n.viewer = m.viewer /\ n.pending = m.pending /\ n.purpose = "call"
        /\ n.handoff = TRUE /\ n.sent = FALSE /\ n.call = 0
    BY <1>5 DEF CallSide
  <2> HIDE DEF m, n
  <2>3. n = [m EXCEPT !.purpose = "call", !.handoff = TRUE, !.sent = FALSE, !.call = 0]
    BY Zenon, <2>1, <2>2 DEF SideRecords
  <2> QED BY <2>3 DEF Sides, m, n
<1>10. /\ Sides[p].active /\ Sides[p].pending = "none" /\ Sides[p].purpose = "preview"
       /\ ~Sides[p].handoff /\ Sides[p].confirmed
  BY <1>2, <1>3, <1>4, SideFields DEF Sides
<1>11. CM!Check(Sides, p, Sides[p].generation, TRUE) = "ok"
  BY <1>2, <1>10, UsedSides DEF CM!Check, CM!Keyed
<1>12. CM!Promote(Sides, p) = [Sides EXCEPT ![p] = CallSide(t)]
  BY <1>9, <1>10 DEF CM!Promote
<1>13. CallMediaStep(Sides, [Sides EXCEPT ![p] = CallSide(t)], p)
  BY <1>11, <1>12 DEF CallMediaStep
<1> QED BY <1>2, <1>8, <1>13, ChangeFollows

LEMMA OutboundSide ==
  ASSUME MediaInv, CallsEngaged, NEW p \in Registered, Outbound(p)
  PROVE  /\ media[p] \in MediaRecords /\ media[p].m \in Monitors
         /\ Active(media[p]) /\ media[p].purpose = "call" /\ Engaged(media[p])
         /\ Sides[p] = CallSide(media[p])
         /\ CM!Keyed(Sides, p, Sides[p].generation)
         /\ Sides[p].pending = "none" /\ Sides[p].handoff
         /\ Sides[p].call = media[p].call /\ Sides[p].sent = media[p].sent
<1>1. media[p].handoff /\ media[p].pending = "none" /\ media[p] \in MediaRecords
  BY SlotFacts DEF Outbound
<1>2. media[p].purpose = "call" /\ Engaged(media[p])
  BY <1>1 DEF CallsEngaged, Handed
<1>3. Active(media[p])
  BY <1>1, OutboundActive
<1>4. Sides[p] = CallSide(media[p])
  BY DEF Sides
<1> QED BY <1>1, <1>2, <1>3, <1>4, SideFields DEF CM!Keyed, MediaRecords

LEMMA BindFollows ==
  ASSUME MediaInv, MediaInv', CallsEngaged, NEW p \in Registered, NEW c \in Calls, Bind(p, c)
  PROVE  CallsEngaged' /\ Follows
<1> DEFINE s == media[p]
           t == [s EXCEPT !.call = c]
           m == CallSide(s)
           n == CallSide(t)
<1>1. Outbound(p) /\ s.call \in {0, c} /\ c # 0 /\ c \in Nat
  BY DEF Bind, Calls
<1>2. media' = [media EXCEPT ![p] = t] /\ last' = last
  BY HandledTo DEF Bind, Keep, Kept
<1>3. /\ s \in MediaRecords /\ s.purpose = "call" /\ Engaged(s) /\ Sides[p] = m
      /\ CM!Keyed(Sides, p, Sides[p].generation)
      /\ Sides[p].pending = "none" /\ Sides[p].handoff /\ Sides[p].call = s.call
  BY <1>1, OutboundSide
<1>4. /\ t \in MediaRecords /\ t.gen = s.gen /\ t.purpose = s.purpose
      /\ t.handoff = s.handoff /\ t.call = c /\ t.sent = s.sent
      /\ t.viewer = s.viewer /\ t.state = s.state /\ t.pending = s.pending
      /\ t.m = s.m /\ t.mgen = s.mgen /\ t.confirmed = s.confirmed
  BY <1>1, <1>3 DEF MediaRecords
<1> HIDE DEF t
<1>5. Handed(t)
  BY <1>3, <1>4 DEF Handed, Engaged
<1>6. n = [m EXCEPT !.call = c]
  <2>1. /\ m \in SideRecords /\ n \in SideRecords
        /\ n.active = m.active /\ n.generation = m.generation
        /\ n.confirmed = m.confirmed /\ n.state = m.state
    BY <1>3, <1>4, SidePair, SameConfirmation
  <2>2. /\ n.purpose = m.purpose /\ n.handoff = m.handoff /\ n.call = c
        /\ n.sent = m.sent /\ n.viewer = m.viewer /\ n.pending = m.pending
    BY <1>4 DEF CallSide
  <2> HIDE DEF m, n
  <2> QED BY Zenon, <2>1, <2>2 DEF SideRecords
<1> HIDE DEF m
<1>7. CM!BindControl(Sides, p, Sides[p].generation, c).media = [Sides EXCEPT ![p] = n]
  BY <1>1, <1>3, <1>6 DEF CM!BindControl, CM!Done
<1>8. CallMediaStep(Sides, [Sides EXCEPT ![p] = n], p)
  BY <1>7 DEF CallMediaStep
<1> QED BY <1>2, <1>5, <1>8, ChangeFollows

LEMMA MarkSentFollows ==
  ASSUME MediaInv, MediaInv', CallsEngaged, NEW p \in Registered, MarkSent(p)
  PROVE  CallsEngaged' /\ Follows
<1> DEFINE s == media[p]
           t == [s EXCEPT !.sent = TRUE]
           m == CallSide(s)
           n == CallSide(t)
<1>1. Outbound(p) /\ s.call # 0
  BY DEF MarkSent
<1>2. media' = [media EXCEPT ![p] = t] /\ last' = last
  BY HandledTo DEF MarkSent, Keep, Kept
<1>3. /\ s \in MediaRecords /\ s.purpose = "call" /\ Engaged(s) /\ Sides[p] = m
      /\ CM!Keyed(Sides, p, Sides[p].generation)
      /\ Sides[p].pending = "none" /\ Sides[p].handoff /\ Sides[p].call = s.call
  BY <1>1, OutboundSide
<1>4. /\ t \in MediaRecords /\ t.gen = s.gen /\ t.purpose = s.purpose
      /\ t.handoff = s.handoff /\ t.call = s.call /\ t.sent = TRUE
      /\ t.viewer = s.viewer /\ t.state = s.state /\ t.pending = s.pending
      /\ t.m = s.m /\ t.mgen = s.mgen /\ t.confirmed = s.confirmed
  BY <1>3 DEF MediaRecords
<1> HIDE DEF t
<1>5. Handed(t)
  BY <1>3, <1>4 DEF Handed, Engaged
<1>6. n = [m EXCEPT !.sent = TRUE]
  <2>1. /\ m \in SideRecords /\ n \in SideRecords
        /\ n.active = m.active /\ n.generation = m.generation
        /\ n.confirmed = m.confirmed /\ n.state = m.state
    BY <1>3, <1>4, SidePair, SameConfirmation
  <2>2. /\ n.purpose = m.purpose /\ n.handoff = m.handoff /\ n.call = m.call
        /\ n.sent = TRUE /\ n.viewer = m.viewer /\ n.pending = m.pending
    BY <1>4 DEF CallSide
  <2> HIDE DEF m, n
  <2> QED BY Zenon, <2>1, <2>2 DEF SideRecords
<1> HIDE DEF m
<1>7. CM!MarkSent(Sides, p, Sides[p].generation, Sides[p].call).media = [Sides EXCEPT ![p] = n]
  BY <1>1, <1>3, <1>6 DEF CM!MarkSent, CM!Done
<1>8. CallMediaStep(Sides, [Sides EXCEPT ![p] = n], p)
  BY <1>7 DEF CallMediaStep
<1> QED BY <1>2, <1>5, <1>8, ChangeFollows

\* The preview that was to be a call is a preview again.
LEMMA RollbackFollows ==
  ASSUME MediaInv, MediaInv', CallsEngaged, NEW p \in Registered, Rollback(p)
  PROVE  CallsEngaged' /\ Follows
<1> DEFINE s == media[p]
           t == [s EXCEPT !.purpose = "preview", !.handoff = FALSE, !.call = 0,
                          !.m.persistent = TRUE]
           m == CallSide(s)
           n == CallSide(t)
<1>1. Outbound(p) /\ ~s.sent
  BY DEF Rollback
<1>2. media' = [media EXCEPT ![p] = t] /\ last' = last
  BY HandledTo DEF Rollback, Keep, Kept
<1>3. /\ s \in MediaRecords /\ s.m \in Monitors /\ Sides[p] = m
      /\ CM!Keyed(Sides, p, Sides[p].generation)
      /\ Sides[p].pending = "none" /\ Sides[p].handoff /\ Sides[p].sent = s.sent
  BY <1>1, OutboundSide
<1>4. /\ t \in MediaRecords /\ t.gen = s.gen /\ t.purpose = "preview"
      /\ t.handoff = FALSE /\ t.call = 0 /\ t.sent = s.sent
      /\ t.viewer = s.viewer /\ t.state = s.state /\ t.pending = s.pending
      /\ t.m = [s.m EXCEPT !.persistent = TRUE] /\ t.mgen = s.mgen
      /\ t.confirmed = s.confirmed
  BY <1>3 DEF MediaRecords, Monitors
<1> HIDE DEF t
<1>5. Handed(t)
  BY <1>1, <1>4 DEF Handed, Outbound
<1>6. Upgradable(t, InTime) = Upgradable(s, InTime)
  BY <1>3, <1>4 DEF Upgradable, InTime, Receiving, Monitors
<1>7. n = [m EXCEPT !.purpose = "preview", !.handoff = FALSE, !.call = 0]
  <2>1. /\ m \in SideRecords /\ n \in SideRecords
        /\ n.active = m.active /\ n.generation = m.generation
        /\ n.confirmed = m.confirmed /\ n.state = m.state
    BY <1>3, <1>4, <1>6, SidePair
  <2>2. /\ n.purpose = "preview" /\ n.handoff = FALSE /\ n.call = 0
        /\ n.sent = m.sent /\ n.viewer = m.viewer /\ n.pending = m.pending
    BY <1>4 DEF CallSide
  <2> HIDE DEF m, n
  <2> QED BY Zenon, <2>1, <2>2 DEF SideRecords
<1> HIDE DEF m
<1>8. CM!Rollback(Sides, p, Sides[p].generation, Sides[p].call).media = [Sides EXCEPT ![p] = n]
  BY <1>1, <1>3, <1>7 DEF CM!Rollback, CM!Done
<1>9. CallMediaStep(Sides, [Sides EXCEPT ![p] = n], p)
  BY <1>8 DEF CallMediaStep
<1> QED BY <1>2, <1>5, <1>9, ChangeFollows

LEMMA ViewedIs ==
  ASSUME NEW s \in MediaRecords, NEW active \in BOOLEAN
  PROVE  LET t == Viewed(s, active)
         IN /\ t \in MediaRecords /\ t.gen = s.gen /\ t.purpose = s.purpose
            /\ t.handoff = s.handoff /\ t.call = s.call /\ t.sent = s.sent
            /\ t.pending = s.pending /\ t.m = s.m /\ t.mgen = s.mgen
            /\ t.confirmed = s.confirmed /\ t.viewer = active
            /\ IF active THEN t.state = "viewing"
               ELSE t.state \in {s.state, "awaiting", "requesting", "publishing"}
<1> DEFINE prep == s.prep /\ ~active
           a == [s EXCEPT !.viewer = active, !.prep = prep]
           state == IF s.pub THEN Shown(a)
                    ELSE IF active THEN "viewing"
                    ELSE IF s.state = "viewing" THEN WithoutViewer(s) ELSE s.state
           t == [a EXCEPT !.state = state]
<1>1. /\ a \in MediaRecords /\ a.viewer = active /\ a.gen = s.gen /\ a.purpose = s.purpose
      /\ a.handoff = s.handoff /\ a.call = s.call /\ a.sent = s.sent
      /\ a.pending = s.pending /\ a.m = s.m /\ a.mgen = s.mgen
      /\ a.confirmed = s.confirmed
  BY DEF MediaRecords
<1>2. IF active THEN state = "viewing"
      ELSE state \in {s.state, "awaiting", "requesting", "publishing"}
  <2>1. WithoutViewer(s) \in {"awaiting", "requesting", "publishing"}
    BY DEF WithoutViewer
  <2>2. Shown(a) = IF active THEN "viewing" ELSE "publishing"
    BY <1>1 DEF Shown
  <2> HIDE DEF a
  <2> QED BY <2>1, <2>2
<1>3. state \in SessionStates
  BY <1>2 DEF MediaRecords, SessionStates
<1>4. Viewed(s, active) = t
  BY DEF Viewed, MediaRecords
<1> HIDE DEF a, state
<1>5. /\ t \in MediaRecords /\ t.gen = s.gen /\ t.purpose = s.purpose
      /\ t.handoff = s.handoff /\ t.call = s.call /\ t.sent = s.sent
      /\ t.pending = s.pending /\ t.m = s.m /\ t.mgen = s.mgen
      /\ t.confirmed = s.confirmed /\ t.viewer = active /\ t.state = state
  BY <1>1, <1>3 DEF MediaRecords
<1> QED BY <1>2, <1>4, <1>5

LEMMA ViewFollows ==
  ASSUME MediaInv, MediaInv', CallsEngaged, NEW p \in Registered, NEW active \in BOOLEAN,
         View(p, active)
  PROVE  CallsEngaged' /\ Follows
<1> DEFINE s == media[p]
           t == Viewed(s, active)
           m == CallSide(s)
           n == CallSide(t)
<1>1. /\ s \in MediaRecords /\ Handed(s) /\ Active(s) /\ s.pending = "none"
      /\ Sides[p] = m
  BY SlotFacts DEF CallsEngaged, View, Sides
<1>2. media' = [media EXCEPT ![p] = t] /\ last' = last
  BY HandledTo DEF View, Keep, Kept
<1>3. /\ t \in MediaRecords /\ t.gen = s.gen /\ t.purpose = s.purpose
      /\ t.handoff = s.handoff /\ t.call = s.call /\ t.sent = s.sent
      /\ t.pending = s.pending /\ t.m = s.m /\ t.mgen = s.mgen
      /\ t.confirmed = s.confirmed /\ t.viewer = active
      /\ IF active THEN t.state = "viewing"
         ELSE t.state \in {s.state, "awaiting", "requesting", "publishing"}
  BY <1>1, ViewedIs
<1> HIDE DEF t
<1>4. Handed(t)
  BY <1>1, <1>3 DEF Handed, Engaged
<1>5. /\ m \in SideRecords /\ n \in SideRecords
      /\ n.active = m.active /\ n.generation = m.generation
      /\ n.confirmed = m.confirmed
  BY <1>1, <1>3, SidePair, SameConfirmation
<1>6. /\ n.purpose = m.purpose /\ n.handoff = m.handoff /\ n.call = m.call
      /\ n.sent = m.sent /\ n.viewer = active /\ n.pending = m.pending
      /\ m.active /\ m.pending = "none"
  BY <1>1, <1>3, SideFields
<1>7. n.state \in IF active THEN {"live"} ELSE {m.state, "live"}
  BY <1>3 DEF CallSide
<1> HIDE DEF m, n
<1>8. n = [m EXCEPT !.viewer = active, !.state = n.state]
  BY Zenon, <1>5, <1>6 DEF SideRecords
<1>9. n \in CM!Viewed(m, active)
  BY <1>7, <1>8 DEF CM!Viewed
<1>10. CallMediaStep(Sides, [Sides EXCEPT ![p] = n], p)
  BY <1>1, <1>6, <1>9 DEF CallMediaStep
<1> QED BY <1>2, <1>4, <1>10, ChangeFollows DEF n

LEMMA ReleasesFollow ==
  ASSUME MediaInv, MediaInv', CallsEngaged, NEW p \in Registered, NEW reason \in EndReasons,
         NEW e
  PROVE  /\ Release(p, reason, e) => CallsEngaged' /\ Follows
         /\ \A c \in Calls : ReleaseIncoming(p, c, reason, e) => CallsEngaged' /\ Follows
<1>1. ASSUME Release(p, reason, e) PROVE CallsEngaged' /\ Follows
  <2>1. /\ media[p].handoff /\ media[p].pending \in {"none", reason}
        /\ Handle(p, Released(media[p], reason, e.stops))
    BY <1>1 DEF Release
  <2>2. Active(media[p]) /\ media[p].purpose = "call"
    BY <2>1, OutboundActive DEF CallsEngaged, Handed
  <2> QED BY <2>1, <2>2, ReleasedFollows
<1>2. ASSUME NEW c \in Calls, ReleaseIncoming(p, c, reason, e)
      PROVE  CallsEngaged' /\ Follows
  <2>1. /\ Active(media[p]) /\ media[p].purpose = "call"
        /\ media[p].pending \in {"none", reason}
        /\ Handle(p, Released(media[p], reason, e.stops))
    BY <1>2 DEF ReleaseIncoming
  <2> QED BY <2>1, ReleasedFollows
<1> QED BY <1>1, <1>2

LEMMA TickFollows ==
  ASSUME MediaInv, MediaInv', CallsEngaged, NEW p \in Registered, NEW e, Tick(p, e)
  PROVE  CallsEngaged' /\ Follows
<1> DEFINE s == media[p]
<1>1. /\ s \in MediaRecords /\ Active(s) /\ Sane(s) /\ Handed(s)
      /\ Handle(p, Ticked(s, e))
  BY SlotFacts DEF Tick, CallsEngaged
<1>2. CASE s.pending = "none"
  <2>1. Unasked(s, Ticked(s, e))
    BY <1>1, <1>2, TickedDoes
  <2>2. s.purpose = "call" => Faded(s, Ticked(s, e))
    BY <1>1, <1>2, TickedFades DEF Handed
  <2> QED BY <1>1, <1>2, <2>1, <2>2, UnaskedFollows
<1>3. CASE s.pending # "none" /\ e.due
  <2>1. s.purpose = "call" /\ s.pending \in EndReasons
    BY <1>1, <1>3 DEF Handed, MediaRecords
  <2>2. Handle(p, Released(s, s.pending, e.stops))
    BY <1>1, <1>3 DEF Ticked
  <2> QED BY <1>1, <2>1, <2>2, ReleasedFollows
<1>4. CASE s.pending # "none" /\ ~e.due
  <2>1. Handle(p, Kept(s))
    BY <1>1, <1>4 DEF Ticked
  <2>2. media' = [media EXCEPT ![p] = s] /\ last' = last
    BY <2>1, HandledTo DEF Kept
  <2> QED BY <1>1, <2>2, ChangeFollows
<1> QED BY <1>2, <1>3, <1>4

LEMMA HandlersFollow ==
  ASSUME MediaInv, MediaInv', CallsEngaged, NEW p \in Registered
  PROVE  /\ \A e : Stop(p, e) \/ PushVideo(p, e) => CallsEngaged' /\ Follows
         /\ \A frame \in MonitorFrames : \A e :
              ReceiveControl(p, frame, e) => CallsEngaged' /\ Follows
<1>1. Handed(media[p]) /\ (Active(media[p]) => Sane(media[p]))
  BY SlotFacts DEF CallsEngaged
<1>2. ASSUME NEW e, Stop(p, e) PROVE CallsEngaged' /\ Follows
  <2>1. /\ Active(media[p]) /\ media[p].pending = "none"
        /\ Handle(p, StoppedBy(media[p], e))
    BY <1>2 DEF Stop
  <2>2. Unasked(media[p], StoppedBy(media[p], e))
    BY <1>1, <2>1, StoppedByDoes
  <2>3. media[p].purpose = "call" => Faded(media[p], StoppedBy(media[p], e))
    BY <1>1, StoppedByFades DEF Handed
  <2> QED BY <2>1, <2>2, <2>3, UnaskedFollows
<1>3. ASSUME NEW e, PushVideo(p, e) PROVE CallsEngaged' /\ Follows
  <2>1. /\ Active(media[p]) /\ media[p].pending = "none" /\ Welcome(media[p])
        /\ Handle(p, Pictured(media[p], e))
    BY <1>3 DEF PushVideo, Welcome
  <2>2. Unasked(media[p], Pictured(media[p], e))
    BY <1>1, <2>1, PicturedDoes
  <2>3. media[p].purpose = "call" => Faded(media[p], Pictured(media[p], e))
    BY <1>1, <2>1, PicturedFades DEF Handed
  <2> QED BY <2>1, <2>2, <2>3, UnaskedFollows
<1>4. ASSUME NEW frame \in MonitorFrames, NEW e, ReceiveControl(p, frame, e)
      PROVE  CallsEngaged' /\ Follows
  <2>1. /\ Active(media[p]) /\ media[p].pending = "none"
        /\ frame \in {"keepalive", "hangup", "ended"} => media[p].purpose = "preview"
        /\ Accepts(media[p].m, frame, e.due)
        /\ Handle(p, Received(media[p], frame, e))
    BY <1>4 DEF ReceiveControl
  <2>2. Unasked(media[p], Received(media[p], frame, e))
    BY <1>1, <2>1, ReceivedDoes
  <2>3. media[p].purpose = "call" => Faded(media[p], Received(media[p], frame, e))
    BY <1>1, <2>1, ReceivedFades DEF Handed
  <2> QED BY <2>1, <2>2, <2>3, UnaskedFollows
<1> QED BY <1>2, <1>3, <1>4

\* What a call that comes in meets in CallMedia when the manager takes it.
LEMMA IncomingAccepted ==
  ASSUME MediaInv, NEW p \in Registered, NEW c \in Calls, media[p].pending = "none",
         Calling \subseteq {p}, media[p].purpose = "call" => c > media[p].call,
         last < LastAttempt
  PROVE  LET next == CM!NewMedia(last + 1, "call", c)
             full == Cardinality(Used) >= Capacity
         IN /\ Active(media[p]) \/ ~full =>
                 CM!IncomingMedia(Sides, last, p, c, TRUE).media = [Sides EXCEPT ![p] = next]
            /\ ~Active(media[p]) /\ full /\ PreemptPreviews /\ Previews # {} =>
                 CM!IncomingMedia(Sides, last, p, c, TRUE).media =
                   [Sides EXCEPT ![OldestPreview] = CM!NoMedia, ![p] = next]
<1> DEFINE next == CM!NewMedia(last + 1, "call", c)
           full == Cardinality(Used) >= Capacity
<1>1. /\ Sides[p].active = Active(media[p]) /\ Sides[p].pending = "none"
      /\ Sides[p].purpose = media[p].purpose /\ Sides[p].call = media[p].call
      /\ Active(media[p]) \in BOOLEAN
  BY SideFields DEF Sides, Active
<1>2. /\ CM!Calling(Sides) \ {p} = {}
      /\ CM!Cardinality(CM!Used(Sides)) = Cardinality(Used)
      /\ CM!Previews(Sides) = Previews
  BY UsedSides, CardinalitySeen
<1>3. c \in Nat /\ media[p].call \in Nat /\ last \in Nat /\ last # LastAttempt
  BY SlotFacts, MonitorAssumption DEF Calls
<1>4. ~(media[p].purpose = "call" /\ c = media[p].call)
      /\ ~(media[p].purpose = "call" /\ c < media[p].call)
  BY <1>3
<1> HIDE DEF next, full
<1>5. ASSUME Active(media[p]) \/ ~full
      PROVE  CM!IncomingMedia(Sides, last, p, c, TRUE).media = [Sides EXCEPT ![p] = next]
  BY <1>1, <1>2, <1>3, <1>4, <1>5 DEF CM!IncomingMedia, CM!Done, full, next
<1>6. ASSUME ~Active(media[p]), full, PreemptPreviews, Previews # {}
      PROVE  CM!IncomingMedia(Sides, last, p, c, TRUE).media =
               [Sides EXCEPT ![OldestPreview] = CM!NoMedia, ![p] = next]
  <2>1. CM!OldestPreview(Sides) = OldestPreview
    BY <1>6, OldestSide
  <2> QED BY <1>1, <1>2, <1>3, <1>4, <1>6, <2>1 DEF CM!IncomingMedia, CM!Done, full, next
<1> QED BY <1>5, <1>6 DEF next, full

\* The session of the station becomes the call, unless its child does not go.
LEMMA TakeOwnFollows ==
  ASSUME MediaInv, MediaInv', CallsEngaged, NEW p \in Registered, NEW c \in Calls, NEW e,
         media[p].pending = "none", Calling \subseteq {p}, last < LastAttempt,
         media[p].purpose = "call" => c > media[p].call,
         Active(media[p]), TakeOwn(p, c, e)
  PROVE  CallsEngaged' /\ Follows
<1> DEFINE s == media[p]
           t == StopEncoder(s, e.stops)
           encoder == IF Stuck(s) THEN "stuck" ELSE "none"
           n == OwnCall(last + 1, c, encoder)
<1>1. s \in MediaRecords /\ s.m \in Monitors /\ Handed(s)
  BY SlotFacts DEF CallsEngaged, MediaRecords
<1>2. CASE s.encoder = "running" /\ Stuck(t)
  <2>1. media' = [media EXCEPT ![p] = t] /\ last' = last
    BY <1>2, HandledTo DEF TakeOwn, Keep, Kept
  <2>2. Same(s, t) /\ t.m = s.m /\ t.mgen = s.mgen /\ t.confirmed = s.confirmed
    BY <1>1, StopEncoderDoes
  <2> HIDE DEF t
  <2>3. s.purpose = "call" => Fades(s, t)
    BY <1>1, <2>2, QuieterSelf, Fading DEF Handed, Engaged, Same
  <2>4. CallSide(t) \in CM!MediaChanges(CallSide(s)) /\ Handed(t)
    BY <1>1, <2>2, <2>3, SameIsSameUse, UnaskedSide
  <2>5. CallMediaStep(Sides, [Sides EXCEPT ![p] = CallSide(t)], p)
    BY <2>4 DEF CallMediaStep, Sides
  <2> QED BY <2>1, <2>4, <2>5, ChangeFollows
<1>3. CASE ~(s.encoder = "running" /\ Stuck(t))
  <2>1. media' = [media EXCEPT ![p] = n] /\ last' = last + 1
    BY <1>3 DEF TakeOwn, OwnCall
  <2>2. last + 1 \in Attempts /\ last + 1 # 0 /\ c \in Nat
    BY SlotFacts, AttemptBounds DEF Attempts, Calls
  <2>3. encoder \in {"none", "stuck"}
    OBVIOUS
  <2> HIDE DEF encoder
  <2>4. CallSide(n) = CM!NewMedia(last + 1, "call", c) /\ Handed(n) /\ n.gen = last + 1
    BY <2>2, <2>3, NewCallSide
  <2> HIDE DEF n
  <2>5. CM!IncomingMedia(Sides, last, p, c, TRUE).media = [Sides EXCEPT ![p] = CallSide(n)]
    <3>1. CM!IncomingMedia(Sides, last, p, c, TRUE).media =
            [Sides EXCEPT ![p] = CM!NewMedia(last + 1, "call", c)]
      BY IncomingAccepted
    <3> QED BY <2>4, <3>1
  <2>6. CallMediaStep(Sides, [Sides EXCEPT ![p] = CallSide(n)], p)
    BY <2>5 DEF CallMediaStep
  <2> QED BY <2>1, <2>4, <2>6, BegunFollows
<1> QED BY <1>2, <1>3

\* The oldest preview makes room, or it stays with a child that does not go.
LEMMA TakeOldestFollows ==
  ASSUME MediaInv, MediaInv', CallsEngaged, NEW p \in Registered, NEW c \in Calls, NEW e,
         media[p].pending = "none", Calling \subseteq {p}, last < LastAttempt,
         media[p].purpose = "call" => c > media[p].call,
         ~Active(media[p]), Cardinality(Used) >= Capacity, PreemptPreviews,
         Previews # {}, TakeOldest(p, c, e)
  PROVE  CallsEngaged' /\ Follows
<1> DEFINE q == OldestPreview
           s == media[q]
           n == [Stopped(s.m) EXCEPT !.stopSent = TRUE]
           a == IF s.m.state = "idle" THEN s ELSE [s EXCEPT !.m = n]
           t == StopPipeline(a, e.stops)
           k == NewCall(last + 1, c)
<1>1. q \in Registered /\ Active(s) /\ q # p /\ s.purpose # "call"
  BY OldestIsPreview DEF Previews, Used, Calling
<1>2. CM!IncomingMedia(Sides, last, p, c, TRUE).media =
        [Sides EXCEPT ![q] = CM!NoMedia, ![p] = CM!NewMedia(last + 1, "call", c)]
  BY IncomingAccepted
<1> HIDE DEF q
<1>3. /\ s \in MediaRecords /\ s.m \in Monitors /\ Handed(s) /\ s.pending = "none"
  BY <1>1, SlotFacts DEF CallsEngaged, MediaRecords, Handed
<1>4. n \in Monitors /\ n.persistent = s.m.persistent
  BY <1>3, StopSentMonitor DEF GoesOn
<1>5. a = IF s.m.state = "idle" THEN s
          ELSE [s EXCEPT !.m = [Stopped(@) EXCEPT !.stopSent = TRUE]]
  BY <1>3 DEF MediaRecords
<1> HIDE DEF n
<1>6. Same(s, a)
  BY <1>3, <1>4, WithMonitor, SameSelf
<1> HIDE DEF a
<1>7. Same(s, t)
  <2>1. Same(a, t)
    BY <1>6, StopPipelineDoes DEF Same
  <2> HIDE DEF t
  <2> QED BY <1>6, <2>1, SameTrans
<1>8. IF Stuck(t) THEN Keep(q, t)
      ELSE /\ media' = [media EXCEPT ![q] = NoSession, ![p] = k]
           /\ last' = last + 1
  BY <1>5 DEF TakeOldest, q
<1> HIDE DEF t
<1>9. CASE Stuck(t)
  <2>1. media' = [media EXCEPT ![q] = t] /\ last' = last
    BY <1>8, <1>9, HandledTo DEF Keep, Kept
  <2>2. CallSide(t) \in CM!MediaChanges(CallSide(s)) /\ Handed(t)
    BY <1>1, <1>3, <1>7, SameIsSameUse, UnaskedSide
  <2>3. CallMediaStep(Sides, [Sides EXCEPT ![q] = CallSide(t)], q)
    BY <1>1, <2>2 DEF CallMediaStep, Sides
  <2> QED BY <1>1, <2>1, <2>2, <2>3, ChangeFollows
<1>10. CASE ~Stuck(t)
  <2> DEFINE free == [media EXCEPT ![q] = NoSession]
  <2>1. media' = [media EXCEPT ![q] = NoSession, ![p] = k] /\ last' = last + 1
    BY <1>8, <1>10
  <2>2. last + 1 \in Attempts /\ last + 1 # 0 /\ c \in Nat
    BY SlotFacts, AttemptBounds DEF Attempts, Calls
  <2>3. CallSide(k) = CM!NewMedia(last + 1, "call", c) /\ Handed(k) /\ k.gen = last + 1
    BY <2>2, NewCallSide
  <2> HIDE DEF k
  <2>4. media \in [Registered -> MediaRecords]
    BY DEF MediaInv, MediaTypeOK
  <2>5. \A r \in Registered :
          media'[r] = IF r = p THEN k ELSE IF r = q THEN NoSession ELSE media[r]
    BY <1>1, <2>1, <2>4
  <2>6. \A r \in Registered : Handed(media'[r])
    BY <2>3, <2>5, NoSessionSide DEF CallsEngaged
  <2>7. CallsEngaged'
    <3>1. \A r \in Registered : Handed(media[r])' <=> Handed(media'[r])
      BY DEF Handed, Engaged, Settled
    <3> QED BY <2>6, <3>1 DEF CallsEngaged
  <2>8. Sides' = [Sides EXCEPT ![q] = CM!NoMedia, ![p] = CM!NewMedia(last + 1, "call", c)]
    <3>1. \A r \in Registered : CallSide(media[r])' = CallSide(media'[r])
      BY DEF CallSide, Active, Upgradable, InTime, Receiving
    <3>2. Sides' = [r \in Registered |-> CallSide(media'[r])]
      BY <3>1 DEF Sides
    <3>3. \A r \in Registered :
            CallSide(media'[r]) = IF r = p THEN CM!NewMedia(last + 1, "call", c)
                                  ELSE IF r = q THEN CM!NoMedia ELSE CallSide(media[r])
      BY <2>3, <2>5, NoSessionSide
    <3> QED BY <1>1, <3>2, <3>3 DEF Sides
  <2>9. media'[p].gen = last + 1
    BY <2>3, <2>5
  <2>10. last' = CM!LastGeneration(last, Sides')
    BY <2>1, <2>9, LastTaken
  <2>11. CallMediaStep(Sides, Sides', p)
    BY <1>2, <2>8 DEF CallMediaStep
  <2> QED BY <2>7, <2>10, <2>11 DEF Follows
<1> QED BY <1>9, <1>10

LEMMA IncomingFollows ==
  ASSUME MediaInv, MediaInv', CallsEngaged, NEW p \in Registered, NEW c \in Calls, NEW e,
         Incoming(p, c, e)
  PROVE  CallsEngaged' /\ Follows
<1> DEFINE s == media[p]
           k == NewCall(last + 1, c)
<1>1. /\ s.pending = "none" /\ Calling \subseteq {p}
      /\ s.purpose = "call" => c >= s.call
  BY DEF Incoming
<1>2. CASE s.purpose = "call" /\ c = s.call
  <2>1. UNCHANGED <<media, last>>
    BY <1>2 DEF Incoming
  <2>2. CallsEngaged' /\ Sides' = Sides
    BY <2>1 DEF CallsEngaged, Sides, CallSide, Active, Upgradable, InTime, Receiving,
                Handed, Engaged, Settled
  <2> QED BY <2>1, <2>2 DEF Follows
<1>3. CASE ~(s.purpose = "call" /\ c = s.call)
  <2>1. last < LastAttempt
    BY <1>3 DEF Incoming
  <2>2. s.purpose = "call" => c > s.call
    BY <1>1, <1>3, SlotFacts DEF Calls
  <2>3. CASE Active(s)
    BY <1>1, <1>3, <2>1, <2>2, <2>3, TakeOwnFollows DEF Incoming
  <2>4. CASE ~Active(s) /\ Cardinality(Used) >= Capacity
    BY <1>1, <1>3, <2>1, <2>2, <2>4, TakeOldestFollows DEF Incoming
  <2>5. CASE ~Active(s) /\ ~(Cardinality(Used) >= Capacity)
    <3>1. media' = [media EXCEPT ![p] = k] /\ last' = last + 1
      BY <1>3, <2>5 DEF Incoming
    <3>2. last + 1 \in Attempts /\ last + 1 # 0 /\ c \in Nat
      BY <2>1, SlotFacts, AttemptBounds DEF Attempts, Calls
    <3>3. CallSide(k) = CM!NewMedia(last + 1, "call", c) /\ Handed(k) /\ k.gen = last + 1
      BY <3>2, NewCallSide
    <3> HIDE DEF k
    <3>4. CM!IncomingMedia(Sides, last, p, c, TRUE).media = [Sides EXCEPT ![p] = CallSide(k)]
      <4>1. CM!IncomingMedia(Sides, last, p, c, TRUE).media =
              [Sides EXCEPT ![p] = CM!NewMedia(last + 1, "call", c)]
        BY <1>1, <2>1, <2>2, <2>5, IncomingAccepted
      <4> QED BY <3>3, <4>1
    <3>5. CallMediaStep(Sides, [Sides EXCEPT ![p] = CallSide(k)], p)
      BY <3>4 DEF CallMediaStep
    <3> QED BY <3>1, <3>3, <3>5, BegunFollows
  <2> QED BY <2>3, <2>4, <2>5
<1> QED BY <1>2, <1>3

LEMMA InitEngaged == Init => CallsEngaged
BY NoSessionSide DEF Init, CallsEngaged

LEMMA NextFollows ==
  ASSUME MediaInv, CallsEngaged, [Next]_vars
  PROVE  CallsEngaged' /\ Follows
<1>1. MediaInv'
  BY NextKeepsMedia
<1>2. CASE UNCHANGED vars
  BY <1>2 DEF vars, Follows, CallsEngaged, Sides, CallSide, Active, Upgradable, InTime,
              Receiving, Handed, Engaged, Settled
<1>3. CASE Next
  <2> PICK p \in Registered :
        \/ \E prep \in BOOLEAN : Start(p, prep)
        \/ \E e \in OnCheck : Upgrade(p, e)
        \/ \E c \in Calls : Bind(p, c)
        \/ MarkSent(p)
        \/ Rollback(p)
        \/ \E reason \in EndReasons, e \in OnStop(media[p]) : Release(p, reason, e)
        \/ \E c \in Calls, reason \in EndReasons, e \in OnStop(media[p]) :
             ReleaseIncoming(p, c, reason, e)
        \/ \E c \in Calls, e \in OnCall : Incoming(p, c, e)
        \/ \E e \in OnStop(media[p]) : Stop(p, e)
        \/ \E active \in BOOLEAN : View(p, active)
        \/ \E frame \in MonitorFrames : \E e \in OnFrame(media[p], frame) :
             ReceiveControl(p, frame, e)
        \/ \E e \in OnVideo : PushVideo(p, e)
        \/ \E e \in OnTick(media[p]) : Tick(p, e)
    BY <1>3 DEF Next
  <2> DEFINE Goal == CallsEngaged' /\ Follows
  <2>1. ASSUME NEW prep \in BOOLEAN, Start(p, prep) PROVE Goal
    BY <1>1, <2>1, StartFollows
  <2>2. ASSUME NEW e, Upgrade(p, e) PROVE Goal
    BY <1>1, <2>2, UpgradeFollows
  <2>3. ASSUME NEW c \in Calls, Bind(p, c) PROVE Goal
    BY <1>1, <2>3, BindFollows
  <2>4. ASSUME MarkSent(p) PROVE Goal
    BY <1>1, <2>4, MarkSentFollows
  <2>5. ASSUME Rollback(p) PROVE Goal
    BY <1>1, <2>5, RollbackFollows
  <2>6. ASSUME NEW reason \in EndReasons, NEW e, Release(p, reason, e) PROVE Goal
    BY <1>1, <2>6, ReleasesFollow
  <2>7. ASSUME NEW c \in Calls, NEW reason \in EndReasons, NEW e,
               ReleaseIncoming(p, c, reason, e)
        PROVE  Goal
    BY <1>1, <2>7, ReleasesFollow
  <2>8. ASSUME NEW c \in Calls, NEW e, Incoming(p, c, e) PROVE Goal
    BY <1>1, <2>8, IncomingFollows
  <2>9. ASSUME NEW active \in BOOLEAN, View(p, active) PROVE Goal
    BY <1>1, <2>9, ViewFollows
  <2>10. ASSUME NEW e, Tick(p, e) PROVE Goal
    BY <1>1, <2>10, TickFollows
  <2>11. ASSUME NEW e, Stop(p, e) \/ PushVideo(p, e) PROVE Goal
    BY <1>1, <2>11, HandlersFollow
  <2>12. ASSUME NEW frame \in MonitorFrames, NEW e, ReceiveControl(p, frame, e) PROVE Goal
    BY <1>1, <2>12, HandlersFollow
  <2> HIDE DEF Goal
  <2>13. Goal
    BY <2>1, <2>2, <2>3, <2>4, <2>5, <2>6, <2>7, <2>8, <2>9, <2>10, <2>11, <2>12
  <2> QED BY <2>13 DEF Goal
<1> QED BY <1>2, <1>3


-----------------------------------------------------------------------------
(* The theorems *)

\* Sessions, bindings and generations have their types, whatever the handlers do.
THEOREM MediaTypeInvariant == Spec => []MediaTypeOK
<1>1. MediaInv => MediaTypeOK
  BY DEF MediaInv
<1> QED BY <1>1, InitMedia, NextKeepsMedia, PTL DEF Spec

\* Every slot is free or holds a sane session: at most failed on a child that is
\* out of reach, its picture trusted only in its attempt and after its request,
\* and a running child only with a publication.
THEOREM SessionsStaySane == Spec => []SlotsOK
<1>1. MediaInv => SlotsOK
  BY DEF MediaInv
<1> QED BY <1>1, InitMedia, NextKeepsMedia, PTL DEF Spec

\* The session and its monitor count the same attempts, through every retry, late
\* answer and video that comes first, and a picture that an unlock may trust was
\* taken in that attempt.
THEOREM AttemptsStayInStep == Spec => []AttemptsInStep
<1>1. MediaInv => AttemptsInStep
  BY SlotFacts, SaneInStep DEF AttemptsInStep, Used
<1> QED BY <1>1, InitMedia, NextKeepsMedia, PTL DEF Spec

\* No session goes while its child is there and no child runs without a
\* publication, however many steps of a handler fail.
THEOREM ChildrenStayOwned == Spec => []ChildOwned
<1>1. MediaInv => ChildOwned
  BY SlotFacts, NoSessionType DEF ChildOwned, MediaInv, Sane, Owned
<1> QED BY <1>1, InitMedia, NextKeepsMedia, PTL DEF Spec

\* The manager and the runtime agree on the session of every call, and never more
\* sessions are given out than fit, one call among them.
THEOREM CallsStayBound == Spec => []CallsAreBound
<1>1. MediaInv => CallsAreBound
  BY DEF MediaInv
<1> QED BY <1>1, InitMedia, NextKeepsMedia, PTL DEF Spec
\* A call that was handed over, or that waits for its release, stays a call, and
\* a late answer of the station to the preview that it was can only confirm what
\* the upgrade already relied on.
THEOREM CallsStayEngaged == Spec => []CallsEngaged
<1> DEFINE Inv == MediaInv /\ CallsEngaged
<1>1. Init => Inv
  BY InitMedia, InitEngaged
<1>2. Inv /\ [Next]_vars => Inv'
  BY NextKeepsMedia, NextFollows
<1>3. Inv => CallsEngaged
  OBVIOUS
<1> HIDE DEF Inv
<1> QED BY <1>1, <1>2, <1>3, PTL DEF Spec

\* Whatever monitors, retries, encoders and preemptions do, calls see one request
\* to CallMedia, or a fault that it allows the manager unasked: StationCall is
\* checked with all that this manager can do to its sessions.
THEOREM SessionsImplementCallMedia == Spec => ImplementsCallMedia
<1> DEFINE Inv == MediaInv /\ CallsEngaged
           Seen == \E A \in {Sides}, B \in {Sides'} :
                     /\ last' = CM!LastGeneration(last, B)
                     /\ \E p \in Registered : CallMediaStep(A, B, p)
<1>1. Init => Inv
  BY InitMedia, InitEngaged
<1>2. Inv /\ [Next]_vars => Inv' /\ [Seen]_<<Sides, last>>
  <2> SUFFICES ASSUME Inv, [Next]_vars
               PROVE  Inv' /\ [Seen]_<<Sides, last>>
    OBVIOUS
  <2>1. Inv' /\ Follows
    BY NextKeepsMedia, NextFollows
  <2> QED BY <2>1 DEF Follows
<1>3. ImplementsCallMedia <=> [][Seen]_<<Sides, last>>
  BY DEF ImplementsCallMedia
<1> HIDE DEF Inv, Seen
<1> QED BY <1>1, <1>2, <1>3, PTL DEF Spec
=============================================================================
