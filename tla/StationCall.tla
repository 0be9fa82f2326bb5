----------------------------- MODULE StationCall -----------------------------
(***************************************************************************)
(* A call that the household places to a door station: the coordinator of    *)
(* runtime_station_call.c, on top of call control and of the media sessions. *)
(*                                                                         *)
(* The coordinator holds one operation.  It prepares a preview of the        *)
(* station, promotes it once the station confirmed it, lets call control     *)
(* send the CALL, and cleans up after whatever ends the call: the peer, a    *)
(* user, a timeout, an incoming call, a media failure, the loss of the       *)
(* network.  It has no process of its own: it is stepped before and after    *)
(* every step of call control and after every control packet.               *)
(***************************************************************************)
EXTENDS CallControl, CallMedia

CONSTANTS
  PrepareTimeout,  \* PREPARE_MS
  EndTimeout,      \* END_MS
  HeardKinds       \* the kinds of frame that arrive

ASSUME StationAssumption ==
  /\ PrepareTimeout \in Nat \ {0}
  /\ EndTimeout \in Nat \ {0}
  /\ NoPeer \notin Registered
  /\ HeardKinds \subseteq {"call", "hangup", "pick", "pickAck", "hangupAck",
                          "ask", "reply", "timeSync"}

VARIABLES
  op,     \* struct df_runtime_station_call_operation
  media,  \* the sessions of the media session manager
  last    \* its next_generation: the last one given out

stationVars == <<vars, op, media, last>>

Stages == {"none", "preparing", "calling", "talking", "ending", "ended", "failed"}

Operations == [stage : Stages, station : Registered \cup {NoPeer},
               media : MediaGenerations, call : Generations,
               owns : BOOLEAN, promoted : BOOLEAN, sent : BOOLEAN, left : Nat,
               error : BOOLEAN, reason : EndReasons, fault : Faults,
               cleanup : BOOLEAN]

NoOperation == [stage |-> "none", station |-> NoPeer, media |-> 0, call |-> 0,
                owns |-> FALSE, promoted |-> FALSE, sent |-> FALSE, left |-> 0,
                error |-> FALSE, reason |-> "none", fault |-> "none",
                cleanup |-> FALSE]

OpActive(o) == o.stage \in {"preparing", "calling", "talking", "ending"}

StationTypeOK ==
  /\ TypeOK
  /\ op \in Operations
  /\ media \in [Registered -> MediaSessions]
  /\ last \in MediaGenerations

-----------------------------------------------------------------------------
(* The world an operation acts on: call control, the operation, the media *)

World == [session |-> session, deadline |-> deadline, dispatch |-> dispatch,
          ack |-> ack, handshake |-> handshake, slot |-> handshakeDispatch,
          control |-> Control, op |-> op, media |-> media, last |-> last]

\* What call control made of its part of the world.
WithControl(y, r) ==
  [y EXCEPT !.session = r.session, !.deadline = r.deadline,
            !.dispatch = r.dispatch, !.ack = r.ack, !.handshake = r.handshake,
            !.slot = r.slot, !.control = r.control]

WithMedia(y, m) ==
  [y EXCEPT !.media = m, !.last = LastGeneration(y.last, m)]

InstallWorld(y) ==
  /\ Install(y)
  /\ op' = y.op
  /\ media' = y.media
  /\ last' = y.last

\* Broken on purpose: any call of the station is the operation's.
OwnerOfPeer(y) == y.op.call # 0 /\ y.session.peer = y.op.station

OwnerMatches(y) ==
  /\ y.op.call # 0
  /\ y.session.generation = y.op.call
  /\ y.session.peer = y.op.station

Free(y) == ~DispatchActive(y.dispatch) /\ y.ack.state # "waiting"

CancelCommands(y, g) ==
  IF g = 0 THEN y
  ELSE [y EXCEPT !.dispatch = Superseded(@, g),
                 !.ack = AckSuperseded(@, g),
                 !.slot = Vacated(Superseded(@, g)),
                 !.handshake = IF OwnerMatches(y) THEN NoHandshake ELSE @]

OutboundReason(reason) ==
  IF reason \in ReleaseReasons THEN reason ELSE "unknown"

IncomingReason(reason) ==
  IF reason \in {"local_hangup", "peer_hangup", "session_timeout", "runtime_reset"}
  THEN reason ELSE "unknown"

\* A preview that has a viewer is not the operation's own, or no longer.
Owns(y) == y.op.owns /\ ~y.media[y.op.station].viewer

\* Broken on purpose: whoever asked for the preview.
GoesAnyway(o, owns) == ~o.sent

\* The preview goes with the operation that it was made for.
GoesToo(o, owns) == ~o.sent /\ owns

\* The media of the operation: a call that was announced is released, one that
\* was not becomes the preview again, which goes if it was made for the call.
Undone(o, m, reason, stops) ==
  IF ~o.promoted THEN Done(TRUE, m)
  ELSE IF o.sent
  THEN ReleaseOutbound(m, o.station, o.media, o.call, OutboundReason(reason), stops)
  ELSE Rollback(m, o.station, o.media, o.call)

PreviewGone(o, owns, undo, stops) ==
  IF undo.ok /\ GoesToo(o, owns)
  THEN StopPreview(undo.media, o.station, o.media, stops)
  ELSE undo

\* A promotion that was undone is forgotten, one that was announced is not.
StillPromoted(o, undone) == o.promoted /\ (o.sent \/ ~undone)

Cleanup(y, reason, stops) ==
  LET undo == Undone(y.op, y.media, reason, stops)
      gone == PreviewGone(y.op, Owns(y), undo, stops)
  IN IF ~Keyed(y.media, y.op.station, y.op.media) THEN [ok |-> TRUE, to |-> y]
     ELSE [ok |-> gone.ok,
           to |-> [y EXCEPT !.media = gone.media, !.op.owns = Owns(y),
                            !.op.promoted = StillPromoted(y.op, undo.ok)]]

\* Broken on purpose: the session of the call is left as it is.
ReleaseCommands(y, reason, why) == CancelCommands(y, y.op.call)

\* Broken on purpose: the end of the call is not put on record.
ReleaseUnrecorded(y, reason, why) ==
  LET c == CancelCommands(y, y.op.call)
  IN IF ~OwnerMatches(y) THEN c
     ELSE [c EXCEPT !.session = Abort(@), !.deadline = Disarmed]

\* Call control's part of an operation that is over.
ReleaseControl(y, reason, why) ==
  LET c == CancelCommands(y, y.op.call)
  IN IF ~OwnerMatches(y) THEN c
     ELSE [c EXCEPT !.session = Abort(@), !.deadline = Disarmed,
                    !.control = [fault |-> why,
                                 terminal |-> [reason |-> reason, fault |-> why,
                                               generation |-> y.op.call]]]

\* What nothing but a repeated cleanup reads is forgotten with the last one.
Settled(o) ==
  IF o.cleanup THEN o
  ELSE [o EXCEPT !.owns = FALSE, !.promoted = FALSE, !.sent = FALSE]

\* Broken on purpose: a call that nobody answered yet is just dropped.
TellsTalking(y, error, reason) ==
  /\ error
  /\ y.op.sent
  /\ OwnerMatches(y)
  /\ Active(y.session)
  /\ y.op.stage = "talking"
  /\ reason \notin {"preempted", "runtime_reset"}

Tells(y, error, reason) ==
  /\ error
  /\ y.op.sent
  /\ OwnerMatches(y)
  /\ Active(y.session)
  /\ y.op.stage # "ending"
  /\ reason \notin {"preempted", "runtime_reset"}

\* The first error of an operation that is ending is the one that stands.
Verdict(o, error, reason, why) ==
  IF o.stage = "ending" /\ o.error
  THEN [error |-> TRUE, reason |-> o.reason, fault |-> o.fault]
  ELSE [error |-> error, reason |-> reason, fault |-> why]

Judged(o, bad, verdict, cleanup) ==
  [o EXCEPT !.stage = IF bad THEN "failed" ELSE "ended", !.left = 0, !.error = bad,
            !.reason = verdict.reason, !.fault = verdict.fault, !.cleanup = cleanup]

Concluded(clean, verdict) ==
  [clean.to EXCEPT !.op = Settled(Judged(@, verdict.error \/ ~clean.ok, verdict,
                                         ~clean.ok))]

Conclude(y, verdict, stops) ==
  Concluded(Cleanup(ReleaseControl(y, verdict.reason, verdict.fault),
                    verdict.reason, stops), verdict)

\* finish(): a call that was announced and that fails here first tells its peer,
\* within EndTimeout.
EndOperation(y, error, reason, why, stops) ==
  LET c == CancelCommands(y, y.op.call)
  IN IF Tells(y, error, reason) /\ Free(c)
     THEN [c EXCEPT !.dispatch = Queued(CommandFor("hangup", y.session)),
                    !.op = [@ EXCEPT !.stage = "ending", !.left = EndTimeout,
                                     !.error = TRUE, !.reason = reason,
                                     !.fault = why]]
     ELSE Conclude(y, Verdict(y.op, error, reason, why), stops)

-----------------------------------------------------------------------------
(* The step of the operation *)

\* The session becomes the outbound call and the CALL is queued for it.
MayInstall(y) ==
  /\ y.op.stage = "preparing"
  /\ ~y.op.promoted
  /\ y.op.left > 0
  /\ ~Active(y.session)
  /\ Free(y)
  /\ y.session.generation < MaxGeneration

InstallCall(y, stops) ==
  LET o == y.op
      s == Start(y.session, o.station, "preview")
      b == BindControl(Promote(y.media, o.station), o.station, o.media, s.generation)
      z == [y EXCEPT !.media = b.media, !.op.promoted = TRUE]
  IN IF ~b.ok THEN EndOperation(z, TRUE, "unknown", "dispatch_failed", stops)
     ELSE [z EXCEPT !.session = s, !.deadline = Disarmed,
                    !.dispatch = Queued(CommandFor("call", s)),
                    !.handshake = NoHandshake, !.control.fault = "none",
                    !.op = [@ EXCEPT !.stage = "calling", !.call = s.generation,
                                     !.left = 0]]

\* Broken on purpose: only a preview of its own is given up.
PrepareOverOwned(y) == y.op.left = 0 /\ y.op.owns

PrepareOver(y) == y.op.left = 0

StepPreparing(y, room, stops) ==
  LET answer == Check(y.media, y.op.station, y.op.media, room)
  IN IF Active(y.session)
     THEN EndOperation(y, TRUE, "preempted", "preempted", stops)
     ELSE IF PrepareOver(y)
     THEN EndOperation(y, TRUE, "confirmation_timeout", "confirmation_timeout", stops)
     ELSE IF answer = "unconfirmed" THEN y
     ELSE IF answer = "ok" /\ MayInstall(y) THEN InstallCall(y, stops)
     ELSE EndOperation(y, TRUE, "unknown", "dispatch_failed", stops)

\* The session is over: the operation ends as its record says.
StepOver(y, stops) ==
  LET t == y.control.terminal
      known == t.generation = y.op.call
  IN EndOperation(y, y.op.error \/ (known /\ t.fault # "none"),
                  IF known THEN t.reason ELSE "unknown",
                  IF known THEN t.fault ELSE "unknown", stops)

\* The call is under way, its CALL sent or not.  `m` is the media as it was
\* when the step began.
StepCall(y, m, stops) ==
  LET o == y.op
      End(reason, why) == EndOperation(y, TRUE, reason, why, stops)
  IN IF ~Active(y.session) THEN StepOver(y, stops)
     ELSE IF o.stage # "ending" /\ (m.purpose # "call" \/ m.state # "live")
     THEN End("unknown", "unknown")
     ELSE IF y.dispatch.state \in {"failed", "timeout", "cancelled"}
     THEN End("unknown", y.control.fault)
     ELSE IF y.ack.state = "expired"
     THEN End("confirmation_timeout", "confirmation_timeout")
     ELSE IF o.stage = "ending" /\ o.left = 0
     THEN End("local_hangup", "dispatch_timeout")
     ELSE IF y.session.state = "talking" /\ o.stage # "ending"
     THEN [y EXCEPT !.op.stage = "talking"]
     ELSE y

\* SENT is what the transport delivered, never what was only queued.
StepSent(y, m, stops) ==
  LET fresh == ~y.op.sent /\ y.dispatch.state = "sent" /\ y.dispatch.cmd.type = "call"
      mark  == MarkSent(y.media, y.op.station, y.op.media, y.op.call)
      told  == [y EXCEPT !.op.sent = TRUE, !.media = mark.media]
  IN IF ~fresh THEN StepCall(y, m, stops)
     ELSE IF mark.ok THEN StepCall(told, m, stops)
     ELSE EndOperation(told, TRUE, "unknown", "unknown", stops)

StationStep(y, room, stops) ==
  LET o == y.op
      m == y.media[o.station]
      lost == ~m.active \/ m.state = "failed" \/ m.pending # "none"
      seen == [y EXCEPT !.op.owns = Owns(y)]
  IN IF ~OpActive(o) THEN y
     ELSE IF o.stage # "ending" /\ ~Keyed(y.media, o.station, o.media)
     THEN IF lost THEN EndOperation(y, TRUE, "unknown", "unknown", stops)
          ELSE EndOperation(y, TRUE, "preempted", "preempted", stops)
     ELSE IF o.stage = "preparing" THEN StepPreparing(seen, room, stops)
     ELSE IF ~OwnerMatches(seen)
     THEN EndOperation(seen, TRUE, "preempted", "preempted", stops)
     ELSE StepSent(seen, m, stops)

\* The media of an incoming call that ended is released, as often as it takes.
ReleaseEnded(y, stops) ==
  LET p == y.session.peer
  IN IF /\ y.session.state = "ended"
        /\ p \in Registered
        /\ y.media[p].active
        /\ y.media[p].purpose = "call"
     THEN [y EXCEPT !.media =
             ReleaseIncoming(@, p, y.session.generation,
                             IncomingReason(y.control.terminal.reason), stops).media]
     ELSE y

\* What the coordinator makes of the step of call control.
StationAfter(y, r, room, stops) ==
  [ok |-> r.ok, wire |-> r.wire,
   to |-> ReleaseEnded(StationStep(WithControl(y, r), room, stops), stops)]

\* df_runtime_call_step.
CallStep(y, sent1, sent2, sent3, room, stops) ==
  LET a == StationStep(y, room, stops)
  IN StationAfter(a, StepFrom(a, sent1, sent2, sent3), room, stops)

\* The choices that matter to the step: what is not used is not chosen.
Rooms(o) == IF o.stage = "preparing" THEN BOOLEAN ELSE {TRUE}
Stops(m) == IF Used(m) = {} THEN {TRUE} ELSE BOOLEAN
\* A step may queue a command and send it at once.
Sends(o, slot) == IF MayTransmit(slot) \/ OpActive(o) THEN BOOLEAN ELSE {FALSE}
\* A heartbeat falls due in the step when none runs yet or its interval is over.
Beats(o) == IF \/ Active(session) /\ (~handshake.active \/ handshake.left = 0)
               \/ OpActive(o)
            THEN BOOLEAN ELSE {FALSE}

CommitWorld(r, next) ==
  /\ wire' = r.wire
  /\ IF r.ok THEN InstallWorld(r.to) /\ phase' = next
     ELSE /\ phase' = "stopped"
          /\ UNCHANGED <<session, deadline, dispatch, ack, handshake,
                         handshakeDispatch, terminal, fault, op, media, last>>

StationCallStep ==
  /\ phase = "poll"
  /\ \E sent1 \in Outcomes(handshakeDispatch), sent2 \in Beats(op),
        sent3 \in Sends(op, dispatch), room \in Rooms(op), stops \in Stops(media) :
       CommitWorld(CallStep(World, sent1, sent2, sent3, room, stops), "packet")

-----------------------------------------------------------------------------
(* Requests *)

\* df_runtime_station_call_admit.  A repeated request finds the operation that
\* is under way, or the call that its station placed, and changes nothing.
Admit(p) ==
  /\ phase = "poll"
  /\ ~OpActive(op)
  /\ ~Active(session)
  /\ ~SlotBusy
  /\ session.generation < MaxGeneration
  /\ media[p].active => media[p].purpose = "preview" /\ media[p].state # "stopping"
  /\ LET m == StartPreview(media, last, p)
     IN /\ m.ok
        /\ media' = m.media
        /\ last' = LastGeneration(last, m.media)
        /\ op' = [NoOperation EXCEPT !.stage = "preparing", !.station = p,
                                     !.media = m.media[p].generation,
                                     !.owns = ~media[p].active,
                                     !.left = PrepareTimeout]
  /\ UNCHANGED vars

\* A CALL request that names the prepared media installs the call like the step.
RequestCall ==
  /\ phase = "poll"
  /\ op.stage = "preparing"
  /\ Check(media, op.station, op.media, TRUE) = "ok"
  /\ MayInstall(World)
  /\ \E stops \in Stops(media) : InstallWorld(InstallCall(World, stops))
  /\ UNCHANGED <<phase, wire>>

\* df_runtime_call_hangup for an incoming call, which releases its media when it
\* could not be sent.
HangupCall(y, g, stops) ==
  LET z == HangupFrom(y, g)
  IN IF Active(z.session) THEN z ELSE ReleaseEnded(z, stops)

\* Broken on purpose: the hangup that repeats the cleanup becomes the outcome.
RetryAsHangup(y, stops) == EndOperation(y, FALSE, "local_hangup", "cancelled", stops)

RetryCleanup(y, stops) ==
  EndOperation(y, y.op.error, y.op.reason, y.op.fault, stops)

\* df_runtime_station_call_hangup of the operation; `y` when it has nothing to do.
HangupOperation(y, stops) ==
  LET o == y.op
      c == CancelCommands(y, o.call)
  IN IF ~OpActive(o)
     THEN IF o.cleanup THEN RetryCleanup(y, stops) ELSE y
     ELSE IF o.stage = "ending" THEN y
     ELSE IF ~o.sent THEN EndOperation(y, FALSE, "local_hangup", "cancelled", stops)
     ELSE IF ~OwnerMatches(y) THEN y
     ELSE IF Free(c) /\ Active(y.session)
     THEN [c EXCEPT !.dispatch = Queued(CommandFor("hangup", y.session)),
                    !.op = [@ EXCEPT !.stage = "ending", !.left = EndTimeout]]
     ELSE EndOperation(c, TRUE, "local_hangup", "dispatch_failed", stops)

\* The hangup of a station, with the media generation the client read, or 0.
HangupStation(p, generation) ==
  /\ phase = "poll"
  /\ OpActive(op) /\ op.station = p /\ generation # 0 => generation = op.media
  /\ ~OpActive(op) /\ session.state \in {"ringing", "talking"} /\ session.peer = p
       /\ generation # 0
     => Keyed(media, p, generation) /\ media[p].purpose = "call"
  /\ LET ofOperation ==
           /\ op.station = p
           /\ \/ generation = op.media
              \/ generation = 0 /\ (OpActive(op) \/ ~Active(session))
         ofCall ==
           /\ Active(session)
           /\ session.peer = p
           /\ media[p].active
           /\ media[p].purpose = "call"
           /\ generation \in {0, media[p].generation}
           /\ ~HangupUnderWay(session.generation)
     IN \E stops \in Stops(media) :
          \/ ofOperation /\ InstallWorld(HangupOperation(World, stops))
          \/ /\ ~ofOperation
             /\ ofCall
             /\ InstallWorld(HangupCall(World, session.generation, stops))
  /\ UNCHANGED <<phase, wire>>

\* The hangup of a call generation: the operation's own goes to the operation.
HangupGeneration(g) ==
  /\ phase = "poll"
  /\ g # 0
  /\ g = session.generation
  /\ \E stops \in Stops(media) :
       IF OpActive(op) /\ g = op.call
       THEN InstallWorld(HangupOperation(World, stops))
       ELSE /\ Active(session)
            /\ ~HangupUnderWay(g)
            /\ InstallWorld(HangupCall(World, g, stops))
  /\ UNCHANGED <<phase, wire>>

AnswerCall(g) == Answer(g) /\ UNCHANGED <<op, media, last>>

\* The preview of a station, requested, watched and stopped by its viewers.  A
\* viewer of the operation's preview makes it everyone's.
Shared(p) == IF OpActive(op) /\ op.station = p /\ op.media = media[p].generation
             THEN [op EXCEPT !.owns = FALSE] ELSE op

MonitorStart(p) ==
  /\ phase = "poll"
  /\ session.state \notin {"ringing", "talking"}
  /\ LET m == StartPreview(media, last, p)
     IN m.ok /\ media' = m.media /\ last' = LastGeneration(last, m.media)
  /\ op' = Shared(p)
  /\ UNCHANGED vars

MonitorViewer(p) ==
  /\ phase = "poll"
  /\ media[p].active
  /\ media[p].pending = "none"
  /\ \E watching \in BOOLEAN :
       /\ \E m \in Viewed(media[p], watching) : media' = [media EXCEPT ![p] = m]
       /\ op' = IF watching THEN Shared(p) ELSE op
  /\ UNCHANGED <<vars, last>>

MonitorStop(p) ==
  /\ phase = "poll"
  /\ media[p].active
  /\ media[p].purpose = "preview"
  /\ ~(OpActive(op) /\ op.station = p /\ op.media = media[p].generation)
  /\ \E stops \in BOOLEAN :
       media' = StopPreview(media, p, media[p].generation, stops).media
  /\ UNCHANGED <<vars, op, last>>

\* What the manager itself makes of the session of a station.
MediaChange(p) ==
  /\ phase = "poll"
  /\ \E m \in MediaChanges(media[p]) : media' = [media EXCEPT ![p] = m]
  /\ UNCHANGED <<vars, op, last>>

-----------------------------------------------------------------------------
(* Packets *)

\* A caller takes over what is prepared or being called: the frame is tried on a
\* copy in which the outbound call is over, and only commits if it is accepted.
Yielding(y, f) ==
  /\ y.op.stage \in {"preparing", "calling"}
  /\ f.src \in Registered
  /\ y.session.state = "idle" \/ y.session.generation = y.op.call

\* What the operation of another station leaves to the call that takes over.
\* Call control's part is replaced by the copy.
Yielded(y, f, stops) ==
  IF y.op.stage \in {"preparing", "calling"} /\ y.op.station # f.src
  THEN EndOperation(y, TRUE, "preempted", "preempted", stops)
  ELSE y

Tried(y, f) ==
  IF Yielding(y, f)
  THEN [y EXCEPT !.session = Abort(@), !.deadline = Disarmed] ELSE y

\* The sessions once the new call has one, if it gets one.
WithIncoming(p, f, g, works) ==
  WithMedia(p, IncomingMedia(p.media, p.last, f.src, g, works).media)

CallReceived(y, r, f, works, stops) ==
  LET accepted == r.session.generation # y.session.generation
  IN WithControl(IF accepted /\ f.src \in Registered
                 THEN WithIncoming(Yielded(y, f, stops), f, r.session.generation, works)
                 ELSE y, r)

ReceiveCallFrame(y, f, works, room, stops) ==
  LET r == ReceiveFrom(Tried(y, f), f)
  IN IF r.ok THEN StationStep(CallReceived(y, r.to, f, works, stops), room, stops)
     ELSE y

ReceiveControlFrame(y, f, room, stops) ==
  LET r == ReceiveFrom(y, f)
  IN ReleaseEnded(StationStep(WithControl(y, r.to), room, stops), stops)

Heard == {f \in Frames : f.kind \in HeardKinds}

IncomingCall(f) == f.kind = "call" /\ f.dst \in Household

StationReceiveCall ==
  /\ phase = "packet"
  /\ \E f \in {h \in Heard : IncomingCall(h)}, works \in BOOLEAN,
        room \in Rooms(op), stops \in Stops(media) :
       InstallWorld(ReceiveCallFrame(World, f, works, room, stops))
  /\ phase' = "poll"
  /\ wire' = {}

StationReceive ==
  /\ phase = "packet"
  /\ \E f \in {h \in Heard : ~IncomingCall(h)},
        room \in Rooms(op), stops \in Stops(media) :
       InstallWorld(ReceiveControlFrame(World, f, room, stops))
  /\ phase' = "poll"
  /\ wire' = {}

StationNoPacket == NoPacket /\ UNCHANGED <<op, media, last>>

\* The capture failed: the operation is reset before the step that follows, in
\* which no command fits the call that is over and nothing is sent.
StationCaptureLost ==
  /\ phase = "packet"
  /\ \E room \in Rooms(op), stops \in Stops(media) :
       LET y == WithControl(World, Lost)
           z == IF OpActive(op)
                THEN EndOperation(y, TRUE, "runtime_reset", "runtime_reset", stops)
                ELSE y
       IN CommitWorld(CallStep(z, FALSE, FALSE, FALSE, room, stops), "poll")

StationTick ==
  /\ Tick
  /\ op' = [op EXCEPT !.left = Min0(@)]
  /\ UNCHANGED <<media, last>>

-----------------------------------------------------------------------------
StationInit ==
  /\ Init
  /\ op = NoOperation
  /\ media = [p \in Registered |-> NoMedia]
  /\ last = 0

StationNext ==
  \/ \E g \in Generations : AnswerCall(g) \/ HangupGeneration(g)
  \/ \E p \in Registered :
       \/ Admit(p)
       \/ \E g \in MediaGenerations : HangupStation(p, g)
       \/ MonitorStart(p)
       \/ MonitorViewer(p)
       \/ MonitorStop(p)
       \/ MediaChange(p)
  \/ RequestCall
  \/ StationCallStep
  \/ StationReceiveCall
  \/ StationReceive
  \/ StationNoPacket
  \/ StationCaptureLost
  \/ StationTick

StationSpec == StationInit /\ [][StationNext]_stationVars

StationFairness == WF_phase(LoopTurn) /\ SF_stationVars(StationTick)

StationFairSpec == StationSpec /\ StationFairness

-----------------------------------------------------------------------------
(* Properties *)

\* A call that was placed has no deadline until it is answered: the operation
\* that placed it is what ends it, and it never lets go of one that is under way,
\* whichever caller, user or failure ends the operation.
OutboundOwned ==
  session.state = "preview" =>
    /\ op.stage \in {"calling", "ending"}
    /\ op.call = session.generation
    /\ op.station = session.peer

\* The video of a placed call does not outlive it: an operation that is over
\* left its media to the manager's own retry, to a repeated hangup, or nothing.
OwnedMedia ==
  \A p \in Registered :
    media[p].handoff /\ media[p].pending = "none" =>
      /\ op.station = p
      /\ op.media = media[p].generation
      /\ op.cleanup \/ (OpActive(op) /\ op.promoted)

\* What the operation and what call control report of the same call agree.
AccountsAgree ==
  op.stage \in {"ended", "failed"} /\ op.call # 0 /\ op.call = session.generation =>
    /\ ~Active(session)
    /\ terminal.generation = op.call
    /\ terminal.reason = op.reason

\* A station that was told of the call is told of its end: the operation never
\* drops a call that is under way on its side alone, unless the network or the
\* station is gone, its time is up, or another caller took over.  A local hangup
\* that arrives as a packet was sent by another phone of the household; a hangup
\* that was submitted may still be lost.
PeerIsTold ==
  [][op.sent /\ op.stage \in {"calling", "talking"}
       /\ op'.stage \in {"ended", "failed"}
       => \/ op'.reason \in {"peer_hangup", "session_timeout", "preempted",
                            "heartbeat_timeout", "runtime_reset"}
          \/ op'.reason = "local_hangup" /\ phase = "packet"
          \/ dispatch'.cmd.type = "hangup" /\ dispatch'.cmd.generation = op.call
    ]_stationVars

\* A preview that somebody watches survives a call that was never announced,
\* unless an incoming call takes its place.
WatchedPreviewKept ==
  [][LET p == op.station
     IN /\ OpActive(op) /\ ~OpActive(op') /\ ~op.sent
        /\ Keyed(media, p, op.media)
        /\ media[p].viewer /\ media[p].pending = "none"
        /\ last' = last
        /\ \A cmd \in wire' : cmd.type # "call"
        => media'[p].generation = op.media /\ media'[p].purpose = "preview"
             /\ media'[p].viewer
    ]_stationVars

\* Cleaning up after an operation never reaches the video of the call that
\* replaced it, whatever its station: while the incoming call lasts, its media
\* are changed by its viewers alone.
IncomingMediaKept ==
  [][\A p \in Registered :
       /\ media[p].purpose = "call" /\ ~media[p].handoff
       /\ Active(session) /\ media[p].call = session.generation
       /\ Active(session') /\ session'.generation = session.generation
       => media'[p] = [media[p] EXCEPT !.viewer = media'[p].viewer]
    ]_stationVars

\* The outcome of an operation stands until the next one: a repeated cleanup
\* does not turn a failure into a success nor change its reason.
OutcomeStands ==
  [][op.stage \in {"ended", "failed"} /\ op'.stage # "preparing"
       => [op' EXCEPT !.cleanup = op.cleanup, !.owns = op.owns,
                      !.promoted = op.promoted, !.sent = op.sent] = op
    ]_stationVars

\* No operation waits forever, for its preview, for its peer or for its hangup.
OperationMoves ==
  \A stage \in {"preparing", "calling", "ending"} :
    op.stage = stage ~> op.stage # stage
=============================================================================
