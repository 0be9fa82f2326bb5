---------------------------- MODULE CallControl ----------------------------
(***************************************************************************)
(* The call control of the daemon: gvs_call_control.c, driven by the main   *)
(* loop of runtime_service.c and by the ubus requests it serves.            *)
(*                                                                         *)
(* One iteration of the loop reads a packet, steps call control and then    *)
(* handles the packet, all with one clock reading; requests are served      *)
(* between iterations, and the clock moves between them.  `phase` says      *)
(* where in the iteration the loop is.  A step that fails makes the daemon  *)
(* leave the loop: phase "stopped".                                         *)
(***************************************************************************)
EXTENDS CallCommands

VARIABLES
  session,            \* struct df_gvs_session
  deadline,           \* struct df_gvs_deadline
  dispatch,           \* control.dispatch: the answer, call or hangup to send
  ack,                \* control.acknowledgement
  handshake,          \* control.handshake
  handshakeDispatch,  \* control.handshake_dispatch
  terminal,           \* control.terminal: how the last finished call ended
  fault,              \* control.fault
  phase,              \* "poll", "packet" or "stopped"
  wire                \* the commands this iteration handed to the transport

vars == <<session, deadline, dispatch, ack, handshake, handshakeDispatch,
          terminal, fault, phase, wire>>

EndReasons == {"none", "local_hangup", "peer_hangup", "session_timeout",
               "confirmation_timeout", "preempted", "runtime_reset",
               "heartbeat_timeout", "unknown"}
Faults == {"none", "dispatch_failed", "dispatch_timeout",
           "confirmation_timeout", "preempted", "cancelled",
           "heartbeat_timeout", "runtime_reset", "unknown"}
Terminals == [reason : EndReasons, fault : Faults, generation : Generations]

TypeOK ==
  /\ session \in Sessions
  /\ deadline \in Deadlines
  /\ dispatch \in Dispatches
  /\ ack \in Acks
  /\ handshake \in Handshakes
  /\ handshakeDispatch \in Dispatches
  /\ terminal \in Terminals
  /\ fault \in Faults
  /\ phase \in {"poll", "packet", "stopped"}
  /\ wire \subseteq Commands

-----------------------------------------------------------------------------
(* How a call ended *)

\* Broken on purpose: the first end ever recorded stands.
RecordTerminalOnce(c, reason, why, generation) ==
  IF generation = 0 \/ c.terminal.reason # "none" THEN c
  ELSE [terminal |-> [reason |-> reason, fault |-> why, generation |-> generation],
        fault |-> why]

\* The first end recorded for a generation stands.
RecordTerminal(c, reason, why, generation) ==
  IF generation = 0 \/ (c.terminal.reason # "none" /\ c.terminal.generation = generation)
  THEN c
  ELSE [terminal |-> [reason |-> reason, fault |-> why, generation |-> generation],
        fault |-> why]

\* df_gvs_call_control_classify_transition: from the session before and after
\* to the reason.  flags.disconnected is the heartbeat's, expired the
\* acknowledgement's.
Classify(c, before, after, flags, disconnected, expired) ==
  LET was == Active(before)
      why == IF expired THEN "confirmation_timeout" ELSE "none"
      End(reason, f) == RecordTerminal(c, reason, f, before.generation)
  IN IF disconnected /\ was THEN End("heartbeat_timeout", "heartbeat_timeout")
     ELSE IF flags.preempted
     THEN [(IF was THEN End("preempted", "preempted") ELSE c) EXCEPT !.fault = "none"]
     ELSE IF flags.timedOut /\ was THEN End("session_timeout", "none")
     ELSE IF (flags.ended \/ flags.local) /\ was /\ after.state = "ended"
     THEN End(IF flags.local THEN "local_hangup" ELSE "peer_hangup", why)
     ELSE IF was /\ after.state = "ended" THEN End("unknown", why)
     ELSE IF /\ why # "none"
             /\ c.terminal.reason = "none" \/ c.terminal.generation # after.generation
     THEN [c EXCEPT !.fault = why]
     ELSE IF ~was /\ Active(after) /\ before.generation # after.generation
     THEN [c EXCEPT !.fault = "none"]
     ELSE c

\* What a command that could not be delivered leaves in `fault`.
DispatchFault(c, d, s) ==
  LET relevant == /\ c.terminal.reason = "none" \/ c.terminal.generation # s.generation
                  /\ d.cmd.generation = s.generation
  IN IF ~relevant THEN c.fault
     ELSE IF d.state = "failed" THEN "dispatch_failed"
     ELSE IF d.state = "timeout" THEN "dispatch_timeout"
     ELSE "cancelled"

-----------------------------------------------------------------------------
(* The step *)

\* A call that has begun starts its heartbeat in the same step.
TimersAfter(s, c, beat, run) ==
  LET begin == ~beat.handshake.active /\ Active(run.session)
      again == HandshakeTick(HandshakeStart(run.session), run.session)
  IN [ok        |-> begin => HandshakeMayStart(run.session),
      session   |-> run.session,
      deadline  |-> run.deadline,
      ack       |-> run.ack,
      handshake |-> IF begin THEN again.handshake ELSE beat.handshake,
      ask       |-> IF begin THEN again.ask ELSE beat.ask,
      control   |-> Classify(c, s, run.session, run.flags, beat.disconnected,
                             run.expired)]

\* The heartbeat, the deadlines, and how the call ended if it just did.
StepTimers(s, d, a, h, c) ==
  LET beat == HandshakeTick(h, s)
  IN TimersAfter(s, c, beat, RuntimeTick(a, beat.session,
                               IF beat.disconnected THEN Disarmed ELSE d))

\* Nothing reads a finished command of the heartbeat's slot: the slot is empty.
Vacated(d) == IF DispatchActive(d) THEN d ELSE EmptyDispatch

\* The slot of the heartbeat: what it still holds, then the probe now due.
StepHandshake(slot, s, ask, sent1, sent2) ==
  LET first  == DispatchStep(slot, s, sent1)
      second == ask.type # "none" /\ ~DispatchActive(first)
  IN [slot |-> Vacated(IF second
                       THEN DispatchStep(HandshakeEnqueue(first, ask), s, sent2)
                       ELSE first),
      wire |-> {cmd \in {slot.cmd} : Transmits(slot, s)}
               \cup {cmd \in {ask} : second /\ Transmits(Queued(ask), s)}]

\* The slot of the user's command.  An undeliverable hangup ends the call
\* locally; a delivered command starts to wait for its acknowledgement, and a
\* delivered answer or call is also observed, as if it had been captured.
StepDispatch(t, slot, before, sent) ==
  LET next   == DispatchStep(slot, t.session, sent)
      lost   == DispatchActive(slot) /\ next.state \in {"failed", "timeout", "cancelled"}
      left   == IF lost THEN DispatchFault(t.control, next, t.session) ELSE t.control.fault
      hung   == /\ lost
                /\ next.state # "cancelled"
                /\ next.cmd.type = "hangup"
                /\ next.cmd.generation = t.session.generation
      told   == [t.control EXCEPT !.fault = left]
      fresh  == DispatchActive(slot) /\ next.state = "sent"
      echo   == IF next.cmd.type \in {"answer", "call"}
                THEN ReceivePick([src |-> Local, dst |-> next.cmd.peer],
                                 t.session, t.deadline)
                ELSE Received(t.session, t.deadline, NoFlags)
  IN [ok       |-> t.ok /\ (fresh => MayAwaitAck(t.ack, next, echo.session)),
      dispatch |-> next,
      session  |-> IF hung THEN Abort(t.session)
                   ELSE IF fresh THEN echo.session ELSE t.session,
      deadline |-> IF hung THEN Disarmed ELSE t.deadline,
      ack      |-> IF fresh THEN AwaitAck(next) ELSE t.ack,
      control  |-> IF hung
                   THEN RecordTerminal(told, "local_hangup", left, before.generation)
                   ELSE told,
      wire     |-> {cmd \in {slot.cmd} : Transmits(slot, t.session)}]

\* df_gvs_call_control_step on the struct x.  It is committed as a whole or not
\* at all; the datagrams of a failed step are already on the wire.
StepDone(h, k, m) ==
  [ok |-> m.ok, session |-> m.session, deadline |-> m.deadline,
   dispatch |-> m.dispatch, ack |-> m.ack, slot |-> k.slot,
   handshake |-> IF Active(m.session) THEN h ELSE NoHandshake,
   control |-> m.control, wire |-> k.wire \cup m.wire]

StepSlots(x, t, sent1, sent2, sent3) ==
  StepDone(t.handshake,
           StepHandshake(x.slot, t.session, t.ask, sent1, sent2),
           StepDispatch(t, x.dispatch, x.session, sent3))

StepFrom(x, sent1, sent2, sent3) ==
  StepSlots(x, StepTimers(x.session, x.deadline, x.ack, x.handshake, x.control),
            sent1, sent2, sent3)

Control == [terminal |-> terminal, fault |-> fault]

\* The session, its deadline and struct df_gvs_call_control, as they are passed
\* to the functions below.
Struct == [session |-> session, deadline |-> deadline, dispatch |-> dispatch,
           ack |-> ack, handshake |-> handshake, slot |-> handshakeDispatch,
           control |-> Control]

Install(x) ==
  /\ session' = x.session
  /\ deadline' = x.deadline
  /\ dispatch' = x.dispatch
  /\ ack' = x.ack
  /\ handshake' = x.handshake
  /\ handshakeDispatch' = x.slot
  /\ terminal' = x.control.terminal
  /\ fault' = x.control.fault

Commit(r, next) ==
  /\ wire' = r.wire
  /\ IF r.ok THEN Install(r) /\ phase' = next
     ELSE /\ phase' = "stopped"
          /\ UNCHANGED <<session, deadline, dispatch, ack, handshake,
                         handshakeDispatch, terminal, fault>>

\* The transport answers a datagram with success or failure.
Outcomes(slot) == IF MayTransmit(slot) THEN BOOLEAN ELSE {FALSE}

Step ==
  /\ phase = "poll"
  /\ \E sent1 \in Outcomes(handshakeDispatch), sent2 \in BOOLEAN,
        sent3 \in Outcomes(dispatch) :
       Commit(StepFrom(Struct, sent1, sent2, sent3), "packet")

-----------------------------------------------------------------------------
(* Requests, served between two iterations *)

\* Broken on purpose: half of the condition each.
SlotSending == DispatchActive(dispatch)
SlotAwaiting == ack.state = "waiting"

SlotBusy == DispatchActive(dispatch) \/ ack.state = "waiting"

\* df_gvs_call_control_submit_answer, for the generation the client read.
Answer(g) ==
  /\ phase = "poll"
  /\ g = session.generation
  /\ session.state = "ringing"
  /\ ~SlotBusy
  /\ dispatch' = Queued(CommandFor("answer", session))
  /\ UNCHANGED <<session, deadline, ack, handshake, handshakeDispatch,
                 terminal, fault, phase, wire>>

\* A hangup supersedes what the same call still had to send or to hear.
Superseded(d, g) == IF d.cmd.generation = g THEN Finish(d, "cancelled") ELSE d
AckSuperseded(a, g) ==
  IF a.cmd.generation = g THEN AckResolved(a, "cancelled") ELSE a

HangupUnderWay(g) ==
  dispatch.cmd.type = "hangup" /\ dispatch.cmd.generation = g /\ SlotBusy

\* df_runtime_call_hangup.  When the slot is still held by another call's
\* command the hangup is not sent and the call ends locally.
HangupFrom(x, g) ==
  LET y == [x EXCEPT !.dispatch = Superseded(x.dispatch, g),
                     !.ack = AckSuperseded(x.ack, g),
                     !.slot = Vacated(Superseded(x.slot, g))]
  IN IF ~DispatchActive(y.dispatch) /\ y.ack.state # "waiting"
     THEN [y EXCEPT !.dispatch = Queued(CommandFor("hangup", x.session))]
     ELSE [y EXCEPT !.session = Abort(x.session),
                    !.deadline = Disarmed,
                    !.handshake = NoHandshake,
                    !.control = [fault |-> "dispatch_failed",
                                 terminal |-> [reason |-> "local_hangup",
                                               fault |-> "dispatch_failed",
                                               generation |-> g]]]

Hangup(g) ==
  /\ phase = "poll"
  /\ g = session.generation
  /\ Active(session)
  /\ ~HangupUnderWay(g)
  /\ Install(HangupFrom(Struct, g))
  /\ UNCHANGED <<phase, wire>>

-----------------------------------------------------------------------------
(* The packet of the iteration *)

\* The frames the model tells apart; `match` is whether a 03/83 carries the
\* ports that were asked for, `left` the time a 03/57 grants.
Frame(kind, src, dst) ==
  [kind |-> kind, src |-> src, dst |-> dst, match |-> TRUE, left |-> 0]

Frames ==
  {Frame("call", p, h) : p \in Stations, h \in Household}
  \cup {Frame("hangup", p, h) : p \in Stations, h \in Household}
  \cup {Frame("hangup", Local, p) : p \in Stations}
  \cup {Frame("pick", Local, p) : p \in Stations}
  \cup {[Frame("pickAck", p, Local) EXCEPT !.match = b] : p \in Stations, b \in BOOLEAN}
  \cup {Frame(k, p, Local) : k \in {"hangupAck", "ask", "reply"}, p \in Stations}
  \cup {[Frame("timeSync", p, Local) EXCEPT !.left = n] :
          p \in Stations, n \in {0, 1, RingTimeout, TalkTimeout}}

\* 03/51 and 03/52 concern the heartbeat alone.
ReceiveHeartbeat(x, f) ==
  LET r == HandshakeReceive(x.handshake, x.session, f)
  IN [ok |-> r.ok,
      to |-> [x EXCEPT !.handshake = r.handshake,
                       !.slot = HandshakeEnqueue(@, r.reply)]]

ControlReceived(x, r) ==
  [ok |-> r.ok,
   to |-> [x EXCEPT !.session = r.session,
                    !.deadline = r.deadline,
                    !.ack = r.ack,
                    !.handshake = IF Active(r.session) THEN @ ELSE NoHandshake,
                    !.control = Classify(x.control, x.session, r.session,
                                         r.flags, FALSE, r.expired)]]

ReceiveControl(x, f) ==
  ControlReceived(x, RuntimeReceive(x.ack, f, x.session, x.deadline))

\* df_gvs_call_control_receive.  A refused frame changes nothing at all.
ReceiveFrom(x, f) ==
  IF f.kind \in {"ask", "reply"} THEN ReceiveHeartbeat(x, f)
  ELSE ReceiveControl(x, f)

Receive ==
  /\ phase = "packet"
  /\ \E f \in Frames : LET r == ReceiveFrom(Struct, f)
                      IN r.ok /\ Install(r.to)
  /\ phase' = "poll"
  /\ wire' = {}

\* No packet, a packet for another part of the daemon, or a refused one.
NoPacket ==
  /\ phase = "packet"
  /\ phase' = "poll"
  /\ wire' = {}
  /\ UNCHANGED <<session, deadline, dispatch, ack, handshake,
                 handshakeDispatch, terminal, fault>>

\* The capture failed: the call is over, whatever its peer does.
Lost == [Struct EXCEPT
           !.session = Abort(session),
           !.deadline = Disarmed,
           !.control = IF Active(session)
                       THEN RecordTerminal(Control, "unknown", "none",
                                           session.generation)
                       ELSE Control]

CaptureLost ==
  /\ phase = "packet"
  /\ \E sent1 \in Outcomes(handshakeDispatch), sent2 \in BOOLEAN,
        sent3 \in Outcomes(dispatch) :
       Commit(StepFrom(Lost, sent1, sent2, sent3), "poll")

\* The clock moves between iterations.
Tick ==
  /\ phase = "poll"
  /\ session' = [session EXCEPT !.pickLeft = Min0(@)]
  /\ deadline' = [deadline EXCEPT !.left = Min0(@)]
  /\ dispatch' = [dispatch EXCEPT !.left = Min0(@)]
  /\ ack' = [ack EXCEPT !.left = Min0(@)]
  /\ handshake' = [handshake EXCEPT !.left = Min0(@)]
  /\ handshakeDispatch' = [handshakeDispatch EXCEPT !.left = Min0(@)]
  /\ wire' = {}
  /\ UNCHANGED <<terminal, fault, phase>>

-----------------------------------------------------------------------------
Init ==
  /\ session = InitSession
  /\ deadline = Disarmed
  /\ dispatch = EmptyDispatch
  /\ ack = EmptyAck
  /\ handshake = NoHandshake
  /\ handshakeDispatch = EmptyDispatch
  /\ terminal = [reason |-> "none", fault |-> "none", generation |-> 0]
  /\ fault = "none"
  /\ phase = "poll"
  /\ wire = {}

Next ==
  \/ \E g \in Generations : Answer(g) \/ Hangup(g)
  \/ Step
  \/ Receive
  \/ NoPacket
  \/ CaptureLost
  \/ Tick

Spec == Init /\ [][Next]_vars

\* The loop keeps iterating: it polls with a timeout, so its two halves always
\* alternate.  The monotonic clock keeps moving while it does.
LoopTurn == phase # "stopped" /\ phase' \in {"poll", "packet"} \ {phase}
Fairness == WF_phase(LoopTurn) /\ SF_vars(Tick)

FairSpec == Spec /\ Fairness

-----------------------------------------------------------------------------
(* Properties *)

\* No legal interleaving of requests, packets, send failures and clock ticks
\* makes df_gvs_call_control_step fail, which would end the daemon: above all,
\* a command never reaches the wire while another one still waits for its
\* acknowledgement.
DaemonRuns == phase # "stopped"

\* Whatever the step hands to the transport belongs to the call that is current
\* once the timers of the same step have fired: no answer to a call that just
\* timed out, no heartbeat to a caller that was preempted.  Only an
\* undeliverable hangup ends the call it was sent for.
WireIsCurrent ==
  \A cmd \in wire :
    /\ cmd.generation = session.generation
    /\ cmd.peer = session.peer
    /\ CommandFits(cmd.type, session)
       \/ terminal = [reason |-> "local_hangup", fault |-> fault,
                      generation |-> cmd.generation]

\* An incoming call never rings or talks forever for want of a deadline: one is
\* armed for its own generation from its first to its last moment, through
\* preemption, time synchronisation and the pick.
CallTimed == Active(session) => DeadlineCurrent(deadline, session)

\* After every step the heartbeat watches the call that is current, also when
\* that call replaced another one since the step before.
HeartbeatWatches ==
  phase = "packet" /\ Active(session) =>
    /\ handshake.active
    /\ handshake.generation = session.generation
    /\ handshake.peer = session.peer

\* A hangup accepted from one client is not undone by an answer from another:
\* it keeps the command slot until the call is over.
HangupIsFinal ==
  [][Active(session) /\ dispatch.cmd = CommandFor("hangup", session)
       => \/ dispatch'.cmd = dispatch.cmd
          \/ ~Active(session')
          \/ session'.generation # session.generation]_vars

\* What docs/2026-09-08_gvs-call-control-evidence.md:260 says of a matching
\* answer: "匹配应答应同时产生 CONFIRMED 与 talking_transition", it is confirmed and
\* the call talks.  The code breaks it: the confirmation of a second answer
\* outlives the pick window that the first one opened.
ConfirmedAnswerTalks ==
  /\ ack.state = "confirmed"
  /\ ack.cmd.type = "answer"
  /\ ack.cmd.generation = session.generation
  => session.state # "ringing"

\* Call control implements the call lifecycle its clients rely on.
Lifecycle == INSTANCE CallLifecycle WITH
  state <- session.state,
  generation <- session.generation,
  last <- [generation |-> terminal.generation, reason |-> terminal.reason],
  Reasons <- EndReasons

ImplementsLifecycle == Lifecycle!Spec

\* A local hangup ends its call even when the transport fails and the peer
\* never answers.
HangupEnds ==
  \A g \in Generations \ {0} :
    (Active(session) /\ session.generation = g
       /\ dispatch.cmd = CommandFor("hangup", session))
    ~> ~(Active(session) /\ session.generation = g)

\* The command slot never stays busy: the next request can be accepted.
SlotFrees == SlotBusy ~> ~SlotBusy
=============================================================================
