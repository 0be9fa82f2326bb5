---------------------------- MODULE CallCommands ---------------------------
(***************************************************************************)
(* The command side of a call: a command waiting in the dispatch slot until *)
(* the transport takes it (gvs_call_dispatch.c), the acknowledgement the    *)
(* peer owes for it (gvs_call_ack.c, gvs_call_runtime.c), and the heartbeat *)
(* that watches the peer during a call (gvs_handshake.c).                   *)
(*                                                                         *)
(* Both transports of the daemon answer SUCCESS or FAILURE in the callback, *)
(* never PENDING, so a slot is never left in SENDING between two calls and  *)
(* df_gvs_call_dispatch_complete has no caller.                             *)
(***************************************************************************)
EXTENDS CallSession

CONSTANTS
  AttemptTimeout,     \* DF_GVS_SEND_ATTEMPT_TIMEOUT_MS
  RetryDelay,         \* DF_GVS_SEND_RETRY_DELAY_MS
  MaxAttempts,        \* DF_GVS_SEND_MAX_ATTEMPTS
  ConfirmTimeout,     \* DF_GVS_CALL_CONFIRM_TIMEOUT_MS
  HandshakeInterval,  \* DF_GVS_HANDSHAKE_INTERVAL_MS
  MaxMissed           \* DF_GVS_HANDSHAKE_MAX_MISSED_REPLIES

ASSUME CommandAssumption ==
  /\ AttemptTimeout \in Nat \ {0}
  /\ RetryDelay \in Nat \ {0}
  /\ MaxAttempts \in Nat \ {0}
  /\ ConfirmTimeout \in Nat \ {0}
  /\ HandshakeInterval \in Nat \ {0}
  /\ MaxMissed \in Nat \ {0}

CommandTypes == {"none", "answer", "call", "hangup", "ask", "reply"}
Commands == [type : CommandTypes, generation : Generations, peer : Peers]
NoCommand == [type |-> "none", generation |-> 0, peer |-> NoPeer]

\* A command is made for the session as it is: its generation and its peer.
CommandFor(type, s) ==
  [type |-> type, generation |-> s.generation, peer |-> s.peer]

\* What each command still needs of the session when it is used.
CommandFits(type, s) ==
  IF type = "answer" THEN s.state = "ringing"
  ELSE IF type = "call" THEN s.state = "preview"
  ELSE Active(s)

\* Broken on purpose: takes a command of an earlier call of the same peer.
CommandOfPeer(cmd, s) == cmd.peer = s.peer /\ CommandFits(cmd.type, s)

CommandCurrent(cmd, s) ==
  /\ cmd.generation = s.generation
  /\ cmd.peer = s.peer
  /\ CommandFits(cmd.type, s)

-----------------------------------------------------------------------------
(* The dispatch slot *)

DispatchStates == {"empty", "queued", "retry", "sent", "failed", "timeout",
                   "cancelled"}
Dispatches == [state : DispatchStates, cmd : Commands, left : Nat,
               attempts : 0 .. MaxAttempts]
EmptyDispatch == [state |-> "empty", cmd |-> NoCommand, left |-> 0,
                  attempts |-> 0]

DispatchActive(d) == d.state \in {"queued", "retry"}

Queued(cmd) == [state |-> "queued", cmd |-> cmd, left |-> AttemptTimeout,
                attempts |-> 0]

\* The attempts of a finished command are only reported; the model forgets them.
Finish(d, state) == [d EXCEPT !.state = state, !.left = 0, !.attempts = 0]

\* Broken on purpose: a count that never advances.
AttemptForgotten(d) ==
  [d EXCEPT !.state = "retry", !.left = RetryDelay, !.attempts = 0]

AttemptFailed(d) ==
  IF d.attempts >= MaxAttempts THEN Finish(d, "failed")
  ELSE [d EXCEPT !.state = "retry", !.left = RetryDelay]

\* A queued command is sent before its deadline, a retry from its deadline on.
MayTransmit(d) == IF d.state = "queued" THEN d.left > 0
                  ELSE d.state = "retry" /\ d.left = 0

Transmits(d, s) == MayTransmit(d) /\ CommandCurrent(d.cmd, s)

DispatchStep(d, s, delivered) ==
  LET tried == [d EXCEPT !.attempts = @ + 1]
  IN IF ~DispatchActive(d) THEN d
     ELSE IF ~CommandCurrent(d.cmd, s) THEN Finish(d, "cancelled")
     ELSE IF MayTransmit(d)
     THEN IF delivered THEN Finish(tried, "sent") ELSE AttemptFailed(tried)
     ELSE IF d.state = "queued" THEN Finish(d, "timeout")
     ELSE d

-----------------------------------------------------------------------------
(* The acknowledgement *)

AckStates == {"empty", "waiting", "confirmed", "expired", "cancelled"}
Acks == [state : AckStates, cmd : Commands, left : Nat]
EmptyAck == [state |-> "empty", cmd |-> NoCommand, left |-> 0]

AckResolved(a, state) == [a EXCEPT !.state = state, !.left = 0]

MayAwaitAck(a, d, s) ==
  a.state # "waiting" /\ d.state = "sent" /\ CommandCurrent(d.cmd, s)

AwaitAck(d) == [state |-> "waiting", cmd |-> d.cmd, left |-> ConfirmTimeout]

AckTick(a, s) ==
  IF a.state # "waiting" THEN a
  ELSE IF ~CommandCurrent(a.cmd, s) THEN AckResolved(a, "cancelled")
  ELSE IF a.left = 0 THEN AckResolved(a, "expired")
  ELSE a

\* An answer to a command of this type, whoever it belongs to.  The command is
\* the last one acknowledged, also after it was resolved.
ExpectedAck(a, f) ==
  \/ a.cmd.type \in {"answer", "call"} /\ f.kind = "pickAck"
  \/ a.cmd.type = "hangup" /\ f.kind = "hangupAck"

AckConfirmed(a, s, f) ==
  /\ a.state = "waiting"
  /\ a.left > 0
  /\ CommandCurrent(a.cmd, s)
  /\ f.src = a.cmd.peer
  /\ f.dst = Local
  /\ f.kind = "pickAck" => f.match

\* Broken on purpose: an unanswered hangup is forgotten, not carried out.
HangupForgotten(before, after) ==
  before.state = "waiting" /\ after.state = "cancelled" /\ after.cmd.type = "hangup"

\* A hangup ends the call when the peer confirms it and when it never does.
HangupOver(before, after) ==
  before.state = "waiting" /\ after.state = "expired" /\ after.cmd.type = "hangup"

\* df_gvs_call_runtime_tick: the session deadline wins over the acknowledgement.
RuntimeTick(a, s, d) ==
  LET t    == DeadlineTick(d, s)
      ack  == AckTick(a, t.session)
      over == HangupOver(a, ack)
  IN [ack      |-> ack,
      session  |-> IF over THEN Abort(t.session) ELSE t.session,
      deadline |-> IF over THEN Disarmed ELSE t.deadline,
      expired  |-> a.state = "waiting" /\ ack.state = "expired",
      flags    |-> [NoFlags EXCEPT !.timedOut = t.timedOut,
                                   !.ended = over /\ Active(t.session),
                                   !.local = over]]

\* df_gvs_call_runtime_receive.  An acknowledgement goes to the waiting command
\* first; the session only sees it once it matched.
RuntimeReceive(a, f, s, d) ==
  LET ack   == AckTick(a, s)
      over  == HangupOver(a, ack)
      s1    == IF over THEN Abort(s) ELSE s
      d1    == IF over THEN Disarmed ELSE d
      exp   == a.state = "waiting" /\ ack.state = "expired"
      local == [NoFlags EXCEPT !.ended = Active(s), !.local = TRUE]
      r     == ReceiveDatagram(f, s1, d1)
      Done(k, session, deadline, flags) ==
        [ok |-> TRUE, ack |-> k, session |-> session, deadline |-> deadline,
         expired |-> exp, flags |-> flags]
      Both(flags) == [flags EXCEPT !.local = @ \/ over]
      yes   == AckResolved(ack, "confirmed")
  IN IF ExpectedAck(ack, f)
     THEN IF ~AckConfirmed(ack, s1, f)
          THEN Done(ack, s1, d1, IF over THEN local ELSE NoFlags)
          ELSE IF ack.cmd.type = "hangup"
          THEN Done(yes, Abort(s1), Disarmed, local)
          ELSE Done(yes, r.session, r.deadline, r.flags)
     ELSE IF ~r.ok
     THEN [Done(a, s, d, NoFlags) EXCEPT !.ok = FALSE]
     ELSE Done(AckTick(ack, r.session), r.session, r.deadline, Both(r.flags))

-----------------------------------------------------------------------------
(* The heartbeat *)

Handshakes == [active : BOOLEAN, generation : Generations, peer : Peers,
               left : Nat, missed : 0 .. MaxMissed]

\* What an inactive heartbeat keeps of its last call is never read again.
NoHandshake == [active |-> FALSE, generation |-> 0, peer |-> NoPeer,
                left |-> 0, missed |-> 0]

HandshakeMayStart(s) == Active(s) /\ s.generation # 0 /\ s.peer # NoPeer

HandshakeStart(s) == [active |-> TRUE, generation |-> s.generation,
                      peer |-> s.peer, left |-> 0, missed |-> 0]

\* Broken on purpose: any active call is the one being watched.
HandshakeOfSomeCall(h, s) == h.active /\ Active(s)

HandshakeCurrent(h, s) ==
  h.active /\ Active(s) /\ h.generation = s.generation /\ h.peer = s.peer

HandshakeCommand(type, h) ==
  [type |-> type, generation |-> h.generation, peer |-> h.peer]

Probed(h) == [h EXCEPT !.missed = @ + 1, !.left = HandshakeInterval]

\* Every interval a probe; one more interval without an answer to MaxMissed of
\* them ends the call.  `ask` is NoCommand or the probe to send.
HandshakeTick(h, s) ==
  LET due  == HandshakeCurrent(h, s) /\ h.left = 0
      dead == due /\ h.missed >= MaxMissed
  IN [handshake |-> IF ~HandshakeCurrent(h, s) \/ dead THEN NoHandshake
                    ELSE IF due THEN Probed(h) ELSE h,
      session   |-> IF dead THEN Ended(s) ELSE s,
      disconnected |-> dead,
      ask       |-> IF due /\ ~dead THEN HandshakeCommand("ask", h)
                    ELSE NoCommand]

\* A heartbeat of the call's own peer.  Whatever else comes is refused, and a
\* heartbeat left over from another call stops the watch instead.
HandshakeAccepts(h, f) == h.active /\ f.src = h.peer /\ f.dst = Local

HandshakeReceive(h, s, f) ==
  IF h.active /\ ~HandshakeCurrent(h, s)
  THEN [ok |-> TRUE, handshake |-> NoHandshake, reply |-> NoCommand]
  ELSE IF ~HandshakeAccepts(h, f)
  THEN [ok |-> FALSE, handshake |-> h, reply |-> NoCommand]
  ELSE IF f.kind = "ask"
  THEN [ok |-> TRUE,
        handshake |-> [h EXCEPT !.missed = 0, !.left = HandshakeInterval],
        reply |-> HandshakeCommand("reply", h)]
  ELSE [ok |-> TRUE, handshake |-> [h EXCEPT !.missed = 0], reply |-> NoCommand]

\* A probe or a reply is dropped while the heartbeat's slot is busy.
HandshakeEnqueue(slot, cmd) ==
  IF cmd.type = "none" \/ DispatchActive(slot) THEN slot ELSE Queued(cmd)
=============================================================================
