------------------------- MODULE CallControlProofs -------------------------
(***************************************************************************)
(* Proofs about call control, for every set of stations and every timeout.  *)
(* The first part types each operator of CallSession and CallCommands; the  *)
(* theorems of the second part combine those lemmas, one step per action.   *)
(***************************************************************************)
EXTENDS CallControl, TLAPS

Flags == [ended : BOOLEAN, local : BOOLEAN, timedOut : BOOLEAN,
          preempted : BOOLEAN]
Controls == [terminal : Terminals, fault : Faults]

-----------------------------------------------------------------------------
(* Types of the session operators *)

LEMMA ZeroIsGeneration == 0 \in Generations /\ NoPeer \in Peers
BY SessionAssumption DEF Generations, Peers

LEMMA EndedType ==
  ASSUME NEW s \in Sessions
  PROVE  Ended(s) \in Sessions /\ Abort(s) \in Sessions
<1>1. Ended(s) \in Sessions
  BY ZeroIsGeneration DEF Sessions, Ended, SessionStates
<1> QED BY <1>1 DEF Abort

LEMMA DisarmedType == Disarmed \in Deadlines
BY ZeroIsGeneration DEF Disarmed, Deadlines

LEMMA ArmType ==
  ASSUME NEW s \in Sessions, NEW n \in Nat
  PROVE  Arm(s, n) \in Deadlines
BY DEF Arm, Deadlines, Sessions

LEMMA DeadlineTickType ==
  ASSUME NEW d \in Deadlines, NEW s \in Sessions
  PROVE  /\ DeadlineTick(d, s).session \in Sessions
         /\ DeadlineTick(d, s).deadline \in Deadlines
         /\ DeadlineTick(d, s).timedOut \in BOOLEAN
<1>1. DeadlineReached(d, s) \in BOOLEAN
  BY DEF DeadlineReached, DeadlineCurrent, Deadlines
<1> QED BY <1>1, EndedType, DisarmedType DEF DeadlineTick

LEMMA StartType ==
  ASSUME NEW s \in Sessions, NEW p \in Stations, NEW st \in SessionStates,
         s.generation < MaxGeneration
  PROVE  Start(s, p, st) \in Sessions
BY SessionAssumption DEF Start, Sessions, Generations, Peers

Results == [ok : BOOLEAN, session : Sessions, deadline : Deadlines, flags : Flags]

LEMMA NoFlagsType == NoFlags \in Flags
BY DEF NoFlags, Flags

LEMMA ReceivedType ==
  ASSUME NEW s \in Sessions, NEW d \in Deadlines, NEW flags \in Flags
  PROVE  Received(s, d, flags) \in Results /\ Refused(s, d) \in Results
BY NoFlagsType DEF Received, Refused, Results

\* What the session operators may assume of a frame.
Framed(f) ==
  /\ f.left \in Nat
  /\ f.kind = "call" => f.src \in Stations

LEMMA FramesFramed == ASSUME NEW f \in Frames PROVE Framed(f)
<1>1. CASE \E p \in Stations, h \in Household : f = Frame("call", p, h)
  BY <1>1 DEF Frame, Framed
<1>2. CASE \E k \in {"hangup", "hangupAck", "ask", "reply", "pick"} :
             \E p, h : f = Frame(k, p, h)
  BY <1>2 DEF Frame, Framed
<1>3. CASE \E p \in Stations, b \in BOOLEAN :
             f = [Frame("pickAck", p, Local) EXCEPT !.match = b]
  BY <1>3 DEF Frame, Framed
<1>4. CASE \E p \in Stations, n \in {0, 1, RingTimeout, TalkTimeout} :
             f = [Frame("timeSync", p, Local) EXCEPT !.left = n]
  BY <1>4, SessionAssumption DEF Frame, Framed
<1> QED BY <1>1, <1>2, <1>3, <1>4 DEF Frames

LEMMA ReceiveHangupType ==
  ASSUME NEW f, NEW s \in Sessions, NEW d \in Deadlines
  PROVE  ReceiveHangup(f, s, d) \in Results
<1> DEFINE outbound == f.src = Local /\ f.dst = s.peer
<1>1. [NoFlags EXCEPT !.ended = TRUE, !.local = outbound] \in Flags
  BY DEF NoFlags, Flags
<1> QED BY <1>1, NoFlagsType, EndedType, DisarmedType, ReceivedType DEF ReceiveHangup

LEMMA ReceiveTimeSyncType ==
  ASSUME NEW f, f.left \in Nat, NEW s \in Sessions, NEW d \in Deadlines
  PROVE  ReceiveTimeSync(f, s, d) \in Results
<1> DEFINE t == DeadlineTick(Arm(s, f.left), s)
<1>1. t.session \in Sessions /\ t.deadline \in Deadlines /\ t.timedOut \in BOOLEAN
  BY ArmType, DeadlineTickType
<1>2. [NoFlags EXCEPT !.timedOut = t.timedOut] \in Flags
  BY <1>1 DEF NoFlags, Flags
<1> QED BY <1>1, <1>2, NoFlagsType, ReceivedType DEF ReceiveTimeSync

LEMMA ReceivePickType ==
  ASSUME NEW f, NEW s \in Sessions, NEW d \in Deadlines
  PROVE  ReceivePick(f, s, d) \in Results
<1>1. [s EXCEPT !.pickGen = s.generation, !.pickLeft = PickTimeout] \in Sessions
  BY SessionAssumption DEF Sessions
<1> QED BY <1>1, NoFlagsType, ReceivedType DEF ReceivePick

LEMMA ReceivePickAckType ==
  ASSUME NEW f, NEW s \in Sessions, NEW d \in Deadlines
  PROVE  ReceivePickAck(f, s, d) \in Results
<1> DEFINE talking == [s EXCEPT !.state = "talking", !.pickGen = 0, !.pickLeft = 0]
<1>1. [s EXCEPT !.pickGen = 0] \in Sessions /\ talking \in Sessions
  BY ZeroIsGeneration DEF Sessions, SessionStates
<1>2. Arm(talking, TalkTimeout) \in Deadlines
  BY <1>1, ArmType, SessionAssumption
<1> QED BY <1>1, <1>2, NoFlagsType, ReceivedType DEF ReceivePickAck

LEMMA ReceiveCallType ==
  ASSUME NEW f, f.src \in Stations, NEW s \in Sessions, NEW d \in Deadlines
  PROVE  ReceiveCall(f, s, d) \in Results
<1> DEFINE next == Start(s, f.src, "ringing")
           taken == [NoFlags EXCEPT !.ended = TRUE, !.preempted = TRUE]
<1>1. taken \in Flags
  BY DEF NoFlags, Flags
<1>2. CASE s.generation < MaxGeneration
  <2>1. next \in Sessions
    BY <1>2, StartType DEF SessionStates
  <2>2. Arm(next, RingTimeout) \in Deadlines
    BY <2>1, ArmType, SessionAssumption
  <2> HIDE DEF next, taken
  <2>3. /\ Received(next, Arm(next, RingTimeout), taken) \in Results
        /\ Received(next, Arm(next, RingTimeout), NoFlags) \in Results
        /\ Received(s, d, NoFlags) \in Results
        /\ Refused(s, d) \in Results
    BY <1>1, <2>1, <2>2, NoFlagsType, ReceivedType
  <2> QED BY <2>3 DEF ReceiveCall, next, taken
<1>3. CASE ~(s.generation < MaxGeneration)
  BY <1>3, NoFlagsType, ReceivedType DEF ReceiveCall
<1> QED BY <1>2, <1>3

LEMMA ReceiveDatagramType ==
  ASSUME NEW f, Framed(f), NEW s \in Sessions, NEW d \in Deadlines
  PROVE  ReceiveDatagram(f, s, d) \in Results
BY ReceiveHangupType, ReceiveTimeSyncType, ReceivePickType, ReceivePickAckType,
   ReceiveCallType, NoFlagsType, ReceivedType DEF ReceiveDatagram, Framed

-----------------------------------------------------------------------------
(* Types of the command operators *)

LEMMA CountTypes ==
  /\ 0 \in 0 .. MaxAttempts
  /\ 0 \in 0 .. MaxMissed
  /\ MaxAttempts \in Nat
  /\ MaxMissed \in Nat
  /\ RetryDelay \in Nat
  /\ HandshakeInterval \in Nat
BY CommandAssumption

LEMMA CommandForType ==
  ASSUME NEW type \in CommandTypes, NEW s \in Sessions
  PROVE  CommandFor(type, s) \in Commands
BY DEF CommandFor, Commands, Sessions

LEMMA EmptyTypes ==
  /\ NoCommand \in Commands
  /\ EmptyDispatch \in Dispatches
  /\ EmptyAck \in Acks
  /\ NoHandshake \in Handshakes
<1>1. NoCommand \in Commands
  BY ZeroIsGeneration DEF NoCommand, Commands, CommandTypes
<1>2. EmptyDispatch \in Dispatches
  BY <1>1, CommandAssumption DEF EmptyDispatch, Dispatches, DispatchStates
<1>3. EmptyAck \in Acks
  BY <1>1 DEF EmptyAck, Acks, AckStates
<1>4. NoHandshake \in Handshakes
  BY ZeroIsGeneration, CommandAssumption DEF NoHandshake, Handshakes
<1> QED BY <1>1, <1>2, <1>3, <1>4

LEMMA QueuedType ==
  ASSUME NEW cmd \in Commands
  PROVE  Queued(cmd) \in Dispatches
BY CommandAssumption DEF Queued, Dispatches, DispatchStates

\* An attempt may take the count one beyond what the type allows, until the
\* outcome of the attempt is known.
Attempted == [state : DispatchStates, cmd : Commands, left : Nat, attempts : Nat]

LEMMA FinishType ==
  ASSUME NEW d \in Attempted, NEW state \in DispatchStates
  PROVE  Finish(d, state) \in Dispatches
BY CountTypes DEF Finish, Dispatches, Attempted

LEMMA AttemptFailedType ==
  ASSUME NEW d \in Attempted
  PROVE  AttemptFailed(d) \in Dispatches
<1>1. CASE d.attempts >= MaxAttempts
  BY <1>1, FinishType DEF AttemptFailed, DispatchStates
<1>2. CASE ~(d.attempts >= MaxAttempts)
  <2>1. d.attempts \in 0 .. MaxAttempts
    BY <1>2, CountTypes DEF Attempted
  <2>2. [d EXCEPT !.state = "retry", !.left = RetryDelay] \in Dispatches
    BY <2>1, CountTypes DEF Attempted, Dispatches, DispatchStates
  <2> QED BY <1>2, <2>2 DEF AttemptFailed
<1> QED BY <1>1, <1>2

LEMMA DispatchStepType ==
  ASSUME NEW d \in Dispatches, NEW s, NEW delivered \in BOOLEAN
  PROVE  DispatchStep(d, s, delivered) \in Dispatches
<1> DEFINE tried == [d EXCEPT !.attempts = @ + 1]
<1>1. d.attempts + 1 \in Nat
  BY CountTypes DEF Dispatches
<1>2. d \in Attempted /\ tried \in Attempted
  BY <1>1, CountTypes DEF Dispatches, Attempted
<1> HIDE DEF tried
<1>3. /\ \A state \in DispatchStates : Finish(d, state) \in Dispatches
      /\ \A state \in DispatchStates : Finish(tried, state) \in Dispatches
      /\ AttemptFailed(tried) \in Dispatches
  BY <1>2, FinishType, AttemptFailedType
<1> QED BY <1>3 DEF DispatchStep, DispatchStates, tried

LEMMA VacatedType ==
  ASSUME NEW d \in Dispatches
  PROVE  Vacated(d) \in Dispatches
BY EmptyTypes DEF Vacated

LEMMA HandshakeEnqueueType ==
  ASSUME NEW d \in Dispatches, NEW cmd \in Commands
  PROVE  HandshakeEnqueue(d, cmd) \in Dispatches
BY QueuedType DEF HandshakeEnqueue

LEMMA AckResolvedType ==
  ASSUME NEW a \in Acks, NEW state \in AckStates
  PROVE  AckResolved(a, state) \in Acks
BY DEF AckResolved, Acks

LEMMA AwaitAckType ==
  ASSUME NEW d \in Dispatches
  PROVE  AwaitAck(d) \in Acks
BY CommandAssumption DEF AwaitAck, Acks, AckStates, Dispatches

LEMMA AckTickType ==
  ASSUME NEW a \in Acks, NEW s
  PROVE  AckTick(a, s) \in Acks
BY AckResolvedType DEF AckTick, AckStates

LEMMA RuntimeTickType ==
  ASSUME NEW a \in Acks, NEW s \in Sessions, NEW d \in Deadlines
  PROVE  /\ RuntimeTick(a, s, d).ack \in Acks
         /\ RuntimeTick(a, s, d).session \in Sessions
         /\ RuntimeTick(a, s, d).deadline \in Deadlines
BY DeadlineTickType, AckTickType, EndedType, DisarmedType DEF RuntimeTick

LEMMA RuntimeReceiveType ==
  ASSUME NEW a \in Acks, NEW f, Framed(f), NEW s \in Sessions, NEW d \in Deadlines
  PROVE  /\ RuntimeReceive(a, f, s, d).ack \in Acks
         /\ RuntimeReceive(a, f, s, d).session \in Sessions
         /\ RuntimeReceive(a, f, s, d).deadline \in Deadlines
<1> DEFINE told == AckTick(a, s)
           over == HangupOver(a, told)
           s1 == IF over THEN Abort(s) ELSE s
           d1 == IF over THEN Disarmed ELSE d
           r == ReceiveDatagram(f, s1, d1)
<1>1. told \in Acks /\ AckResolved(told, "confirmed") \in Acks
  BY AckTickType, AckResolvedType DEF AckStates
<1>2. s1 \in Sessions /\ d1 \in Deadlines /\ Abort(s1) \in Sessions
  BY EndedType, DisarmedType
<1> HIDE DEF s1, d1
<1>3. r \in Results
  BY <1>2, ReceiveDatagramType
<1> HIDE DEF r, told
<1>4. r.session \in Sessions /\ r.deadline \in Deadlines
  BY <1>3 DEF Results
<1>5. AckTick(told, r.session) \in Acks
  BY <1>1, AckTickType
<1> QED BY <1>1, <1>2, <1>4, <1>5, DisarmedType DEF RuntimeReceive, told, r, s1, d1

LEMMA HandshakeStartType ==
  ASSUME NEW s \in Sessions
  PROVE  HandshakeStart(s) \in Handshakes
BY CommandAssumption DEF HandshakeStart, Handshakes, Sessions

LEMMA HandshakeCommandType ==
  ASSUME NEW type \in CommandTypes, NEW h \in Handshakes
  PROVE  HandshakeCommand(type, h) \in Commands
BY DEF HandshakeCommand, Commands, Handshakes

LEMMA HandshakeTickType ==
  ASSUME NEW h \in Handshakes, NEW s \in Sessions
  PROVE  /\ HandshakeTick(h, s).handshake \in Handshakes
         /\ HandshakeTick(h, s).session \in Sessions
         /\ HandshakeTick(h, s).ask \in Commands
<1>1. ASSUME h.missed < MaxMissed PROVE Probed(h) \in Handshakes
  <2>1. h.missed + 1 \in 0 .. MaxMissed
    BY <1>1, CountTypes DEF Handshakes
  <2> QED BY <2>1, CountTypes DEF Probed, Handshakes
<1>2. HandshakeCommand("ask", h) \in Commands
  BY HandshakeCommandType DEF CommandTypes
<1>3. h.missed \in 0 .. MaxMissed
  BY DEF Handshakes
<1> QED BY <1>1, <1>2, <1>3, EmptyTypes, EndedType, CommandAssumption DEF HandshakeTick

LEMMA HandshakeReceiveType ==
  ASSUME NEW h \in Handshakes, NEW s, NEW f
  PROVE  /\ HandshakeReceive(h, s, f).handshake \in Handshakes
         /\ HandshakeReceive(h, s, f).reply \in Commands
<1>1. /\ [h EXCEPT !.missed = 0, !.left = HandshakeInterval] \in Handshakes
      /\ [h EXCEPT !.missed = 0] \in Handshakes
  BY CountTypes DEF Handshakes
<1>2. HandshakeCommand("reply", h) \in Commands
  BY HandshakeCommandType DEF CommandTypes
<1> QED BY <1>1, <1>2, EmptyTypes DEF HandshakeReceive

-----------------------------------------------------------------------------
(* Types of the step *)

LEMMA RecordTerminalType ==
  ASSUME NEW c \in Controls, NEW reason \in EndReasons, NEW why \in Faults,
         NEW g \in Generations
  PROVE  RecordTerminal(c, reason, why, g) \in Controls
BY DEF RecordTerminal, Controls, Terminals

LEMMA ClassifyType ==
  ASSUME NEW c \in Controls, NEW before \in Sessions, NEW after, NEW flags,
         NEW disconnected, NEW expired
  PROVE  Classify(c, before, after, flags, disconnected, expired) \in Controls
<1> DEFINE why == IF expired THEN "confirmation_timeout" ELSE "none"
           End(reason, f) == RecordTerminal(c, reason, f, before.generation)
<1>1. before.generation \in Generations
  BY DEF Sessions
<1>2. why \in Faults
  BY DEF Faults
<1>3. \A reason \in EndReasons, f \in Faults : End(reason, f) \in Controls
  BY <1>1, RecordTerminalType
<1>4. \A k \in Controls, f \in Faults : [k EXCEPT !.fault = f] \in Controls
  BY DEF Controls
<1> HIDE DEF why, End
<1>5. /\ \A f \in {"none", "preempted", "heartbeat_timeout", why} : f \in Faults
      /\ \A r \in {"local_hangup", "peer_hangup", "session_timeout", "preempted",
                  "heartbeat_timeout", "unknown"} : r \in EndReasons
  BY <1>2 DEF Faults, EndReasons
<1>6. /\ End("heartbeat_timeout", "heartbeat_timeout") \in Controls
      /\ End("preempted", "preempted") \in Controls
      /\ End("session_timeout", "none") \in Controls
      /\ End("local_hangup", why) \in Controls
      /\ End("peer_hangup", why) \in Controls
      /\ End("unknown", why) \in Controls
  BY <1>3, <1>5
<1>7. /\ [End("preempted", "preempted") EXCEPT !.fault = "none"] \in Controls
      /\ [c EXCEPT !.fault = "none"] \in Controls
      /\ [c EXCEPT !.fault = why] \in Controls
  BY <1>4, <1>5, <1>6
<1> QED BY <1>6, <1>7 DEF Classify, why, End

LEMMA DispatchFaultType ==
  ASSUME NEW c \in Controls, NEW d, NEW s
  PROVE  DispatchFault(c, d, s) \in Faults
BY DEF DispatchFault, Controls, Faults

LEMMA StepTimersType ==
  ASSUME NEW s \in Sessions, NEW d \in Deadlines, NEW a \in Acks,
         NEW h \in Handshakes, NEW c \in Controls
  PROVE  LET t == StepTimers(s, d, a, h, c)
         IN /\ t.session \in Sessions
            /\ t.deadline \in Deadlines
            /\ t.ack \in Acks
            /\ t.handshake \in Handshakes
            /\ t.ask \in Commands
            /\ t.control \in Controls
<1> DEFINE beat == HandshakeTick(h, s)
           run == RuntimeTick(a, beat.session,
                              IF beat.disconnected THEN Disarmed ELSE d)
           again == HandshakeTick(HandshakeStart(run.session), run.session)
<1>1. /\ beat.handshake \in Handshakes
      /\ beat.session \in Sessions
      /\ beat.ask \in Commands
  BY HandshakeTickType
<1> HIDE DEF beat
<1>2. /\ run.ack \in Acks
      /\ run.session \in Sessions
      /\ run.deadline \in Deadlines
  BY <1>1, DisarmedType, RuntimeTickType
<1> HIDE DEF run
<1>3. again.handshake \in Handshakes /\ again.ask \in Commands
  BY <1>2, HandshakeStartType, HandshakeTickType
<1> HIDE DEF again
<1>4. Classify(c, s, run.session, run.flags, beat.disconnected, run.expired)
        \in Controls
  BY ClassifyType
<1> QED BY <1>1, <1>2, <1>3, <1>4 DEF StepTimers, TimersAfter, beat, run, again

LEMMA StepHandshakeType ==
  ASSUME NEW slot \in Dispatches, NEW s, NEW ask \in Commands,
         NEW sent1 \in BOOLEAN, NEW sent2 \in BOOLEAN
  PROVE  /\ StepHandshake(slot, s, ask, sent1, sent2).slot \in Dispatches
         /\ StepHandshake(slot, s, ask, sent1, sent2).wire \subseteq Commands
<1> DEFINE first == DispatchStep(slot, s, sent1)
           again == DispatchStep(HandshakeEnqueue(first, ask), s, sent2)
<1>1. first \in Dispatches
  BY DispatchStepType
<1> HIDE DEF first
<1>2. again \in Dispatches
  BY <1>1, HandshakeEnqueueType, DispatchStepType
<1> HIDE DEF again
<1>3. Vacated(again) \in Dispatches /\ Vacated(first) \in Dispatches
  BY <1>1, <1>2, VacatedType
<1>4. slot.cmd \in Commands
  BY DEF Dispatches
<1> QED BY <1>3, <1>4 DEF StepHandshake, first, again

LEMMA StepDispatchType ==
  ASSUME NEW t, t.session \in Sessions, t.deadline \in Deadlines, t.ack \in Acks,
         t.control \in Controls,
         NEW slot \in Dispatches, NEW before \in Sessions, NEW sent \in BOOLEAN
  PROVE  LET m == StepDispatch(t, slot, before, sent)
         IN /\ m.dispatch \in Dispatches
            /\ m.session \in Sessions
            /\ m.deadline \in Deadlines
            /\ m.ack \in Acks
            /\ m.control \in Controls
            /\ m.wire \subseteq Commands
<1> DEFINE next == DispatchStep(slot, t.session, sent)
           lost == DispatchActive(slot) /\ next.state \in {"failed", "timeout", "cancelled"}
           left == IF lost THEN DispatchFault(t.control, next, t.session) ELSE t.control.fault
           told == [t.control EXCEPT !.fault = left]
           pick == [src |-> Local, dst |-> next.cmd.peer]
           echo == IF next.cmd.type \in {"answer", "call"}
                   THEN ReceivePick(pick, t.session, t.deadline)
                   ELSE Received(t.session, t.deadline, NoFlags)
<1>1. next \in Dispatches
  BY DispatchStepType
<1>2. AwaitAck(next) \in Acks
  BY <1>1, AwaitAckType
<1> HIDE DEF next
<1>3. left \in Faults
  BY DispatchFaultType DEF Controls
<1> HIDE DEF left
<1>4. told \in Controls
  BY <1>3 DEF Controls
<1> HIDE DEF told
<1>5. RecordTerminal(told, "local_hangup", left, before.generation) \in Controls
  BY <1>3, <1>4, RecordTerminalType DEF EndReasons, Sessions
<1> HIDE DEF pick
<1>6. echo \in Results
  BY ReceivePickType, ReceivedType, NoFlagsType
<1> HIDE DEF echo
<1>7. echo.session \in Sessions
  BY <1>6 DEF Results
<1>8. Abort(t.session) \in Sessions
  BY EndedType
<1>9. slot.cmd \in Commands
  BY DEF Dispatches
<1> QED BY <1>1, <1>2, <1>4, <1>5, <1>7, <1>8, <1>9, DisarmedType
        DEF StepDispatch, next, left, told, echo, pick

\* What a step or a handler works on, and what it leaves behind.
Structs == [session : Sessions, deadline : Deadlines, dispatch : Dispatches,
            ack : Acks, handshake : Handshakes, slot : Dispatches,
            control : Controls]

Typed(x) ==
  /\ x.session \in Sessions
  /\ x.deadline \in Deadlines
  /\ x.dispatch \in Dispatches
  /\ x.ack \in Acks
  /\ x.slot \in Dispatches
  /\ x.handshake \in Handshakes
  /\ x.control \in Controls

LEMMA StructsTyped == ASSUME NEW x \in Structs PROVE Typed(x)
BY DEF Structs, Typed

LEMMA StepFromType ==
  ASSUME NEW x \in Structs,
         NEW sent1 \in BOOLEAN, NEW sent2 \in BOOLEAN, NEW sent3 \in BOOLEAN
  PROVE  /\ Typed(StepFrom(x, sent1, sent2, sent3))
         /\ StepFrom(x, sent1, sent2, sent3).wire \subseteq Commands
<1> DEFINE t == StepTimers(x.session, x.deadline, x.ack, x.handshake, x.control)
           k == StepHandshake(x.slot, t.session, t.ask, sent1, sent2)
           m == StepDispatch(t, x.dispatch, x.session, sent3)
<1> Typed(x)
  BY StructsTyped
<1>1. /\ t.session \in Sessions
      /\ t.deadline \in Deadlines
      /\ t.ack \in Acks
      /\ t.handshake \in Handshakes
      /\ t.ask \in Commands
      /\ t.control \in Controls
  BY StepTimersType DEF Typed
<1> HIDE DEF t
<1>2. k.slot \in Dispatches /\ k.wire \subseteq Commands
  BY <1>1, StepHandshakeType DEF Typed
<1>3. /\ m.dispatch \in Dispatches
      /\ m.session \in Sessions
      /\ m.deadline \in Deadlines
      /\ m.ack \in Acks
      /\ m.control \in Controls
      /\ m.wire \subseteq Commands
  BY <1>1, StepDispatchType DEF Typed
<1> HIDE DEF k, m
<1>4. (IF Active(m.session) THEN t.handshake ELSE NoHandshake) \in Handshakes
  BY <1>1, EmptyTypes
<1> QED BY <1>2, <1>3, <1>4 DEF StepFrom, StepSlots, StepDone, Typed, t, k, m

LEMMA InstallType ==
  ASSUME NEW x, Typed(x), Install(x), phase' \in {"poll", "packet", "stopped"},
         wire' \subseteq Commands
  PROVE  TypeOK'
BY DEF Install, Typed, TypeOK, Controls

LEMMA CommitType ==
  ASSUME TypeOK, NEW r, Typed(r), r.wire \subseteq Commands,
         NEW next \in {"poll", "packet"}, Commit(r, next)
  PROVE  TypeOK'
<1>1. CASE r.ok
  BY <1>1, InstallType DEF Commit
<1>2. CASE ~r.ok
  BY <1>2 DEF Commit, TypeOK
<1> QED BY <1>1, <1>2

LEMMA ControlType ==
  ASSUME TypeOK
  PROVE  Control \in Controls /\ Struct \in Structs
BY DEF TypeOK, Control, Controls, Struct, Structs

LEMMA OutcomesType == ASSUME NEW slot PROVE Outcomes(slot) \subseteq BOOLEAN
BY DEF Outcomes

-----------------------------------------------------------------------------
(* The type invariant *)

LEMMA InitType == Init => TypeOK
<1> SUFFICES ASSUME Init PROVE TypeOK
  OBVIOUS
<1>1. InitSession \in Sessions
  BY ZeroIsGeneration DEF InitSession, Sessions, SessionStates
<1>2. terminal \in Terminals
  BY ZeroIsGeneration DEF Init, Terminals, EndReasons, Faults
<1> QED BY <1>1, <1>2, DisarmedType, EmptyTypes DEF Init, TypeOK, Faults

LEMMA AnswerType ==
  ASSUME TypeOK, NEW g \in Generations, Answer(g)
  PROVE  TypeOK'
<1>1. Queued(CommandFor("answer", session)) \in Dispatches
  BY CommandForType, QueuedType DEF TypeOK, CommandTypes
<1> QED BY <1>1 DEF Answer, TypeOK

LEMMA HangupFromType ==
  ASSUME NEW x \in Structs, NEW g \in Generations
  PROVE  HangupFrom(x, g) \in Structs
<1> DEFINE d == Superseded(x.dispatch, g)
           a == AckSuperseded(x.ack, g)
           k == Vacated(Superseded(x.slot, g))
           y == [x EXCEPT !.dispatch = d, !.ack = a, !.slot = k]
           c == [fault |-> "dispatch_failed",
                 terminal |-> [reason |-> "local_hangup", fault |-> "dispatch_failed",
                               generation |-> g]]
<1>1. \A e \in Dispatches : Superseded(e, g) \in Dispatches
  <2> SUFFICES ASSUME NEW e \in Dispatches PROVE Superseded(e, g) \in Dispatches
    OBVIOUS
  <2>1. e \in Attempted
    BY CountTypes DEF Dispatches, Attempted
  <2> QED BY <2>1, FinishType DEF Superseded, DispatchStates
<1> Typed(x)
  BY StructsTyped
<1>2. a \in Acks
  BY AckResolvedType DEF AckSuperseded, Typed, AckStates
<1>3. d \in Dispatches /\ k \in Dispatches
  BY <1>1, VacatedType DEF Typed
<1>4. Queued(CommandFor("hangup", x.session)) \in Dispatches
  BY CommandForType, QueuedType DEF Typed, CommandTypes
<1>5. c \in Controls
  BY DEF Controls, Terminals, EndReasons, Faults
<1>6. Abort(x.session) \in Sessions
  BY EndedType DEF Typed
<1> HIDE DEF d, a, k, c
<1>7. y \in Structs
  BY <1>2, <1>3 DEF Structs
<1> HIDE DEF y
<1>8. [y EXCEPT !.dispatch = Queued(CommandFor("hangup", x.session))] \in Structs
  BY <1>4, <1>7 DEF Structs
<1>9. [y EXCEPT !.session = Abort(x.session), !.deadline = Disarmed,
                !.handshake = NoHandshake, !.control = c] \in Structs
  BY <1>5, <1>6, <1>7, EmptyTypes, DisarmedType DEF Structs
<1> QED BY <1>8, <1>9 DEF HangupFrom, y, d, a, k, c

LEMMA HangupType ==
  ASSUME TypeOK, NEW g \in Generations, Hangup(g)
  PROVE  TypeOK'
<1>1. Typed(HangupFrom(Struct, g))
  BY ControlType, HangupFromType, StructsTyped
<1> QED BY <1>1, InstallType DEF Hangup, TypeOK

LEMMA ReceiveHeartbeatType ==
  ASSUME NEW x \in Structs, NEW f
  PROVE  ReceiveHeartbeat(x, f).to \in Structs
<1> DEFINE r == HandshakeReceive(x.handshake, x.session, f)
<1> Typed(x)
  BY StructsTyped
<1>1. r.handshake \in Handshakes /\ r.reply \in Commands
  BY HandshakeReceiveType DEF Typed
<1> HIDE DEF r
<1>2. HandshakeEnqueue(x.slot, r.reply) \in Dispatches
  BY <1>1, HandshakeEnqueueType DEF Typed
<1> QED BY <1>1, <1>2 DEF ReceiveHeartbeat, Structs, r

LEMMA ReceiveControlType ==
  ASSUME NEW x \in Structs, NEW f, Framed(f)
  PROVE  ReceiveControl(x, f).to \in Structs
<1> DEFINE r == RuntimeReceive(x.ack, f, x.session, x.deadline)
           c == Classify(x.control, x.session, r.session, r.flags, FALSE, r.expired)
<1> Typed(x)
  BY StructsTyped
<1>1. r.session \in Sessions /\ r.deadline \in Deadlines /\ r.ack \in Acks
  BY RuntimeReceiveType DEF Typed
<1>2. c \in Controls
  BY ClassifyType DEF Typed
<1> HIDE DEF r, c
<1>3. (IF Active(r.session) THEN x.handshake ELSE NoHandshake) \in Handshakes
  BY EmptyTypes DEF Typed
<1> QED BY <1>1, <1>2, <1>3 DEF ReceiveControl, ControlReceived, Structs, r, c

LEMMA ReceiveType == ASSUME TypeOK, Receive PROVE TypeOK'
<1> PICK f \in Frames : Install(ReceiveFrom(Struct, f).to)
  BY DEF Receive
<1>1. ReceiveFrom(Struct, f).to \in Structs
  BY FramesFramed, ControlType, ReceiveHeartbeatType, ReceiveControlType DEF ReceiveFrom
<1>2. Typed(ReceiveFrom(Struct, f).to)
  BY <1>1, StructsTyped
<1> QED BY <1>2, InstallType DEF Receive

LEMMA StepType == ASSUME TypeOK, Step PROVE TypeOK'
<1> PICK sent1 \in Outcomes(handshakeDispatch), sent2 \in BOOLEAN,
         sent3 \in Outcomes(dispatch) :
      Commit(StepFrom(Struct, sent1, sent2, sent3), "packet")
  BY DEF Step
<1>1. /\ Typed(StepFrom(Struct, sent1, sent2, sent3))
      /\ StepFrom(Struct, sent1, sent2, sent3).wire \subseteq Commands
  BY OutcomesType, ControlType, StepFromType
<1> QED BY <1>1, CommitType

LEMMA LostType == ASSUME TypeOK PROVE Lost \in Structs
<1> DEFINE c == IF Active(session)
                THEN RecordTerminal(Control, "unknown", "none", session.generation)
                ELSE Control
<1>1. c \in Controls
  BY ControlType, RecordTerminalType DEF TypeOK, Sessions, EndReasons, Faults
<1>2. Abort(session) \in Sessions
  BY EndedType DEF TypeOK
<1> HIDE DEF c
<1> QED BY <1>1, <1>2, ControlType, DisarmedType DEF Lost, Structs, c

LEMMA CaptureLostType == ASSUME TypeOK, CaptureLost PROVE TypeOK'
<1> PICK sent1 \in Outcomes(handshakeDispatch), sent2 \in BOOLEAN,
         sent3 \in Outcomes(dispatch) :
      Commit(StepFrom(Lost, sent1, sent2, sent3), "poll")
  BY DEF CaptureLost
<1>1. /\ Typed(StepFrom(Lost, sent1, sent2, sent3))
      /\ StepFrom(Lost, sent1, sent2, sent3).wire \subseteq Commands
  BY LostType, OutcomesType, StepFromType
<1> QED BY <1>1, CommitType

LEMMA TickType == ASSUME TypeOK, Tick PROVE TypeOK'
<1>1. \A n \in Nat : Min0(n) \in Nat
  BY DEF Min0
<1>2. /\ session' \in Sessions
      /\ deadline' \in Deadlines
      /\ dispatch' \in Dispatches
      /\ ack' \in Acks
      /\ handshake' \in Handshakes
      /\ handshakeDispatch' \in Dispatches
  BY <1>1 DEF Tick, TypeOK, Sessions, Deadlines, Dispatches, Acks, Handshakes
<1> QED BY <1>2 DEF Tick, TypeOK

LEMMA NextType == TypeOK /\ [Next]_vars => TypeOK'
<1> SUFFICES ASSUME TypeOK, [Next]_vars PROVE TypeOK'
  OBVIOUS
<1>1. CASE \E g \in Generations : Answer(g) \/ Hangup(g)
  BY <1>1, AnswerType, HangupType
<1>2. CASE Step
  BY <1>2, StepType
<1>3. CASE Receive
  BY <1>3, ReceiveType
<1>4. CASE NoPacket
  BY <1>4 DEF NoPacket, TypeOK
<1>5. CASE CaptureLost
  BY <1>5, CaptureLostType
<1>6. CASE Tick
  BY <1>6, TickType
<1>7. CASE UNCHANGED vars
  BY <1>7 DEF vars, TypeOK
<1> QED BY <1>1, <1>2, <1>3, <1>4, <1>5, <1>6, <1>7 DEF Next

\* Every variable keeps its type whatever the stations, timeouts and retry
\* counts: in particular no attempt or heartbeat count passes its limit and no
\* generation passes the last one.
THEOREM TypeInvariant == Spec => []TypeOK
BY InitType, NextType, PTL DEF Spec

-----------------------------------------------------------------------------
(* Every active call has a number, a peer and a running deadline *)

Sound(s, d) ==
  Active(s) => /\ s.generation # 0
               /\ s.peer # NoPeer
               /\ DeadlineCurrent(d, s)

LEMMA EndedSound ==
  ASSUME NEW s \in Sessions, NEW d
  PROVE  /\ ~Active(Ended(s)) /\ ~Active(Abort(s))
         /\ Sound(Ended(s), d) /\ Sound(Abort(s), d)
<1>1. Ended(s).state = "ended"
  BY DEF Ended, Sessions
<1> QED BY <1>1 DEF Active, Abort, Sound

LEMMA DeadlineTickSound ==
  ASSUME NEW s \in Sessions, NEW d \in Deadlines, Sound(s, d)
  PROVE  Sound(DeadlineTick(d, s).session, DeadlineTick(d, s).deadline)
<1>1. CASE DeadlineReached(d, s)
  BY <1>1, EndedSound DEF DeadlineTick
<1>2. CASE ~DeadlineReached(d, s) /\ Active(s)
  <2>1. DeadlineCurrent(d, s) /\ d.left > 0
    BY <1>2 DEF Sound, DeadlineReached, Deadlines
  <2> QED BY <1>2, <2>1 DEF DeadlineTick
<1>3. CASE ~DeadlineReached(d, s) /\ ~Active(s)
  BY <1>3 DEF DeadlineTick, Sound
<1> QED BY <1>1, <1>2, <1>3

LEMMA ArmSound ==
  ASSUME NEW s \in Sessions, NEW n, s.generation # 0, s.peer # NoPeer
  PROVE  Sound(s, Arm(s, n))
BY DEF Sound, DeadlineCurrent, Arm

LEMMA ReceivePickKeeps ==
  ASSUME NEW f, NEW s \in Sessions, NEW d
  PROVE  LET r == ReceivePick(f, s, d)
         IN /\ r.deadline = d
            /\ r.session.state = s.state
            /\ r.session.peer = s.peer
            /\ r.session.generation = s.generation
<1> DEFINE p == [s EXCEPT !.pickGen = s.generation, !.pickLeft = PickTimeout]
<1>1. p.state = s.state /\ p.peer = s.peer /\ p.generation = s.generation
  BY DEF Sessions
<1> QED BY <1>1 DEF ReceivePick, Received

LEMMA ReceiveHangupSound ==
  ASSUME NEW f, NEW s \in Sessions, NEW d \in Deadlines, Sound(s, d)
  PROVE  LET r == ReceiveHangup(f, s, d) IN Sound(r.session, r.deadline)
BY EndedSound DEF ReceiveHangup, Received

LEMMA ReceiveTimeSyncSound ==
  ASSUME NEW f, f.left \in Nat, NEW s \in Sessions, NEW d \in Deadlines, Sound(s, d)
  PROVE  LET r == ReceiveTimeSync(f, s, d) IN Sound(r.session, r.deadline)
<1> DEFINE t == DeadlineTick(Arm(s, f.left), s)
<1>1. CASE s.state \in {"talking", "ringing"}
  <2>1. Sound(s, Arm(s, f.left))
    BY <1>1, ArmSound DEF Sound, Active
  <2>2. Sound(t.session, t.deadline)
    BY <2>1, ArmType, DeadlineTickSound
  <2> HIDE DEF t
  <2> QED BY <2>2 DEF ReceiveTimeSync, Received, t
<1>2. CASE s.state \notin {"talking", "ringing"}
  BY <1>2 DEF ReceiveTimeSync, Received
<1> QED BY <1>1, <1>2

LEMMA ReceivePickSound ==
  ASSUME NEW f, NEW s \in Sessions, NEW d \in Deadlines, Sound(s, d)
  PROVE  LET r == ReceivePick(f, s, d) IN Sound(r.session, r.deadline)
BY ReceivePickKeeps DEF Sound, Active, DeadlineCurrent

LEMMA ReceivePickAckSound ==
  ASSUME NEW f, NEW s \in Sessions, NEW d \in Deadlines, Sound(s, d)
  PROVE  LET r == ReceivePickAck(f, s, d) IN Sound(r.session, r.deadline)
<1> DEFINE talking == [s EXCEPT !.state = "talking", !.pickGen = 0, !.pickLeft = 0]
           closed == [s EXCEPT !.pickGen = 0]
<1>1. CASE CanPick(s)
  <2>1. Active(s)
    BY <1>1 DEF CanPick, Active
  <2>2. talking \in Sessions
    BY ZeroIsGeneration DEF Sessions, SessionStates
  <2>3. talking.generation = s.generation /\ talking.peer = s.peer
    BY DEF Sessions
  <2>4. /\ closed.generation = s.generation
        /\ closed.peer = s.peer
        /\ closed.state = s.state
    BY DEF Sessions
  <2> HIDE DEF talking, closed
  <2>5. Sound(talking, Arm(talking, TalkTimeout))
    BY <2>1, <2>2, <2>3, ArmSound DEF Sound
  <2>6. Sound(closed, d)
    BY <2>4 DEF Sound, Active, DeadlineCurrent
  <2> QED BY <2>5, <2>6 DEF ReceivePickAck, Received, talking, closed
<1>2. CASE ~CanPick(s)
  BY <1>2 DEF ReceivePickAck, Received
<1> QED BY <1>1, <1>2

LEMMA ReceiveCallSound ==
  ASSUME NEW f, f.src \in Stations, NEW s \in Sessions, NEW d \in Deadlines,
         Sound(s, d)
  PROVE  LET r == ReceiveCall(f, s, d) IN Sound(r.session, r.deadline)
<1> DEFINE next == Start(s, f.src, "ringing")
<1>1. CASE s.generation < MaxGeneration
  <2>1. next \in Sessions
    BY <1>1, StartType DEF SessionStates
  <2>2. next.generation # 0 /\ next.peer # NoPeer
    BY SessionAssumption DEF Start, Sessions, Generations
  <2> HIDE DEF next
  <2>3. Sound(next, Arm(next, RingTimeout))
    BY <2>1, <2>2, ArmSound
  <2> QED BY <2>3 DEF ReceiveCall, Received, Refused, next
<1>2. CASE ~(s.generation < MaxGeneration)
  BY <1>2 DEF ReceiveCall, Received, Refused
<1> QED BY <1>1, <1>2

LEMMA ReceiveDatagramSound ==
  ASSUME NEW f, Framed(f), NEW s \in Sessions, NEW d \in Deadlines, Sound(s, d)
  PROVE  LET r == ReceiveDatagram(f, s, d) IN Sound(r.session, r.deadline)
<1>1. Sound(Received(s, d, NoFlags).session, Received(s, d, NoFlags).deadline)
  BY DEF Received
<1> QED BY <1>1, ReceiveHangupSound, ReceiveTimeSyncSound, ReceivePickSound,
        ReceivePickAckSound, ReceiveCallSound DEF ReceiveDatagram, Framed

LEMMA RuntimeTickSound ==
  ASSUME NEW a \in Acks, NEW s \in Sessions, NEW d \in Deadlines, Sound(s, d)
  PROVE  LET r == RuntimeTick(a, s, d) IN Sound(r.session, r.deadline)
BY DeadlineTickSound, DeadlineTickType, EndedSound DEF RuntimeTick

LEMMA RuntimeReceiveSound ==
  ASSUME NEW a \in Acks, NEW f, Framed(f), NEW s \in Sessions, NEW d \in Deadlines,
         Sound(s, d)
  PROVE  LET r == RuntimeReceive(a, f, s, d) IN Sound(r.session, r.deadline)
<1> DEFINE told == AckTick(a, s)
           over == HangupOver(a, told)
           s1 == IF over THEN Abort(s) ELSE s
           d1 == IF over THEN Disarmed ELSE d
           r == ReceiveDatagram(f, s1, d1)
<1>1. s1 \in Sessions /\ d1 \in Deadlines
  BY EndedType, DisarmedType
<1>2. Sound(s1, d1)
  BY EndedSound
<1> HIDE DEF s1, d1
<1>3. Sound(r.session, r.deadline)
  BY <1>1, <1>2, ReceiveDatagramSound
<1>4. Sound(Abort(s1), Disarmed)
  BY <1>1, EndedSound
<1> HIDE DEF r, told
<1> QED BY <1>2, <1>3, <1>4 DEF RuntimeReceive, r, s1, d1, told

-----------------------------------------------------------------------------
(* The step cannot fail *)

\* One command at a time: nothing is queued while an acknowledgement is owed.
Exclusive(d, a) == DispatchActive(d) => a.state # "waiting"

LEMMA HandshakeTickSound ==
  ASSUME NEW h, NEW s \in Sessions, NEW d \in Deadlines, Sound(s, d)
  PROVE  LET beat == HandshakeTick(h, s)
         IN Sound(beat.session, IF beat.disconnected THEN Disarmed ELSE d)
BY EndedSound DEF HandshakeTick

LEMMA StepTimersSound ==
  ASSUME NEW s \in Sessions, NEW d \in Deadlines, NEW a \in Acks,
         NEW h \in Handshakes, NEW c \in Controls, Sound(s, d)
  PROVE  LET t == StepTimers(s, d, a, h, c)
         IN /\ Sound(t.session, t.deadline)
            /\ t.ok
            /\ a.state # "waiting" => t.ack.state # "waiting"
<1> DEFINE beat == HandshakeTick(h, s)
           d1 == IF beat.disconnected THEN Disarmed ELSE d
           run == RuntimeTick(a, beat.session, d1)
<1>1. beat.session \in Sessions /\ d1 \in Deadlines
  BY HandshakeTickType, DisarmedType
<1>2. Sound(beat.session, d1)
  BY HandshakeTickSound
<1> HIDE DEF beat, d1
<1>3. Sound(run.session, run.deadline)
  BY <1>1, <1>2, RuntimeTickSound
<1>4. a.state # "waiting" => run.ack.state # "waiting"
  BY DEF RuntimeTick, AckTick
<1> HIDE DEF run
<1>5. Active(run.session) => HandshakeMayStart(run.session)
  BY <1>3 DEF Sound, HandshakeMayStart
<1> QED BY <1>3, <1>4, <1>5 DEF StepTimers, TimersAfter, beat, d1, run

LEMMA DispatchStepSent ==
  ASSUME NEW d \in Dispatches, NEW s, NEW delivered \in BOOLEAN
  PROVE  LET next == DispatchStep(d, s, delivered)
         IN /\ next.cmd = d.cmd
            /\ DispatchActive(d) /\ next.state = "sent" => CommandCurrent(d.cmd, s)
            /\ DispatchActive(next) => DispatchActive(d) /\ next.state # "sent"
<1> DEFINE tried == [d EXCEPT !.attempts = @ + 1]
<1>1. d \in Attempted /\ tried \in Attempted /\ tried.cmd = d.cmd
  BY CountTypes DEF Dispatches, Attempted
<1> HIDE DEF tried
<1>2. \A e \in Attempted, state \in DispatchStates :
        Finish(e, state).cmd = e.cmd /\ Finish(e, state).state = state
  BY DEF Finish, Attempted
<1>3. AttemptFailed(tried).cmd = d.cmd /\ AttemptFailed(tried).state # "sent"
  <2>1. [tried EXCEPT !.state = "retry", !.left = RetryDelay].cmd = tried.cmd
    BY <1>1 DEF Attempted
  <2>2. [tried EXCEPT !.state = "retry", !.left = RetryDelay].state = "retry"
    BY <1>1 DEF Attempted
  <2> QED BY <1>1, <1>2, <2>1, <2>2 DEF AttemptFailed, DispatchStates
<1>4. CASE ~DispatchActive(d)
  BY <1>4 DEF DispatchStep
<1>5. CASE DispatchActive(d) /\ ~CommandCurrent(d.cmd, s)
  BY <1>1, <1>2, <1>5 DEF DispatchStep, DispatchActive, DispatchStates
<1>6. CASE DispatchActive(d) /\ CommandCurrent(d.cmd, s)
  BY <1>1, <1>2, <1>3, <1>6 DEF DispatchStep, DispatchActive, DispatchStates, tried
<1> QED BY <1>4, <1>5, <1>6

\* A fresh delivery finds no acknowledgement pending, and the observed echo of
\* the command leaves the session as the command expects it.
LEMMA StepDispatchSound ==
  ASSUME NEW t, t.session \in Sessions, t.deadline \in Deadlines, t.ok,
         NEW slot \in Dispatches, NEW before, NEW sent \in BOOLEAN,
         Sound(t.session, t.deadline), Exclusive(slot, t.ack)
  PROVE  LET m == StepDispatch(t, slot, before, sent)
         IN /\ m.ok
            /\ Sound(m.session, m.deadline)
            /\ Exclusive(m.dispatch, m.ack)
<1> DEFINE next == DispatchStep(slot, t.session, sent)
           fresh == DispatchActive(slot) /\ next.state = "sent"
           pick == [src |-> Local, dst |-> next.cmd.peer]
           echo == IF next.cmd.type \in {"answer", "call"}
                   THEN ReceivePick(pick, t.session, t.deadline)
                   ELSE Received(t.session, t.deadline, NoFlags)
<1>1. /\ next.cmd = slot.cmd
      /\ fresh => CommandCurrent(slot.cmd, t.session)
      /\ DispatchActive(next) => DispatchActive(slot) /\ next.state # "sent"
  BY DispatchStepSent
<1> HIDE DEF next, pick
<1>2. /\ echo.session.state = t.session.state
      /\ echo.session.peer = t.session.peer
      /\ echo.session.generation = t.session.generation
  BY ReceivePickKeeps DEF Received
<1> HIDE DEF echo
<1>3. fresh => MayAwaitAck(t.ack, next, echo.session)
  BY <1>1, <1>2 DEF Exclusive, MayAwaitAck, CommandCurrent, CommandFits, Active
<1>4. Sound(echo.session, t.deadline)
  BY <1>2 DEF Sound, Active, DeadlineCurrent
<1>5. Sound(Abort(t.session), Disarmed)
  BY EndedSound
<1>6. ~fresh => Exclusive(next, t.ack)
  BY <1>1 DEF Exclusive
<1>7. fresh => ~DispatchActive(next)
  BY <1>1
<1> QED BY <1>3, <1>4, <1>5, <1>6, <1>7 DEF StepDispatch, Exclusive, next, pick, echo

\* The inductive invariant: types, the soundness of the active call and the
\* exclusive use of the command slot.
CallInv ==
  /\ TypeOK
  /\ Sound(session, deadline)
  /\ Exclusive(dispatch, ack)
  /\ DaemonRuns

LEMMA StepFromSound ==
  ASSUME NEW x \in Structs, Sound(x.session, x.deadline), Exclusive(x.dispatch, x.ack),
         NEW sent1 \in BOOLEAN, NEW sent2 \in BOOLEAN, NEW sent3 \in BOOLEAN
  PROVE  LET r == StepFrom(x, sent1, sent2, sent3)
         IN r.ok /\ Sound(r.session, r.deadline) /\ Exclusive(r.dispatch, r.ack)
<1> DEFINE t == StepTimers(x.session, x.deadline, x.ack, x.handshake, x.control)
           m == StepDispatch(t, x.dispatch, x.session, sent3)
<1> Typed(x)
  BY StructsTyped
<1> USE DEF Typed
<1>1. t.session \in Sessions /\ t.deadline \in Deadlines
  BY StepTimersType
<1>2. /\ Sound(t.session, t.deadline)
      /\ t.ok
      /\ x.ack.state # "waiting" => t.ack.state # "waiting"
  BY StepTimersSound
<1> HIDE DEF t
<1>3. m.ok /\ Sound(m.session, m.deadline) /\ Exclusive(m.dispatch, m.ack)
  <2>1. Exclusive(x.dispatch, t.ack)
    BY <1>2 DEF Exclusive
  <2> QED BY <1>1, <1>2, <2>1, StepDispatchSound
<1> HIDE DEF m
<1> QED BY <1>3 DEF StepFrom, StepSlots, StepDone, t, m

LEMMA InstallSound ==
  ASSUME NEW x, Sound(x.session, x.deadline), Exclusive(x.dispatch, x.ack),
         Install(x), phase' \in {"poll", "packet"}, TypeOK'
  PROVE  CallInv'
BY DEF Install, CallInv, DaemonRuns

LEMMA CommitSound ==
  ASSUME NEW r, r.ok, Sound(r.session, r.deadline), Exclusive(r.dispatch, r.ack),
         NEW next \in {"poll", "packet"}, Commit(r, next), TypeOK'
  PROVE  CallInv'
BY InstallSound DEF Commit

LEMMA InitSound == Init => CallInv
<1> SUFFICES ASSUME Init PROVE CallInv
  OBVIOUS
<1>1. ~Active(session) /\ ~DispatchActive(dispatch)
  BY DEF Init, InitSession, Active, EmptyDispatch, DispatchActive
<1> QED BY <1>1, InitType DEF CallInv, Sound, Exclusive, DaemonRuns, Init

LEMMA AnswerSound ==
  ASSUME CallInv, TypeOK', NEW g \in Generations, Answer(g)
  PROVE  CallInv'
BY DEF Answer, SlotBusy, CallInv, Sound, Exclusive, DaemonRuns

LEMMA HangupFromSound ==
  ASSUME NEW x \in Structs, NEW g, Sound(x.session, x.deadline),
         Exclusive(x.dispatch, x.ack)
  PROVE  LET y == HangupFrom(x, g)
         IN Sound(y.session, y.deadline) /\ Exclusive(y.dispatch, y.ack)
<1> DEFINE d == Superseded(x.dispatch, g)
           a == AckSuperseded(x.ack, g)
           free == ~DispatchActive(d) /\ a.state # "waiting"
<1> Typed(x)
  BY StructsTyped
<1>1. CASE free
  BY <1>1 DEF HangupFrom, Exclusive, Structs
<1>2. CASE ~free
  <2>1. Sound(Abort(x.session), Disarmed)
    BY EndedSound DEF Typed
  <2>2. DispatchActive(d) => DispatchActive(x.dispatch)
    BY DEF Superseded, Finish, DispatchActive, Typed, Dispatches
  <2>3. a.state = "waiting" => x.ack.state = "waiting"
    BY DEF AckSuperseded, AckResolved, Typed, Acks
  <2>4. Exclusive(d, a)
    BY <2>2, <2>3 DEF Exclusive
  <2> HIDE DEF d, a
  <2> QED BY <1>2, <2>1, <2>4 DEF HangupFrom, Structs, d, a
<1> QED BY <1>1, <1>2

LEMMA HangupSound ==
  ASSUME CallInv, TypeOK', NEW g \in Generations, Hangup(g)
  PROVE  CallInv'
<1> DEFINE y == HangupFrom(Struct, g)
<1>1. Struct \in Structs
  BY ControlType DEF CallInv
<1>2. Sound(y.session, y.deadline) /\ Exclusive(y.dispatch, y.ack)
  BY <1>1, HangupFromSound DEF CallInv, Struct
<1> QED BY <1>2, InstallSound DEF Hangup

LEMMA ReceiveSound ==
  ASSUME CallInv, TypeOK', Receive
  PROVE  CallInv'
<1> PICK f \in Frames : Install(ReceiveFrom(Struct, f).to)
  BY DEF Receive
<1> DEFINE y == ReceiveFrom(Struct, f).to
           r == RuntimeReceive(ack, f, session, deadline)
<1>1. CASE f.kind \in {"ask", "reply"}
  <2>1. Sound(y.session, y.deadline) /\ Exclusive(y.dispatch, y.ack)
    BY <1>1 DEF ReceiveFrom, ReceiveHeartbeat, Struct, CallInv
  <2> QED BY <2>1, InstallSound DEF Receive
<1>2. CASE f.kind \notin {"ask", "reply"}
  <2>1. Sound(r.session, r.deadline)
    BY FramesFramed, RuntimeReceiveSound DEF CallInv, TypeOK
  <2>2. ack.state # "waiting" => r.ack.state # "waiting"
    BY DEF RuntimeReceive, AckTick, AckConfirmed
  <2> HIDE DEF r
  <2>3. Sound(y.session, y.deadline) /\ Exclusive(y.dispatch, y.ack)
    BY <1>2, <2>1, <2>2
       DEF ReceiveFrom, ReceiveControl, ControlReceived, Struct, Exclusive, CallInv, r
  <2> QED BY <2>3, InstallSound DEF Receive
<1> QED BY <1>1, <1>2

LEMMA StepSound ==
  ASSUME CallInv, TypeOK', Step
  PROVE  CallInv'
<1> PICK sent1 \in Outcomes(handshakeDispatch), sent2 \in BOOLEAN,
         sent3 \in Outcomes(dispatch) :
      Commit(StepFrom(Struct, sent1, sent2, sent3), "packet")
  BY DEF Step
<1> DEFINE r == StepFrom(Struct, sent1, sent2, sent3)
<1>1. Struct \in Structs
  BY ControlType DEF CallInv
<1>2. Sound(Struct.session, Struct.deadline) /\ Exclusive(Struct.dispatch, Struct.ack)
  BY DEF CallInv, Struct
<1>3. r.ok /\ Sound(r.session, r.deadline) /\ Exclusive(r.dispatch, r.ack)
  BY <1>1, <1>2, OutcomesType, StepFromSound
<1> QED BY <1>3, CommitSound

LEMMA CaptureLostSound ==
  ASSUME CallInv, TypeOK', CaptureLost
  PROVE  CallInv'
<1> PICK sent1 \in Outcomes(handshakeDispatch), sent2 \in BOOLEAN,
         sent3 \in Outcomes(dispatch) :
      Commit(StepFrom(Lost, sent1, sent2, sent3), "poll")
  BY DEF CaptureLost
<1> DEFINE r == StepFrom(Lost, sent1, sent2, sent3)
<1>1. Lost \in Structs
  BY LostType DEF CallInv
<1>2. Sound(Lost.session, Lost.deadline) /\ Exclusive(Lost.dispatch, Lost.ack)
  BY EndedSound DEF Lost, Struct, CallInv, TypeOK
<1>3. r.ok /\ Sound(r.session, r.deadline) /\ Exclusive(r.dispatch, r.ack)
  BY <1>1, <1>2, OutcomesType, StepFromSound
<1> QED BY <1>3, CommitSound

LEMMA TickSound ==
  ASSUME CallInv, TypeOK', Tick
  PROVE  CallInv'
<1> USE DEF CallInv, TypeOK
<1>1. Sound(session', deadline')
  <2>1. /\ session'.state = session.state
        /\ session'.peer = session.peer
        /\ session'.generation = session.generation
    BY DEF Tick, Sessions
  <2>2. deadline'.armed = deadline.armed /\ deadline'.generation = deadline.generation
    BY DEF Tick, Deadlines
  <2> QED BY <2>1, <2>2 DEF Sound, Active, DeadlineCurrent
<1>2. Exclusive(dispatch', ack')
  <2>1. dispatch'.state = dispatch.state /\ ack'.state = ack.state
    BY DEF Tick, Dispatches, Acks
  <2> QED BY <2>1 DEF Exclusive, DispatchActive
<1> QED BY <1>1, <1>2 DEF Tick, DaemonRuns

LEMMA NextSound == CallInv /\ [Next]_vars => CallInv'
<1> SUFFICES ASSUME CallInv, [Next]_vars PROVE CallInv'
  OBVIOUS
<1>1. TypeOK'
  BY NextType DEF CallInv
<1>2. CASE \E g \in Generations : Answer(g) \/ Hangup(g)
  BY <1>1, <1>2, AnswerSound, HangupSound
<1>3. CASE Step
  BY <1>1, <1>3, StepSound
<1>4. CASE Receive
  BY <1>1, <1>4, ReceiveSound
<1>5. CASE NoPacket
  BY <1>1, <1>5 DEF NoPacket, CallInv, Sound, Exclusive, DaemonRuns
<1>6. CASE CaptureLost
  BY <1>1, <1>6, CaptureLostSound
<1>7. CASE Tick
  BY <1>1, <1>7, TickSound
<1>8. CASE UNCHANGED vars
  BY <1>1, <1>8 DEF vars, CallInv, Sound, Exclusive, DaemonRuns
<1> QED BY <1>2, <1>3, <1>4, <1>5, <1>6, <1>7, <1>8 DEF Next

\* The inductive invariant of call control: well typed, an active call timed by a
\* deadline of its own, no command queued while another awaits its answer.
THEOREM CallInvariant == Spec => []CallInv
BY InitSound, NextSound, PTL DEF Spec

\* df_gvs_call_control_step never fails, so call control never ends the daemon:
\* no order of requests, frames, send failures and clock ticks lets a command go
\* out while another one still waits for its acknowledgement.
THEOREM StepNeverFails == Spec => []DaemonRuns
<1>1. CallInv => DaemonRuns
  BY DEF CallInv
<1> QED BY <1>1, CallInvariant, PTL

\* An active call always has a deadline of its own generation: it cannot ring or
\* talk forever for want of one, whatever preempted, synchronised or answered it.
THEOREM EveryCallIsTimed == Spec => []CallTimed
<1>1. CallInv => CallTimed
  BY DEF CallInv, Sound, CallTimed
<1> QED BY <1>1, CallInvariant, PTL

-----------------------------------------------------------------------------
(* How a session moves, and what is recorded of it *)

Stays(s, t) ==
  t.state = s.state /\ t.generation = s.generation /\ t.peer = s.peer
Ends(s, t) == Active(s) /\ t.state = "ended" /\ t.generation = s.generation
Establishes(s, t) ==
  /\ s.state = "ringing" /\ t.state = "talking"
  /\ t.generation = s.generation /\ t.peer = s.peer
Begins(s, t) ==
  /\ ~Active(s) /\ s.generation < MaxGeneration
  /\ t.state = "ringing" /\ t.generation = s.generation + 1
TakesOver(s, t) ==
  /\ s.state = "ringing" /\ s.generation < MaxGeneration
  /\ t.state = "ringing" /\ t.generation = s.generation + 1

\* One frame moves the session by one step of the lifecycle, and its flags say
\* which.
Moved(s, t, flags) ==
  \/ Stays(s, t) /\ ~flags.preempted /\ ~flags.timedOut
  \/ Ends(s, t) /\ ~flags.preempted
  \/ Establishes(s, t) /\ ~flags.preempted /\ ~flags.timedOut
  \/ Begins(s, t) /\ ~flags.preempted /\ ~flags.timedOut
  \/ TakesOver(s, t) /\ flags.preempted

LEMMA EndedEnds ==
  ASSUME NEW s \in Sessions
  PROVE  /\ Active(s) => Ends(s, Ended(s)) /\ Ends(s, Abort(s))
         /\ ~Active(s) => Stays(s, Abort(s))
         /\ ~Active(s) => Abort(s) = s
<1>1. Ended(s).state = "ended" /\ Ended(s).generation = s.generation
  BY DEF Ended, Sessions
<1> QED BY <1>1 DEF Ends, Abort, Stays

LEMMA NoFlagsRaised ==
  ~NoFlags.preempted /\ ~NoFlags.timedOut /\ ~NoFlags.ended /\ ~NoFlags.local
BY DEF NoFlags

LEMMA DeadlineTickMoves ==
  ASSUME NEW d \in Deadlines, NEW s \in Sessions
  PROVE  LET t == DeadlineTick(d, s)
         IN IF t.timedOut THEN Ends(s, t.session) ELSE t.session = s
BY EndedEnds DEF DeadlineTick, DeadlineReached, DeadlineCurrent

LEMMA ReceiveHangupMoves ==
  ASSUME NEW f, NEW s \in Sessions, NEW d
  PROVE  LET r == ReceiveHangup(f, s, d) IN Moved(s, r.session, r.flags)
<1> DEFINE outbound == f.src = Local /\ f.dst = s.peer
           flags == [NoFlags EXCEPT !.ended = TRUE, !.local = outbound]
<1>1. ~flags.preempted
  BY DEF NoFlags
<1> HIDE DEF flags
<1> QED BY <1>1, EndedEnds, NoFlagsRaised
        DEF ReceiveHangup, Received, Moved, Stays, flags

LEMMA ReceiveTimeSyncMoves ==
  ASSUME NEW f, f.left \in Nat, NEW s \in Sessions, NEW d
  PROVE  LET r == ReceiveTimeSync(f, s, d) IN Moved(s, r.session, r.flags)
<1> DEFINE t == DeadlineTick(Arm(s, f.left), s)
           flags == [NoFlags EXCEPT !.timedOut = t.timedOut]
<1>1. IF t.timedOut THEN Ends(s, t.session) ELSE t.session = s
  BY ArmType, DeadlineTickMoves
<1>2. ~flags.preempted /\ flags.timedOut = t.timedOut
  BY DEF NoFlags
<1> HIDE DEF flags, t
<1>3. Moved(s, t.session, flags)
  BY <1>1, <1>2 DEF Moved, Stays
<1>4. Moved(s, s, NoFlags)
  BY NoFlagsRaised DEF Moved, Stays
<1> QED BY <1>3, <1>4 DEF ReceiveTimeSync, Received, flags, t

LEMMA ReceivePickMoves ==
  ASSUME NEW f, NEW s \in Sessions, NEW d
  PROVE  LET r == ReceivePick(f, s, d) IN Moved(s, r.session, r.flags)
<1>1. ReceivePick(f, s, d).flags = NoFlags
  BY DEF ReceivePick, Received
<1> QED BY <1>1, ReceivePickKeeps, NoFlagsRaised DEF Moved, Stays

LEMMA ReceivePickAckMoves ==
  ASSUME NEW f, NEW s \in Sessions, NEW d, s.state # "preview"
  PROVE  LET r == ReceivePickAck(f, s, d) IN Moved(s, r.session, r.flags)
<1> DEFINE talking == [s EXCEPT !.state = "talking", !.pickGen = 0, !.pickLeft = 0]
           closed == [s EXCEPT !.pickGen = 0]
<1>1. CASE CanPick(s)
  <2>1. /\ talking.generation = s.generation /\ talking.peer = s.peer
        /\ talking.state = "talking"
    BY DEF Sessions
  <2>2. Stays(s, closed)
    BY DEF Sessions, Stays
  <2>3. s.state = "ringing"
    BY <1>1 DEF CanPick
  <2> HIDE DEF talking, closed
  <2>4. Establishes(s, talking)
    BY <2>1, <2>3 DEF Establishes
  <2>5. Stays(s, s)
    BY DEF Stays
  <2> QED BY <2>2, <2>4, <2>5, NoFlagsRaised
          DEF ReceivePickAck, Received, Moved, talking, closed
<1>2. CASE ~CanPick(s)
  BY <1>2, NoFlagsRaised DEF ReceivePickAck, Received, Moved, Stays
<1> QED BY <1>1, <1>2

LEMMA ReceiveCallMoves ==
  ASSUME NEW f, NEW s \in Sessions, NEW d
  PROVE  LET r == ReceiveCall(f, s, d) IN Moved(s, r.session, r.flags)
<1> DEFINE next == Start(s, f.src, "ringing")
           flags == [NoFlags EXCEPT !.ended = TRUE, !.preempted = TRUE]
<1>1. next.state = "ringing" /\ next.generation = s.generation + 1
  BY DEF Start
<1>2. flags.preempted
  BY DEF NoFlags
<1> HIDE DEF next, flags
<1>3. Stays(s, s)
  BY DEF Stays
<1>4. s.generation < MaxGeneration /\ s.state = "ringing" => TakesOver(s, next)
  BY <1>1 DEF TakesOver
<1>5. s.generation < MaxGeneration /\ ~Active(s) => Begins(s, next)
  BY <1>1 DEF Begins
<1> QED BY <1>2, <1>3, <1>4, <1>5, NoFlagsRaised
        DEF ReceiveCall, Received, Refused, Moved, next, flags

LEMMA ReceiveDatagramMoves ==
  ASSUME NEW f, Framed(f), NEW s \in Sessions, NEW d, s.state # "preview"
  PROVE  LET r == ReceiveDatagram(f, s, d) IN Moved(s, r.session, r.flags)
<1>1. Moved(s, Received(s, d, NoFlags).session, Received(s, d, NoFlags).flags)
  BY NoFlagsRaised DEF Received, Moved, Stays
<1> QED BY <1>1, ReceiveHangupMoves, ReceiveTimeSyncMoves, ReceivePickMoves,
        ReceivePickAckMoves, ReceiveCallMoves DEF ReceiveDatagram, Framed

\* The record of the last end is of an earlier call while one is active, and
\* calls here are incoming: none is in preview.
Recorded(s, c) ==
  /\ c.terminal.generation <= s.generation
  /\ Active(s) => c.terminal.generation < s.generation
  /\ s.state # "preview"

EndsRecorded(s, k) ==
  /\ k.terminal.generation = s.generation
  /\ k.terminal.reason \in EndReasons \ {"none", "preempted"}

\* One step of the lifecycle, or none, for session and record together.
Told(s, t, c, k) ==
  \/ t.state = s.state /\ t.generation = s.generation /\ k.terminal = c.terminal
  \/ Ends(s, t) /\ EndsRecorded(s, k)
  \/ Establishes(s, t) /\ k.terminal = c.terminal
  \/ Begins(s, t) /\ k.terminal = c.terminal
  \/ /\ TakesOver(s, t)
     /\ k.terminal.generation = s.generation
     /\ k.terminal.reason = "preempted"

LEMMA ToldRecorded ==
  ASSUME NEW s \in Sessions, NEW t, NEW c \in Controls, NEW k,
         Recorded(s, c), Told(s, t, c, k)
  PROVE  Recorded(t, k)
<1>1. s.generation \in Nat /\ c.terminal.generation \in Nat
  BY DEF Sessions, Controls, Terminals, Generations
<1> QED BY <1>1
     DEF Recorded, Told, Ends, EndsRecorded, Establishes, Begins, TakesOver, Active

LEMMA RecordTerminalFirst ==
  ASSUME NEW c, NEW g, c.terminal.generation # g, g # 0, NEW reason, NEW why
  PROVE  /\ RecordTerminal(c, reason, why, g).terminal.generation = g
         /\ RecordTerminal(c, reason, why, g).terminal.reason = reason
BY DEF RecordTerminal

LEMMA RecordedUnended ==
  ASSUME NEW s \in Sessions, NEW c \in Controls, Recorded(s, c), Active(s)
  PROVE  c.terminal.generation # s.generation /\ s.generation # 0
BY DEF Recorded, Sessions, Controls, Terminals, Generations

LEMMA ClassifyEnds ==
  ASSUME NEW s \in Sessions, NEW t, NEW c \in Controls, Recorded(s, c), Ends(s, t),
         NEW flags, ~flags.preempted, NEW disconnected, NEW expired
  PROVE  EndsRecorded(s, Classify(c, s, t, flags, disconnected, expired))
<1> DEFINE why == IF expired THEN "confirmation_timeout" ELSE "none"
<1>1. \A reason, f : /\ RecordTerminal(c, reason, f, s.generation).terminal.generation
                         = s.generation
                     /\ RecordTerminal(c, reason, f, s.generation).terminal.reason = reason
  BY RecordedUnended, RecordTerminalFirst DEF Ends
<1>2. Active(s) /\ t.state = "ended"
  BY DEF Ends
<1>3. \E reason \in EndReasons \ {"none", "preempted"} : \E f :
        Classify(c, s, t, flags, disconnected, expired)
          = RecordTerminal(c, reason, f, s.generation)
  <2>1. {"heartbeat_timeout", "session_timeout", "local_hangup", "peer_hangup", "unknown"}
          \subseteq EndReasons \ {"none", "preempted"}
    BY DEF EndReasons
  <2> QED BY <1>2, <2>1 DEF Classify
<1> QED BY <1>1, <1>3 DEF EndsRecorded

LEMMA ClassifyGoesOn ==
  ASSUME NEW s, NEW t, NEW c \in Controls, ~(Active(s) /\ t.state = "ended"),
         NEW flags, ~flags.preempted, Active(s) => ~flags.timedOut,
         NEW disconnected, Active(s) => disconnected = FALSE, NEW expired
  PROVE  Classify(c, s, t, flags, disconnected, expired).terminal = c.terminal
<1>1. \A why : [c EXCEPT !.fault = why].terminal = c.terminal
  BY DEF Controls
<1> QED BY <1>1 DEF Classify

LEMMA ClassifyPreempted ==
  ASSUME NEW s \in Sessions, NEW t, NEW c \in Controls, Recorded(s, c), TakesOver(s, t),
         NEW flags, flags.preempted
  PROVE  LET k == Classify(c, s, t, flags, FALSE, FALSE)
         IN k.terminal.generation = s.generation /\ k.terminal.reason = "preempted"
<1> DEFINE e == RecordTerminal(c, "preempted", "preempted", s.generation)
<1>1. Active(s)
  BY DEF TakesOver, Active
<1>2. e.terminal.generation = s.generation /\ e.terminal.reason = "preempted"
  BY <1>1, RecordedUnended, RecordTerminalFirst
<1>3. e \in Controls
  BY RecordTerminalType DEF Sessions, EndReasons, Faults
<1> HIDE DEF e
<1>4. [e EXCEPT !.fault = "none"].terminal = e.terminal
  BY <1>3 DEF Controls
<1>5. Classify(c, s, t, flags, FALSE, FALSE) = [e EXCEPT !.fault = "none"]
  BY <1>1 DEF Classify, e
<1> QED BY <1>2, <1>4, <1>5

LEMMA ClassifyTells ==
  ASSUME NEW s \in Sessions, NEW t, NEW c \in Controls, Recorded(s, c), NEW flags,
         Moved(s, t, flags)
  PROVE  Told(s, t, c, Classify(c, s, t, flags, FALSE, FALSE))
<1> DEFINE k == Classify(c, s, t, flags, FALSE, FALSE)
<1>1. ASSUME ~(Active(s) /\ t.state = "ended"), ~flags.preempted, ~flags.timedOut
      PROVE  k.terminal = c.terminal
  <2>1. [c EXCEPT !.fault = "none"].terminal = c.terminal
    BY DEF Controls
  <2> QED BY <1>1, <2>1 DEF Classify
<1>2. ASSUME Ends(s, t), ~flags.preempted PROVE EndsRecorded(s, k)
  BY <1>2, ClassifyEnds
<1>3. ASSUME TakesOver(s, t), flags.preempted
      PROVE  k.terminal.generation = s.generation /\ k.terminal.reason = "preempted"
  BY <1>3, ClassifyPreempted
<1> SUFFICES Told(s, t, c, k)
  OBVIOUS
<1> HIDE DEF k
<1>4. CASE Stays(s, t) /\ ~flags.preempted /\ ~flags.timedOut
  <2>1. ~(Active(s) /\ t.state = "ended")
    BY <1>4 DEF Stays, Active
  <2> QED BY <1>1, <1>4, <2>1 DEF Told, Stays
<1>5. CASE Ends(s, t) /\ ~flags.preempted
  BY <1>2, <1>5 DEF Told
<1>6. CASE Establishes(s, t) /\ ~flags.preempted /\ ~flags.timedOut
  BY <1>1, <1>6 DEF Told, Establishes
<1>7. CASE Begins(s, t) /\ ~flags.preempted /\ ~flags.timedOut
  BY <1>1, <1>7 DEF Told, Begins
<1>8. CASE TakesOver(s, t) /\ flags.preempted
  BY <1>3, <1>8 DEF Told
<1> QED BY <1>4, <1>5, <1>6, <1>7, <1>8 DEF Moved

\* A frame handled in time finds no acknowledgement to expire, so that it moves
\* the call once.
InTime(a) == a.state = "waiting" => a.left > 0

LEMMA AckTickInTime ==
  ASSUME NEW a \in Acks, InTime(a), NEW s
  PROVE  /\ AckTick(a, s).cmd = a.cmd
         /\ a.state = "waiting" => AckTick(a, s).state # "expired"
         /\ ~HangupOver(a, AckTick(a, s))
         /\ InTime(AckTick(a, s))
<1>1. /\ AckResolved(a, "cancelled").state = "cancelled"
      /\ AckResolved(a, "cancelled").cmd = a.cmd
  BY DEF AckResolved, Acks
<1>2. a.state = "waiting" => a.left # 0
  BY DEF InTime, Acks
<1> QED BY <1>1, <1>2 DEF AckTick, HangupOver, InTime

LEMMA RuntimeReceiveMoves ==
  ASSUME NEW a \in Acks, InTime(a), NEW f, Framed(f), NEW s \in Sessions,
         NEW d \in Deadlines, s.state # "preview"
  PROVE  LET r == RuntimeReceive(a, f, s, d)
         IN /\ Moved(s, r.session, r.flags)
            /\ r.expired = FALSE
            /\ r.ok => InTime(r.ack)
<1> DEFINE told == AckTick(a, s)
           r == ReceiveDatagram(f, s, d)
           yes == AckResolved(told, "confirmed")
           local == [NoFlags EXCEPT !.ended = Active(s), !.local = TRUE]
           both == [r.flags EXCEPT !.local = @ \/ FALSE]
           exp == a.state = "waiting" /\ told.state = "expired"
           Done(k, t, e, flags) ==
             [ok |-> TRUE, ack |-> k, session |-> t, deadline |-> e,
              expired |-> exp, flags |-> flags]
<1>1. /\ HangupOver(a, told) = FALSE /\ exp = FALSE
      /\ told.cmd = a.cmd /\ InTime(told) /\ told \in Acks
  BY AckTickInTime, AckTickType DEF HangupOver
<1>2. /\ r \in Results
      /\ Moved(s, r.session, r.flags)
  BY ReceiveDatagramType, ReceiveDatagramMoves
<1>3. InTime(yes)
  BY <1>1 DEF AckResolved, InTime, Acks
<1>4. InTime(AckTick(told, r.session))
  BY <1>1, AckTickInTime
<1>5. Moved(s, s, NoFlags)
  BY NoFlagsRaised DEF Moved, Stays
<1>6. AckConfirmed(told, s, f) /\ told.cmd.type = "hangup" => Moved(s, Abort(s), local)
  <2> SUFFICES ASSUME AckConfirmed(told, s, f), told.cmd.type = "hangup"
               PROVE  Moved(s, Abort(s), local)
    OBVIOUS
  <2>1. Active(s)
    BY DEF AckConfirmed, CommandCurrent, CommandFits
  <2>2. ~local.preempted
    BY DEF NoFlags
  <2> HIDE DEF local
  <2> QED BY <2>1, <2>2, EndedEnds DEF Moved
<1>7. Moved(s, r.session, both)
  <2>1. both.preempted = r.flags.preempted /\ both.timedOut = r.flags.timedOut
    BY <1>2 DEF Results, Flags
  <2> HIDE DEF both, r
  <2> QED BY <1>2, <2>1 DEF Moved
<1> HIDE DEF told, r, yes, local, both, exp
<1>8. RuntimeReceive(a, f, s, d) =
        IF ExpectedAck(told, f)
        THEN IF ~AckConfirmed(told, s, f) THEN Done(told, s, d, NoFlags)
             ELSE IF told.cmd.type = "hangup" THEN Done(yes, Abort(s), Disarmed, local)
             ELSE Done(yes, r.session, r.deadline, r.flags)
        ELSE IF ~r.ok THEN [Done(a, s, d, NoFlags) EXCEPT !.ok = FALSE]
        ELSE Done(AckTick(told, r.session), r.session, r.deadline, both)
  BY <1>1 DEF RuntimeReceive, told, r, yes, local, both, exp
<1> QED BY <1>1, <1>2, <1>3, <1>4, <1>5, <1>6, <1>7, <1>8

-----------------------------------------------------------------------------
(* How a step moves the session *)

\* A waiting hangup stays: it neither expires in time nor loses its call.
Waits(a, k, s) ==
  a.state = "waiting" /\ CommandCurrent(a.cmd, s) /\ a.cmd.type = "hangup" => k = a

LEMMA CurrentHangup ==
  ASSUME NEW cmd, NEW s, CommandCurrent(cmd, s), cmd.type = "hangup"
  PROVE  Active(s)
BY DEF CommandCurrent, CommandFits

LEMMA RuntimeTickMoves ==
  ASSUME NEW a \in Acks, NEW s \in Sessions, NEW d \in Deadlines
  PROVE  LET r == RuntimeTick(a, s, d)
         IN /\ r.session = s \/ Ends(s, r.session)
            /\ r.flags.timedOut => Ends(s, r.session)
            /\ ~r.flags.preempted
            /\ InTime(r.ack)
            /\ Active(r.session) => Waits(a, r.ack, r.session)
<1> DEFINE t == DeadlineTick(d, s)
           k == AckTick(a, t.session)
           over == HangupOver(a, k)
           flags == [NoFlags EXCEPT !.timedOut = t.timedOut,
                                    !.ended = over /\ Active(t.session), !.local = over]
<1>1. t.session \in Sessions /\ IF t.timedOut THEN Ends(s, t.session) ELSE t.session = s
  BY DeadlineTickType, DeadlineTickMoves
<1>2. flags.timedOut = t.timedOut /\ flags.preempted = FALSE
  BY DEF NoFlags
<1> HIDE DEF t, flags
<1>3. InTime(k)
  BY DEF AckTick, AckResolved, InTime, Acks
<1>4. over => CommandCurrent(a.cmd, t.session) /\ a.cmd.type = "hangup"
  BY DEF HangupOver, AckTick, AckResolved, Acks
<1>5. ~over => Waits(a, k, t.session)
  BY DEF Waits, HangupOver, AckTick, AckResolved, Acks
<1> HIDE DEF k, over
<1>6. over => t.session = s /\ Ends(s, Abort(s))
  <2> SUFFICES ASSUME over PROVE t.session = s /\ Ends(s, Abort(s))
    OBVIOUS
  <2>1. Active(t.session)
    BY <1>4, CurrentHangup
  <2>2. t.session = s
    BY <1>1, <2>1 DEF Ends, Active
  <2> QED BY <2>1, <2>2, EndedEnds
<1>7. over => ~Active(Abort(t.session))
  BY <1>1, EndedSound
<1>8. RuntimeTick(a, s, d) =
        [ack |-> k, session |-> IF over THEN Abort(t.session) ELSE t.session,
         deadline |-> IF over THEN Disarmed ELSE t.deadline,
         expired |-> a.state = "waiting" /\ k.state = "expired", flags |-> flags]
  BY DEF RuntimeTick, t, k, over, flags
<1>9. ~over => t.session = s \/ Ends(s, t.session)
  BY <1>1
<1> QED BY <1>1, <1>2, <1>3, <1>5, <1>6, <1>7, <1>8, <1>9

LEMMA HandshakeTickMoves ==
  ASSUME NEW h \in Handshakes, NEW s \in Sessions
  PROVE  LET b == HandshakeTick(h, s)
         IN /\ b.session = s \/ Ends(s, b.session)
            /\ b.disconnected \in BOOLEAN
            /\ b.disconnected => Ends(s, b.session)
            /\ b.handshake.active => HandshakeCurrent(b.handshake, s) /\ b.session = s
            /\ b.ask.type # "none" =>
                 /\ b.handshake.active
                 /\ b.ask = HandshakeCommand("ask", b.handshake)
<1>1. /\ Probed(h).active = h.active
      /\ Probed(h).generation = h.generation
      /\ Probed(h).peer = h.peer
  BY DEF Probed, Handshakes
<1>2. HandshakeCommand("ask", Probed(h)) = HandshakeCommand("ask", h)
  BY <1>1 DEF HandshakeCommand
<1>3. ~NoHandshake.active /\ NoCommand.type = "none"
  BY DEF NoHandshake, NoCommand
<1>4. HandshakeCurrent(h, s) => HandshakeCurrent(Probed(h), s) /\ Probed(h).active
  BY <1>1 DEF HandshakeCurrent
<1>5. HandshakeCurrent(h, s) => Active(s) /\ h.active /\ Ends(s, Ended(s))
  BY EndedEnds DEF HandshakeCurrent
<1> QED BY <1>2, <1>3, <1>4, <1>5 DEF HandshakeTick, HandshakeCurrent, Handshakes

LEMMA HandshakeBegins ==
  ASSUME NEW s \in Sessions, Active(s)
  PROVE  LET b == HandshakeTick(HandshakeStart(s), s)
         IN b.handshake.active /\ HandshakeCurrent(b.handshake, s)
<1> DEFINE h == HandshakeStart(s)
<1>1. /\ h.left = 0 /\ h.missed = 0 /\ h.active
      /\ h.generation = s.generation /\ h.peer = s.peer
  BY DEF HandshakeStart
<1>2. h \in Handshakes
  BY HandshakeStartType
<1> HIDE DEF h
<1>3. HandshakeCurrent(h, s) /\ ~(h.missed >= MaxMissed)
  BY <1>1, CommandAssumption DEF HandshakeCurrent
<1>4. HandshakeTick(h, s).handshake = Probed(h)
  BY <1>1, <1>3 DEF HandshakeTick
<1> QED BY <1>1, <1>2, <1>3, <1>4 DEF Probed, HandshakeCurrent, Handshakes, h

LEMMA StepTimersMoves ==
  ASSUME NEW s \in Sessions, NEW d \in Deadlines, NEW a \in Acks,
         NEW h \in Handshakes, NEW c \in Controls, Recorded(s, c)
  PROVE  LET t == StepTimers(s, d, a, h, c)
         IN /\ t.session = s \/ Ends(s, t.session)
            /\ t.session = s => t.control.terminal = c.terminal
            /\ t.session # s => EndsRecorded(s, t.control)
            /\ InTime(t.ack)
            /\ Active(t.session) => /\ Waits(a, t.ack, t.session)
                                    /\ HandshakeCurrent(t.handshake, t.session)
<1> DEFINE beat == HandshakeTick(h, s)
           d1 == IF beat.disconnected THEN Disarmed ELSE d
           run == RuntimeTick(a, beat.session, d1)
           again == HandshakeTick(HandshakeStart(run.session), run.session)
           begin == ~beat.handshake.active /\ Active(run.session)
           k == Classify(c, s, run.session, run.flags, beat.disconnected, run.expired)
<1>1. /\ beat.session \in Sessions
      /\ beat.session = s \/ Ends(s, beat.session)
      /\ beat.disconnected \in BOOLEAN
      /\ beat.disconnected => Ends(s, beat.session)
      /\ beat.handshake.active => HandshakeCurrent(beat.handshake, s) /\ beat.session = s
  BY HandshakeTickType, HandshakeTickMoves
<1>2. d1 \in Deadlines
  BY DisarmedType
<1> HIDE DEF beat, d1
<1>3. /\ run.session \in Sessions
      /\ run.session = beat.session \/ Ends(beat.session, run.session)
      /\ run.flags.timedOut => Ends(beat.session, run.session)
      /\ ~run.flags.preempted
      /\ InTime(run.ack)
      /\ Active(run.session) => Waits(a, run.ack, run.session)
  BY <1>1, <1>2, RuntimeTickType, RuntimeTickMoves
<1>4. Active(run.session) => again.handshake.active /\ HandshakeCurrent(again.handshake, run.session)
  BY <1>3, HandshakeBegins
<1> HIDE DEF run, again
<1>5. run.session = s \/ Ends(s, run.session)
  BY <1>1, <1>3 DEF Ends, Active
<1>6. run.session # s => EndsRecorded(s, k)
  BY <1>3, <1>5, ClassifyEnds
<1>7. run.session = s => k.terminal = c.terminal
  <2> SUFFICES ASSUME run.session = s PROVE k.terminal = c.terminal
    OBVIOUS
  <2>1. Active(s) => ~beat.disconnected /\ ~run.flags.timedOut
    BY <1>1, <1>3 DEF Ends, Active
  <2>2. ~(Active(s) /\ run.session.state = "ended")
    BY DEF Active
  <2>3. \A why : [c EXCEPT !.fault = why].terminal = c.terminal
    BY DEF Controls
  <2> QED BY <1>3, <2>1, <2>2, <2>3 DEF Classify
<1>8. Active(run.session) /\ beat.handshake.active
        => HandshakeCurrent(beat.handshake, run.session)
  BY <1>1, <1>3 DEF Ends, Active
<1> HIDE DEF k
<1>9. /\ StepTimers(s, d, a, h, c).session = run.session
      /\ StepTimers(s, d, a, h, c).ack = run.ack
      /\ StepTimers(s, d, a, h, c).handshake
           = IF begin THEN again.handshake ELSE beat.handshake
      /\ StepTimers(s, d, a, h, c).control = k
  BY DEF StepTimers, TimersAfter, beat, run, again, k, d1
<1> QED BY <1>3, <1>4, <1>5, <1>6, <1>7, <1>8, <1>9

\* A datagram handed to the transport is of the call that is current.
LEMMA StepHandshakeWire ==
  ASSUME NEW slot, NEW s, NEW ask, NEW sent1, NEW sent2
  PROVE  \A cmd \in StepHandshake(slot, s, ask, sent1, sent2).wire : CommandCurrent(cmd, s)
BY DEF StepHandshake, Transmits, Queued

LEMMA DispatchStepLost ==
  ASSUME NEW d \in Dispatches, DispatchActive(d), NEW s, NEW delivered \in BOOLEAN
  PROVE  LET next == DispatchStep(d, s, delivered)
         IN /\ CommandCurrent(d.cmd, s) =>
                 DispatchActive(next) \/ next.state \in {"sent", "failed", "timeout"}
            /\ next.state \in {"failed", "timeout"} => CommandCurrent(d.cmd, s)
<1> DEFINE tried == [d EXCEPT !.attempts = @ + 1]
<1>1. tried \in Attempted /\ d \in Attempted
  BY CountTypes DEF Dispatches, Attempted
<1> HIDE DEF tried
<1>2. \A e \in Attempted, state \in DispatchStates : Finish(e, state).state = state
  BY DEF Finish, Attempted
<1>3. AttemptFailed(tried).state \in {"failed", "retry"}
  <2>1. [tried EXCEPT !.state = "retry", !.left = RetryDelay].state = "retry"
    BY <1>1 DEF Attempted
  <2> QED BY <1>1, <1>2, <2>1 DEF AttemptFailed, DispatchStates
<1>4. /\ Finish(d, "cancelled").state = "cancelled"
      /\ Finish(d, "timeout").state = "timeout"
      /\ Finish(tried, "sent").state = "sent"
  BY <1>1, <1>2 DEF DispatchStates
<1> QED BY <1>3, <1>4 DEF DispatchStep, DispatchActive, tried

\* The hangup that was accepted for the current call still holds the slot.
Holds(s, d, a) ==
  /\ d.cmd.generation <= s.generation
  /\ Active(s) /\ d.cmd = CommandFor("hangup", s)
       => \/ DispatchActive(d)
          \/ a.state = "waiting" /\ a.cmd = d.cmd

\* What WireIsCurrent says of one command.
OfCurrentCall(cmd, s, c) ==
  /\ cmd.generation = s.generation
  /\ cmd.peer = s.peer
  /\ CommandFits(cmd.type, s)
     \/ c.terminal = [reason |-> "local_hangup", fault |-> c.fault,
                      generation |-> cmd.generation]

LEMMA StepDispatchMoves ==
  ASSUME NEW t, t.session \in Sessions, t.deadline \in Deadlines, t.ack \in Acks,
         t.control \in Controls,
         NEW slot \in Dispatches, NEW before \in Sessions, NEW sent \in BOOLEAN,
         InTime(t.ack)
  PROVE  LET m == StepDispatch(t, slot, before, sent)
         IN /\ InTime(m.ack)
            /\ m.dispatch.cmd = slot.cmd
            /\ \A cmd \in m.wire : CommandCurrent(cmd, t.session)
            /\ \/ Stays(t.session, m.session) /\ m.control.terminal = t.control.terminal
               \/ /\ Ends(t.session, m.session)
                  /\ m.session.peer = t.session.peer
                  /\ \E e \in Controls :
                       /\ e.terminal = t.control.terminal
                       /\ m.control = RecordTerminal(e, "local_hangup", e.fault,
                                                     before.generation)
            /\ ~DispatchActive(slot) => m.ack = t.ack
            /\ /\ DispatchActive(slot) /\ slot.cmd.type = "hangup"
               /\ CommandCurrent(slot.cmd, t.session) /\ Active(m.session)
               => \/ DispatchActive(m.dispatch)
                  \/ m.ack.state = "waiting" /\ m.ack.cmd = slot.cmd
<1> DEFINE next == DispatchStep(slot, t.session, sent)
           lost == DispatchActive(slot) /\ next.state \in {"failed", "timeout", "cancelled"}
           left == IF lost THEN DispatchFault(t.control, next, t.session) ELSE t.control.fault
           hung == /\ lost
                   /\ next.state # "cancelled"
                   /\ next.cmd.type = "hangup"
                   /\ next.cmd.generation = t.session.generation
           told == [t.control EXCEPT !.fault = left]
           fresh == DispatchActive(slot) /\ next.state = "sent"
           pick == [src |-> Local, dst |-> next.cmd.peer]
           echo == IF next.cmd.type \in {"answer", "call"}
                   THEN ReceivePick(pick, t.session, t.deadline)
                   ELSE Received(t.session, t.deadline, NoFlags)
           m == StepDispatch(t, slot, before, sent)
<1>1. /\ next \in Dispatches
      /\ next.cmd = slot.cmd
      /\ fresh => CommandCurrent(slot.cmd, t.session)
  BY DispatchStepType, DispatchStepSent
<1>2. /\ DispatchActive(slot) /\ CommandCurrent(slot.cmd, t.session)
           => DispatchActive(next) \/ next.state \in {"sent", "failed", "timeout"}
      /\ DispatchActive(slot) /\ next.state \in {"failed", "timeout"}
           => CommandCurrent(slot.cmd, t.session)
  BY DispatchStepLost
<1>3. AwaitAck(next).state = "waiting" /\ AwaitAck(next).cmd = slot.cmd
      /\ InTime(AwaitAck(next))
  BY <1>1, CommandAssumption DEF AwaitAck, InTime
<1> HIDE DEF next
<1>4. left \in Faults
  BY DispatchFaultType DEF Controls
<1> HIDE DEF left
<1>5. told \in Controls /\ told.terminal = t.control.terminal /\ told.fault = left
  BY <1>4 DEF Controls
<1> HIDE DEF told, pick
<1>6. Stays(t.session, echo.session)
  BY ReceivePickKeeps DEF Received, Stays
<1> HIDE DEF echo
<1>7. hung => Active(t.session)
  BY <1>1, <1>2, CurrentHangup DEF Dispatches, DispatchStates
<1>8. hung => /\ Ends(t.session, Abort(t.session))
              /\ Abort(t.session).peer = t.session.peer
  BY <1>7, EndedEnds DEF Abort, Ended, Sessions
<1>9. ~Active(Abort(t.session))
  BY EndedSound
<1>10. /\ m.dispatch = next
       /\ m.session = IF hung THEN Abort(t.session)
                      ELSE IF fresh THEN echo.session ELSE t.session
       /\ m.ack = IF fresh THEN AwaitAck(next) ELSE t.ack
       /\ m.control = IF hung THEN RecordTerminal(told, "local_hangup", left,
                                                  before.generation)
                      ELSE told
       /\ m.wire = {cmd \in {slot.cmd} : Transmits(slot, t.session)}
  BY DEF StepDispatch, m, next, left, told, echo, pick
<1>11. ASSUME DispatchActive(slot), slot.cmd.type = "hangup",
              CommandCurrent(slot.cmd, t.session), ~hung
       PROVE  DispatchActive(next) \/ fresh
  BY <1>1, <1>2, <1>11 DEF CommandCurrent
<1>12. Stays(t.session, t.session)
  BY DEF Stays
<1> HIDE DEF m, hung, fresh
<1>13. \A cmd \in m.wire : CommandCurrent(cmd, t.session)
  BY <1>10 DEF Transmits
<1>14. \/ Stays(t.session, m.session) /\ m.control.terminal = t.control.terminal
       \/ /\ Ends(t.session, m.session)
          /\ m.session.peer = t.session.peer
          /\ \E e \in Controls :
               /\ e.terminal = t.control.terminal
               /\ m.control = RecordTerminal(e, "local_hangup", e.fault,
                                             before.generation)
  BY <1>5, <1>6, <1>8, <1>10, <1>12
<1>15. InTime(m.ack) /\ m.dispatch.cmd = slot.cmd
  BY <1>1, <1>3, <1>10
<1>16. ~DispatchActive(slot) => m.ack = t.ack
  BY <1>10 DEF fresh
<1>17. ASSUME DispatchActive(slot), slot.cmd.type = "hangup",
              CommandCurrent(slot.cmd, t.session), Active(m.session)
       PROVE  \/ DispatchActive(m.dispatch)
              \/ m.ack.state = "waiting" /\ m.ack.cmd = slot.cmd
  BY <1>3, <1>9, <1>10, <1>11, <1>17
<1> QED BY <1>13, <1>14, <1>15, <1>16, <1>17 DEF m

\* The heartbeat is of the call that is current, if there is one.
Watched(s, h) == Active(s) => HandshakeCurrent(h, s)

LEMMA HungTells ==
  ASSUME NEW s \in Sessions, NEW c \in Controls, Recorded(s, c), Active(s),
         NEW e \in Controls, e.terminal = c.terminal
  PROVE  LET k == RecordTerminal(e, "local_hangup", e.fault, s.generation)
         IN /\ EndsRecorded(s, k)
            /\ k.terminal = [reason |-> "local_hangup", fault |-> k.fault,
                             generation |-> s.generation]
<1>1. Recorded(s, e)
  BY DEF Recorded
<1>2. e.terminal.generation # s.generation /\ s.generation # 0
  BY <1>1, RecordedUnended
<1> QED BY <1>2 DEF RecordTerminal, EndsRecorded, EndReasons

LEMMA StepFromMoves ==
  ASSUME NEW x \in Structs, Recorded(x.session, x.control), Exclusive(x.dispatch, x.ack),
         Holds(x.session, x.dispatch, x.ack),
         NEW sent1 \in BOOLEAN, NEW sent2 \in BOOLEAN, NEW sent3 \in BOOLEAN
  PROVE  LET r == StepFrom(x, sent1, sent2, sent3)
         IN /\ Told(x.session, r.session, x.control, r.control)
            /\ InTime(r.ack)
            /\ Watched(r.session, r.handshake)
            /\ Holds(r.session, r.dispatch, r.ack)
            /\ \A cmd \in r.wire : OfCurrentCall(cmd, r.session, r.control)
            /\ r.dispatch.cmd = x.dispatch.cmd
            /\ ~Active(x.session) => ~Active(r.session) /\ r.wire = {}
<1> DEFINE s == x.session
           t == StepTimers(s, x.deadline, x.ack, x.handshake, x.control)
           k == StepHandshake(x.slot, t.session, t.ask, sent1, sent2)
           m == StepDispatch(t, x.dispatch, s, sent3)
           r == StepFrom(x, sent1, sent2, sent3)
<1> Typed(x)
  BY StructsTyped
<1>1. /\ t.session \in Sessions
      /\ t.deadline \in Deadlines
      /\ t.ack \in Acks
      /\ t.control \in Controls
  BY StepTimersType DEF Typed
<1>2. /\ t.session = s \/ Ends(s, t.session)
      /\ t.session = s => t.control.terminal = x.control.terminal
      /\ t.session # s => EndsRecorded(s, t.control)
      /\ InTime(t.ack)
      /\ Active(t.session) => /\ Waits(x.ack, t.ack, t.session)
                              /\ HandshakeCurrent(t.handshake, t.session)
  BY StepTimersMoves DEF Typed
<1> HIDE DEF t
<1>3. /\ InTime(m.ack)
      /\ m.dispatch.cmd = x.dispatch.cmd
      /\ \A cmd \in m.wire : CommandCurrent(cmd, t.session)
      /\ \/ Stays(t.session, m.session) /\ m.control.terminal = t.control.terminal
         \/ /\ Ends(t.session, m.session)
            /\ m.session.peer = t.session.peer
            /\ \E e \in Controls :
                 /\ e.terminal = t.control.terminal
                 /\ m.control = RecordTerminal(e, "local_hangup", e.fault, s.generation)
      /\ ~DispatchActive(x.dispatch) => m.ack = t.ack
      /\ /\ DispatchActive(x.dispatch) /\ x.dispatch.cmd.type = "hangup"
         /\ CommandCurrent(x.dispatch.cmd, t.session) /\ Active(m.session)
         => \/ DispatchActive(m.dispatch)
            \/ m.ack.state = "waiting" /\ m.ack.cmd = x.dispatch.cmd
  BY <1>1, <1>2, StepDispatchMoves DEF Typed
<1>4. \A cmd \in k.wire : CommandCurrent(cmd, t.session)
  BY StepHandshakeWire
<1> HIDE DEF m, k
<1>5. /\ r.session = m.session /\ r.ack = m.ack /\ r.dispatch = m.dispatch
      /\ r.control = m.control /\ r.wire = k.wire \cup m.wire
      /\ r.handshake = IF Active(m.session) THEN t.handshake ELSE NoHandshake
  BY DEF StepFrom, StepSlots, StepDone, r, t, k, m
<1> HIDE DEF r
<1>6. /\ Told(s, r.session, x.control, r.control)
      /\ Watched(r.session, r.handshake)
      /\ \A cmd \in r.wire : OfCurrentCall(cmd, r.session, r.control)
  <2>1. CASE Stays(t.session, m.session) /\ m.control.terminal = t.control.terminal
    <3>1. Told(s, r.session, x.control, r.control)
      BY <1>2, <1>5, <2>1 DEF Told, Stays, Ends, EndsRecorded
    <3>2. \A cmd \in r.wire : OfCurrentCall(cmd, r.session, r.control)
      BY <1>3, <1>4, <1>5, <2>1
         DEF OfCurrentCall, CommandCurrent, CommandFits, Stays, Active
    <3>3. Watched(r.session, r.handshake)
      BY <1>2, <1>5, <2>1 DEF Watched, HandshakeCurrent, Stays, Active
    <3> QED BY <3>1, <3>2, <3>3
  <2>2. CASE /\ Ends(t.session, m.session)
             /\ m.session.peer = t.session.peer
             /\ \E e \in Controls :
                  /\ e.terminal = t.control.terminal
                  /\ m.control = RecordTerminal(e, "local_hangup", e.fault, s.generation)
    <3>1. t.session = s /\ Active(s)
      BY <1>2, <2>2 DEF Ends, Active
    <3>2. /\ EndsRecorded(s, m.control)
          /\ m.control.terminal = [reason |-> "local_hangup", fault |-> m.control.fault,
                                   generation |-> s.generation]
      BY <1>2, <2>2, <3>1, HungTells DEF Typed
    <3>3. Told(s, r.session, x.control, r.control)
      BY <1>5, <2>2, <3>1, <3>2 DEF Told
    <3>4. \A cmd \in r.wire : OfCurrentCall(cmd, r.session, r.control)
      BY <1>3, <1>4, <1>5, <2>2, <3>1, <3>2 DEF OfCurrentCall, CommandCurrent, Ends
    <3>5. Watched(r.session, r.handshake)
      BY <1>5, <2>2 DEF Watched, Ends, Active
    <3> QED BY <3>3, <3>4, <3>5
  <2> QED BY <1>3, <2>1, <2>2
<1>7. Holds(r.session, r.dispatch, r.ack)
  <2>1. r.session.generation = s.generation
    BY <1>2, <1>3, <1>5 DEF Stays, Ends
  <2>2. ASSUME Active(r.session), r.dispatch.cmd = CommandFor("hangup", r.session)
        PROVE  \/ DispatchActive(r.dispatch)
               \/ r.ack.state = "waiting" /\ r.ack.cmd = r.dispatch.cmd
    <3>1. t.session = s /\ Stays(s, r.session) /\ Active(s)
      BY <1>2, <1>3, <1>5, <2>2 DEF Stays, Ends, Active
    <3>2. x.dispatch.cmd = CommandFor("hangup", s)
      BY <1>3, <1>5, <2>2, <3>1 DEF CommandFor, Stays
    <3>3. CommandCurrent(x.dispatch.cmd, s) /\ x.dispatch.cmd.type = "hangup"
      BY <3>1, <3>2 DEF CommandFor, CommandCurrent, CommandFits
    <3>4. CASE DispatchActive(x.dispatch)
      BY <1>3, <1>5, <2>2, <3>1, <3>3, <3>4
    <3>5. CASE ~DispatchActive(x.dispatch)
      <4>1. x.ack.state = "waiting" /\ x.ack.cmd = x.dispatch.cmd
        BY <3>1, <3>2, <3>5 DEF Holds
      <4>2. t.ack = x.ack
        BY <1>2, <3>1, <3>3, <4>1 DEF Waits
      <4> QED BY <1>3, <1>5, <3>5, <4>1, <4>2
    <3> QED BY <3>4, <3>5
  <2> QED BY <1>3, <1>5, <2>1, <2>2 DEF Holds
<1>8. ~Active(s) => ~Active(r.session) /\ r.wire = {}
  <2> SUFFICES ASSUME ~Active(s) PROVE ~Active(r.session) /\ r.wire = {}
    OBVIOUS
  <2>1. t.session = s
    BY <1>2 DEF Ends
  <2>2. \A cmd : ~CommandCurrent(cmd, s)
    BY DEF CommandCurrent, CommandFits, Active
  <2> QED BY <1>3, <1>4, <1>5, <2>1, <2>2 DEF Stays, Ends, Active
<1> QED BY <1>3, <1>5, <1>6, <1>7, <1>8 DEF r

-----------------------------------------------------------------------------
(* The wire, the heartbeat, the hangup and the record, action by action *)

WireInv ==
  /\ CallInv
  /\ Recorded(session, Control)
  /\ phase = "packet" => InTime(ack)
  /\ phase = "poll" => wire = {}
  /\ Holds(session, dispatch, ack)
  /\ WireIsCurrent
  /\ HeartbeatWatches

\* What one step does to the session and the record, and to a hangup that was
\* accepted.
CallTold == Told(session, session', Control, Control')
HangupKept ==
  Active(session) /\ dispatch.cmd = CommandFor("hangup", session)
    => dispatch'.cmd = dispatch.cmd

LEMMA InstallMoves ==
  ASSUME WireInv, CallInv', NEW x, Typed(x), Install(x),
         Told(session, x.session, Control, x.control),
         Holds(x.session, x.dispatch, x.ack),
         phase' = "packet" => InTime(x.ack) /\ Watched(x.session, x.handshake),
         phase' = "poll" => wire' = {},
         \A cmd \in wire' : OfCurrentCall(cmd, x.session, x.control)
  PROVE  WireInv' /\ CallTold
<1>1. /\ session' = x.session /\ dispatch' = x.dispatch /\ ack' = x.ack
      /\ handshake' = x.handshake
      /\ terminal' = x.control.terminal /\ fault' = x.control.fault
  BY DEF Install
<1>2. Control' = x.control
  BY <1>1 DEF Control, Typed, Controls
<1>3. session \in Sessions /\ Control \in Controls
  BY ControlType DEF WireInv, CallInv, TypeOK
<1>4. Recorded(session', Control')
  BY <1>1, <1>2, <1>3, ToldRecorded DEF WireInv
<1>5. WireIsCurrent'
  BY <1>1 DEF WireIsCurrent, OfCurrentCall
<1>6. HeartbeatWatches'
  BY <1>1 DEF HeartbeatWatches, Watched, HandshakeCurrent
<1> QED BY <1>1, <1>2, <1>4, <1>5, <1>6 DEF WireInv, CallTold

\* A step of the daemon that leaves the call alone.
LEMMA StaysMoves ==
  ASSUME WireInv, CallInv', Stays(session, session'), terminal' = terminal,
         phase' = "poll", wire' = {}, Holds(session', dispatch', ack')
  PROVE  WireInv' /\ CallTold
<1>1. Recorded(session', Control')
  BY DEF WireInv, Recorded, Stays, Active, Control
<1>2. WireIsCurrent' /\ HeartbeatWatches'
  BY DEF WireIsCurrent, HeartbeatWatches
<1> QED BY <1>1, <1>2 DEF WireInv, CallTold, Told, Stays, Control

LEMMA AnswerMoves ==
  ASSUME WireInv, CallInv', NEW g \in Generations, Answer(g)
  PROVE  WireInv' /\ CallTold /\ HangupKept
<1>1. dispatch'.cmd = CommandFor("answer", session)
  BY DEF Answer, Queued
<1>2. /\ session' = session /\ ack' = ack /\ terminal' = terminal
      /\ phase' = phase /\ phase = "poll" /\ wire' = wire
      /\ ~SlotBusy
  BY DEF Answer
<1>3. /\ dispatch'.cmd.generation = session.generation
      /\ dispatch'.cmd.type = "answer"
      /\ CommandFor("hangup", session).type = "hangup"
  BY <1>1 DEF CommandFor
<1>4. Holds(session', dispatch', ack')
  BY <1>2, <1>3 DEF Holds, WireInv, CallInv, TypeOK, Sessions, Generations
<1>5. HangupKept
  BY <1>2 DEF HangupKept, WireInv, Holds, SlotBusy
<1> QED BY <1>2, <1>4, <1>5, StaysMoves DEF WireInv, Stays

LEMMA NoPacketMoves ==
  ASSUME WireInv, CallInv', NoPacket
  PROVE  WireInv' /\ CallTold /\ HangupKept
<1>1. /\ session' = session /\ ack' = ack /\ terminal' = terminal
      /\ dispatch' = dispatch /\ phase' = "poll" /\ wire' = {}
  BY DEF NoPacket
<1> QED BY <1>1, StaysMoves DEF WireInv, Stays, HangupKept

LEMMA TickMoves ==
  ASSUME WireInv, CallInv', Tick
  PROVE  WireInv' /\ CallTold /\ HangupKept
<1>1. /\ Stays(session, session')
      /\ dispatch'.state = dispatch.state /\ dispatch'.cmd = dispatch.cmd
      /\ ack'.state = ack.state /\ ack'.cmd = ack.cmd
  BY DEF Tick, WireInv, CallInv, TypeOK, Sessions, Dispatches, Acks, Stays
<1>2. Holds(session', dispatch', ack')
  BY <1>1 DEF WireInv, Holds, Stays, Active, DispatchActive, CommandFor
<1>3. phase' = "poll" /\ wire' = {} /\ terminal' = terminal
  BY DEF Tick
<1> QED BY <1>1, <1>2, <1>3, StaysMoves DEF HangupKept

LEMMA StepMoves ==
  ASSUME WireInv, CallInv', Step
  PROVE  WireInv' /\ CallTold /\ HangupKept
<1> PICK sent1 \in Outcomes(handshakeDispatch), sent2 \in BOOLEAN,
         sent3 \in Outcomes(dispatch) :
      Commit(StepFrom(Struct, sent1, sent2, sent3), "packet")
  BY DEF Step
<1> DEFINE r == StepFrom(Struct, sent1, sent2, sent3)
<1>1. Struct \in Structs
  BY ControlType DEF WireInv, CallInv
<1>2. /\ Struct.session = session /\ Struct.deadline = deadline
      /\ Struct.dispatch = dispatch /\ Struct.ack = ack /\ Struct.control = Control
  BY DEF Struct
<1>3. r.ok
  BY <1>1, <1>2, OutcomesType, StepFromSound DEF WireInv, CallInv
<1>4. Typed(r)
  BY <1>1, OutcomesType, StepFromType
<1>5. /\ Told(session, r.session, Control, r.control)
      /\ InTime(r.ack)
      /\ Watched(r.session, r.handshake)
      /\ Holds(r.session, r.dispatch, r.ack)
      /\ \A cmd \in r.wire : OfCurrentCall(cmd, r.session, r.control)
      /\ r.dispatch.cmd = dispatch.cmd
  BY <1>1, <1>2, OutcomesType, StepFromMoves DEF WireInv, CallInv
<1> HIDE DEF r
<1>6. Install(r) /\ wire' = r.wire /\ phase' = "packet"
  BY <1>3 DEF Commit, r
<1>7. WireInv' /\ CallTold
  BY <1>4, <1>5, <1>6, InstallMoves
<1> QED BY <1>5, <1>6, <1>7 DEF HangupKept, Install

LEMMA LostMoves ==
  ASSUME WireInv
  PROVE  /\ Told(session, Lost.session, Control, Lost.control)
         /\ Lost.dispatch = dispatch /\ Lost.ack = ack
         /\ ~Active(Lost.session)
         /\ Holds(Lost.session, Lost.dispatch, Lost.ack)
<1>1. /\ session \in Sessions /\ Control \in Controls
      /\ Recorded(session, Control) /\ Holds(session, dispatch, ack)
  BY ControlType DEF WireInv, CallInv, TypeOK
<1>2. /\ Lost.session = Abort(session) /\ Lost.dispatch = dispatch /\ Lost.ack = ack
      /\ Lost.control = IF Active(session)
                        THEN RecordTerminal(Control, "unknown", "none",
                                            session.generation)
                        ELSE Control
  BY DEF Lost, Struct
<1>3. ~Active(Lost.session)
  BY <1>1, <1>2, EndedSound
<1>4. CASE Active(session)
  <2>1. Ends(session, Lost.session)
    BY <1>1, <1>2, <1>4, EndedEnds
  <2>2. EndsRecorded(session, Lost.control)
    BY <1>1, <1>2, <1>4, RecordedUnended, RecordTerminalFirst DEF EndsRecorded, EndReasons
  <2>3. Lost.session.generation = session.generation
    BY <2>1 DEF Ends
  <2> QED BY <1>1, <1>2, <1>3, <2>1, <2>2, <2>3 DEF Told, Holds
<1>5. CASE ~Active(session)
  BY <1>1, <1>2, <1>3, <1>5, EndedEnds DEF Told, Holds
<1> QED BY <1>2, <1>3, <1>4, <1>5

LEMMA CaptureLostMoves ==
  ASSUME WireInv, CallInv', CaptureLost
  PROVE  WireInv' /\ CallTold /\ HangupKept
<1> PICK sent1 \in Outcomes(handshakeDispatch), sent2 \in BOOLEAN,
         sent3 \in Outcomes(dispatch) :
      Commit(StepFrom(Lost, sent1, sent2, sent3), "poll")
  BY DEF CaptureLost
<1> DEFINE r == StepFrom(Lost, sent1, sent2, sent3)
<1>1. Lost \in Structs
  BY LostType DEF WireInv, CallInv
<1>2. /\ Told(session, Lost.session, Control, Lost.control)
      /\ Lost.dispatch = dispatch /\ Lost.ack = ack
      /\ ~Active(Lost.session)
      /\ Holds(Lost.session, Lost.dispatch, Lost.ack)
  BY LostMoves
<1>3. Recorded(Lost.session, Lost.control)
  BY <1>2, ToldRecorded, ControlType DEF WireInv, CallInv, TypeOK
<1>4. Sound(Lost.session, Lost.deadline) /\ Exclusive(Lost.dispatch, Lost.ack)
  BY <1>2 DEF Sound, WireInv, CallInv
<1>5. r.ok
  BY <1>1, <1>4, OutcomesType, StepFromSound
<1>6. Typed(r)
  BY <1>1, OutcomesType, StepFromType
<1>7. /\ Told(Lost.session, r.session, Lost.control, r.control)
      /\ InTime(r.ack)
      /\ Holds(r.session, r.dispatch, r.ack)
      /\ r.dispatch.cmd = Lost.dispatch.cmd
      /\ ~Active(r.session) /\ r.wire = {}
  BY <1>1, <1>2, <1>3, <1>4, OutcomesType, StepFromMoves
<1>8. Told(session, r.session, Control, r.control)
  <2>1. /\ r.session.state = Lost.session.state
        /\ r.session.generation = Lost.session.generation
        /\ r.control.terminal = Lost.control.terminal
    BY <1>2, <1>7 DEF Told, Ends, Establishes, Begins, TakesOver, Active
  <2> QED BY <1>2, <2>1 DEF Told, Ends, EndsRecorded, Establishes, Begins, TakesOver, Active
<1> HIDE DEF r
<1>9. Install(r) /\ wire' = r.wire /\ phase' = "poll"
  BY <1>5 DEF Commit, r
<1>10. WireInv' /\ CallTold
  BY <1>6, <1>7, <1>8, <1>9, InstallMoves
<1> QED BY <1>2, <1>7, <1>9, <1>10 DEF HangupKept, Install

\* A hangup that waits for its acknowledgement goes on waiting, unless the frame
\* ends the call.
LEMMA RuntimeReceiveWaits ==
  ASSUME NEW a \in Acks, InTime(a), a.state = "waiting", a.cmd.type = "hangup",
         NEW f, NEW s \in Sessions, NEW d, CommandCurrent(a.cmd, s),
         RuntimeReceive(a, f, s, d).ok,
         CommandCurrent(a.cmd, RuntimeReceive(a, f, s, d).session)
  PROVE  RuntimeReceive(a, f, s, d).ack = a
<1>1. a.left # 0
  BY DEF InTime, Acks
<1>2. \A t : CommandCurrent(a.cmd, t) => AckTick(a, t) = a
  BY <1>1 DEF AckTick
<1>3. AckTick(a, s) = a /\ HangupOver(a, a) = FALSE
  BY <1>2 DEF HangupOver
<1>4. ~CommandCurrent(a.cmd, Abort(s))
  BY EndedSound, CurrentHangup
<1> DEFINE r == ReceiveDatagram(f, s, d)
<1> HIDE DEF r
<1>5. RuntimeReceive(a, f, s, d).session \in {s, Abort(s), r.session}
  BY <1>3 DEF RuntimeReceive, r
<1>6. CASE ExpectedAck(a, f)
  BY <1>3, <1>4, <1>6 DEF RuntimeReceive
<1>7. CASE ~ExpectedAck(a, f)
  <2>1. CASE r.ok
    <3>1. /\ RuntimeReceive(a, f, s, d).session = r.session
          /\ RuntimeReceive(a, f, s, d).ack = AckTick(a, r.session)
      BY <1>3, <1>7, <2>1 DEF RuntimeReceive, r
    <3> QED BY <1>2, <3>1
  <2>2. CASE ~r.ok
    BY <1>3, <1>7, <2>2 DEF RuntimeReceive, r
  <2> QED BY <2>1, <2>2
<1> QED BY <1>6, <1>7

LEMMA ReceiveMoves ==
  ASSUME WireInv, CallInv', Receive
  PROVE  WireInv' /\ CallTold /\ HangupKept
<1> PICK f \in Frames : ReceiveFrom(Struct, f).ok /\ Install(ReceiveFrom(Struct, f).to)
  BY DEF Receive
<1> DEFINE y == ReceiveFrom(Struct, f).to
           r == RuntimeReceive(ack, f, session, deadline)
<1>1. phase = "packet" /\ phase' = "poll" /\ wire' = {} /\ InTime(ack)
  BY DEF Receive, WireInv
<1>2. Struct \in Structs /\ Framed(f) /\ session \in Sessions /\ Control \in Controls
      /\ ack \in Acks /\ deadline \in Deadlines
  BY ControlType, FramesFramed DEF WireInv, CallInv, TypeOK
<1>3. /\ Struct.session = session /\ Struct.deadline = deadline
      /\ Struct.dispatch = dispatch /\ Struct.ack = ack /\ Struct.control = Control
  BY DEF Struct
<1>4. Typed(y)
  BY <1>2, ReceiveHeartbeatType, ReceiveControlType, StructsTyped DEF ReceiveFrom
<1>5. /\ Told(session, y.session, Control, y.control)
      /\ Holds(y.session, y.dispatch, y.ack)
      /\ y.dispatch = dispatch
  <2>1. CASE f.kind \in {"ask", "reply"}
    <3>1. /\ y.session = session /\ y.control = Control
          /\ y.dispatch = dispatch /\ y.ack = ack
      BY <1>3, <2>1 DEF ReceiveFrom, ReceiveHeartbeat, Struct
    <3> QED BY <3>1 DEF Told, WireInv
  <2>2. CASE f.kind \notin {"ask", "reply"}
    <3>1. /\ y.session = r.session /\ y.dispatch = dispatch /\ y.ack = r.ack
          /\ y.control = Classify(Control, session, r.session, r.flags, FALSE, r.expired)
          /\ r.ok
      BY <1>3, <2>2 DEF ReceiveFrom, ReceiveControl, ControlReceived, Struct
    <3>2. Moved(session, r.session, r.flags) /\ r.expired = FALSE
      BY <1>1, <1>2, RuntimeReceiveMoves DEF WireInv, Recorded
    <3>3. r.session \in Sessions
      BY <1>2, RuntimeReceiveType
    <3>4. ASSUME ack.state = "waiting", ack.cmd.type = "hangup",
                 CommandCurrent(ack.cmd, session), CommandCurrent(ack.cmd, r.session)
          PROVE  r.ack = ack
      BY <1>1, <1>2, <3>1, <3>4, RuntimeReceiveWaits
    <3> HIDE DEF r
    <3>5. Told(session, y.session, Control, y.control)
      BY <1>2, <3>1, <3>2, ClassifyTells DEF WireInv
    <3>6. session.generation \in Nat /\ r.session.generation \in Nat
          /\ session.generation <= r.session.generation
          /\ dispatch.cmd.generation \in Nat
      BY <1>2, <3>2, <3>3 DEF Moved, Stays, Ends, Establishes, Begins, TakesOver,
            Sessions, Generations, WireInv, CallInv, TypeOK, Dispatches, Commands
    <3>7. ASSUME Active(r.session), dispatch.cmd = CommandFor("hangup", r.session)
          PROVE  \/ DispatchActive(dispatch)
                 \/ r.ack.state = "waiting" /\ r.ack.cmd = dispatch.cmd
      <4>1. dispatch.cmd.generation = r.session.generation
        BY <3>7 DEF CommandFor
      <4>2. r.session.generation = session.generation
        BY <3>6, <4>1 DEF WireInv, Holds
      <4>3. Stays(session, r.session) \/ Establishes(session, r.session)
        BY <1>2, <3>2, <3>7, <4>2
           DEF Moved, Ends, Begins, TakesOver, Active, Sessions, Generations
      <4>4. Active(session) /\ dispatch.cmd = CommandFor("hangup", session)
        BY <3>7, <4>3 DEF Stays, Establishes, Active, CommandFor
      <4>5. CASE DispatchActive(dispatch)
        BY <4>5
      <4>6. CASE ack.state = "waiting" /\ ack.cmd = dispatch.cmd
        BY <3>4, <3>7, <4>4, <4>6 DEF CommandFor, CommandCurrent, CommandFits
      <4> QED BY <4>4, <4>5, <4>6 DEF WireInv, Holds
    <3>8. Holds(y.session, y.dispatch, y.ack)
      BY <3>1, <3>6, <3>7 DEF Holds, WireInv
    <3> QED BY <3>1, <3>5, <3>8
  <2> QED BY <2>1, <2>2
<1> HIDE DEF y
<1>6. Install(y)
  BY DEF y
<1>7. WireInv' /\ CallTold
  BY <1>1, <1>4, <1>5, <1>6, InstallMoves
<1> QED BY <1>5, <1>6, <1>7 DEF HangupKept, Install

LEMMA HangupFromMoves ==
  ASSUME WireInv, Active(session)
  PROVE  LET y == HangupFrom(Struct, session.generation)
         IN /\ Told(session, y.session, Control, y.control)
            /\ Holds(y.session, y.dispatch, y.ack)
            /\ dispatch.cmd = CommandFor("hangup", session) => y.dispatch.cmd = dispatch.cmd
<1> DEFINE g == session.generation
           d == Superseded(dispatch, g)
           a == AckSuperseded(ack, g)
           free == ~DispatchActive(d) /\ a.state # "waiting"
           c == [fault |-> "dispatch_failed",
                 terminal |-> [reason |-> "local_hangup", fault |-> "dispatch_failed",
                               generation |-> g]]
           y == HangupFrom(Struct, g)
<1>1. session \in Sessions /\ dispatch \in Dispatches
  BY DEF WireInv, CallInv, TypeOK
<1>2. d.cmd = dispatch.cmd
  BY <1>1 DEF Superseded, Finish, Dispatches
<1>3. Ends(session, Abort(session))
  BY <1>1, EndedEnds
<1>4. EndsRecorded(session, c)
  BY DEF EndsRecorded, EndReasons
<1>5. /\ y.session = IF free THEN session ELSE Abort(session)
      /\ y.dispatch = IF free THEN Queued(CommandFor("hangup", session)) ELSE d
      /\ y.control = IF free THEN Control ELSE c
  BY DEF HangupFrom, Struct
<1>6. /\ Queued(CommandFor("hangup", session)).cmd = CommandFor("hangup", session)
      /\ DispatchActive(Queued(CommandFor("hangup", session)))
      /\ CommandFor("hangup", session).generation = g
  BY DEF Queued, DispatchActive, CommandFor
<1> HIDE DEF d, a, c, y, free
<1>7. CASE free
  <2>1. Holds(y.session, y.dispatch, y.ack)
    BY <1>1, <1>5, <1>6, <1>7 DEF Holds, Sessions, Generations
  <2>2. Told(session, y.session, Control, y.control)
    BY <1>5, <1>7 DEF Told
  <2> QED BY <1>5, <1>6, <1>7, <2>1, <2>2 DEF y
<1>8. CASE ~free
  <2>1. Told(session, y.session, Control, y.control)
    BY <1>3, <1>4, <1>5, <1>8 DEF Told
  <2>2. ~Active(y.session) /\ y.session.generation = session.generation
    BY <1>3, <1>5, <1>8 DEF Ends, Active
  <2>3. Holds(y.session, y.dispatch, y.ack)
    BY <1>2, <1>5, <1>8, <2>2 DEF Holds, WireInv
  <2> QED BY <1>2, <1>5, <1>8, <2>1, <2>3 DEF y
<1> QED BY <1>7, <1>8

LEMMA HangupMoves ==
  ASSUME WireInv, CallInv', NEW g \in Generations, Hangup(g)
  PROVE  WireInv' /\ CallTold /\ HangupKept
<1> DEFINE y == HangupFrom(Struct, session.generation)
<1>1. /\ phase = "poll" /\ phase' = "poll" /\ wire' = wire /\ wire = {}
      /\ Active(session) /\ Install(y) /\ session.generation \in Generations
  BY DEF Hangup, WireInv
<1>2. Typed(y)
  BY <1>1, ControlType, HangupFromType, StructsTyped DEF WireInv, CallInv
<1>3. /\ Told(session, y.session, Control, y.control)
      /\ Holds(y.session, y.dispatch, y.ack)
      /\ dispatch.cmd = CommandFor("hangup", session) => y.dispatch.cmd = dispatch.cmd
  BY <1>1, HangupFromMoves
<1> HIDE DEF y
<1>4. WireInv' /\ CallTold
  BY <1>1, <1>2, <1>3, InstallMoves
<1> QED BY <1>1, <1>3, <1>4 DEF HangupKept, Install

LEMMA NextMoves ==
  WireInv /\ [Next]_vars => WireInv' /\ CallTold /\ HangupKept
<1> SUFFICES ASSUME WireInv, [Next]_vars PROVE WireInv' /\ CallTold /\ HangupKept
  OBVIOUS
<1>1. CallInv'
  BY NextSound DEF WireInv
<1>2. CASE \E g \in Generations : Answer(g) \/ Hangup(g)
  BY <1>1, <1>2, AnswerMoves, HangupMoves
<1>3. CASE Step
  BY <1>1, <1>3, StepMoves
<1>4. CASE Receive
  BY <1>1, <1>4, ReceiveMoves
<1>5. CASE NoPacket
  BY <1>1, <1>5, NoPacketMoves
<1>6. CASE CaptureLost
  BY <1>1, <1>6, CaptureLostMoves
<1>7. CASE Tick
  BY <1>1, <1>7, TickMoves
<1>8. CASE UNCHANGED vars
  <2>1. WireInv'
    BY <1>1, <1>8 DEF vars, WireInv, Recorded, Holds, WireIsCurrent, HeartbeatWatches,
                      Control, InTime
  <2> QED BY <1>8, <2>1 DEF vars, CallTold, Told, HangupKept, Control
<1> QED BY <1>2, <1>3, <1>4, <1>5, <1>6, <1>7, <1>8 DEF Next

LEMMA InitMoves == Init => WireInv
<1> SUFFICES ASSUME Init PROVE WireInv
  OBVIOUS
<1>1. session = InitSession /\ ~Active(session) /\ session.generation = 0
      /\ session.state # "preview"
  BY DEF Init, InitSession, Active
<1>2. Recorded(session, Control)
  BY <1>1 DEF Init, Recorded, Control
<1>3. Holds(session, dispatch, ack)
  BY <1>1 DEF Init, Holds, EmptyDispatch, NoCommand
<1> QED BY <1>1, <1>2, <1>3, InitSound
        DEF Init, WireInv, WireIsCurrent, HeartbeatWatches

\* The second inductive invariant of call control: beyond CallInv, the record is of
\* an earlier call while one is active, an acknowledgement has time left when a
\* packet is handled, and an accepted hangup holds its slot.
THEOREM WireInvariant == Spec => []WireInv
BY InitMoves, NextMoves, PTL DEF Spec

\* Whatever the step hands to the transport belongs to the call that is current
\* once the timers of the same step have fired; only an undeliverable hangup ends
\* the call it was sent for, and the record then says so.
THEOREM WireStaysCurrent == Spec => []WireIsCurrent
<1>1. WireInv => WireIsCurrent
  BY DEF WireInv
<1> QED BY <1>1, WireInvariant, PTL

\* After every step the heartbeat watches the current call and no other, also
\* when that call preempted its predecessor since the step before.
THEOREM HeartbeatFollows == Spec => []HeartbeatWatches
<1>1. WireInv => HeartbeatWatches
  BY DEF WireInv
<1> QED BY <1>1, WireInvariant, PTL

\* A hangup accepted from one client is never replaced in the command slot by an
\* answer from another while its call lasts.
THEOREM HangupStays == Spec => HangupIsFinal
<1>1. WireInv /\ [Next]_vars =>
        [Active(session) /\ dispatch.cmd = CommandFor("hangup", session)
           => \/ dispatch'.cmd = dispatch.cmd
              \/ ~Active(session')
              \/ session'.generation # session.generation]_vars
  BY NextMoves DEF HangupKept
<1> QED BY <1>1, WireInvariant, PTL DEF Spec, HangupIsFinal

\* A step of the daemon is one step of the lifecycle that its clients see, or
\* none.
LEMMA ToldImplements ==
  ASSUME WireInv, WireInv', CallTold
  PROVE  [Lifecycle!Next]_(Lifecycle!vars)
<1> DEFINE last == [generation |-> terminal.generation, reason |-> terminal.reason]
<1>1. /\ Control.terminal = terminal /\ Control'.terminal = terminal'
      /\ Active(session) => session.state \in {"ringing", "talking"}
  BY DEF Control, WireInv, Recorded, Active
<1>2. CASE /\ session'.state = session.state
           /\ session'.generation = session.generation
           /\ terminal' = terminal
  BY <1>2 DEF Lifecycle!vars
<1>3. CASE Ends(session, session') /\ EndsRecorded(session, Control')
  <2>1. last' = [generation |-> session.generation, reason |-> terminal'.reason]
    BY <1>1, <1>3 DEF EndsRecorded
  <2>2. terminal'.reason \in EndReasons \ {"none", "preempted"}
    BY <1>1, <1>3 DEF EndsRecorded
  <2>3. Lifecycle!Finish(terminal'.reason)
    BY <1>1, <1>3, <2>1 DEF Lifecycle!Finish, Lifecycle!InCall, Ends
  <2> QED BY <2>2, <2>3 DEF Lifecycle!Next
<1>4. CASE Establishes(session, session') /\ terminal' = terminal
  BY <1>4 DEF Lifecycle!Next, Lifecycle!Establish, Establishes
<1>5. CASE Begins(session, session') /\ terminal' = terminal
  BY <1>5 DEF Lifecycle!Next, Lifecycle!Begin, Lifecycle!InCall, Begins, Active
<1>6. CASE /\ TakesOver(session, session')
           /\ terminal'.generation = session.generation
           /\ terminal'.reason = "preempted"
  BY <1>6 DEF Lifecycle!Next, Lifecycle!TakeOver, TakesOver
<1> QED BY <1>1, <1>2, <1>3, <1>4, <1>5, <1>6 DEF CallTold, Told

\* Call control implements the lifecycle its clients rely on: calls follow one
\* another with numbers of their own, a call rings before it talks, ends at most
\* once, and the record then names exactly that call and a reason.
THEOREM LifecycleImplemented == Spec => ImplementsLifecycle
<1>1. Init => Lifecycle!Init
  BY DEF Init, InitSession, Lifecycle!Init
<1>2. WireInv /\ [Next]_vars => [Lifecycle!Next]_(Lifecycle!vars)
  BY NextMoves, ToldImplements
<1> QED BY <1>1, <1>2, WireInvariant, PTL DEF Spec, ImplementsLifecycle, Lifecycle!Spec
=============================================================================
