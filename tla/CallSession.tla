---------------------------- MODULE CallSession ----------------------------
(***************************************************************************)
(* The call session of the daemon and the deadline that bounds it, as the  *)
(* C code passes them around: two structs that gvs_session.c, gvs_deadline.c *)
(* gvs_observer.c and gvs_receive.c read and update.  The operators return *)
(* the updated structs; the modules that own the variables compose them.   *)
(*                                                                         *)
(* Time is relative.  Every (started, timeout) pair and every deadline of  *)
(* the code is the number of clock ticks left, 0 meaning "reached": the    *)
(* monotonic clock makes "now - started < timeout" the same as "left > 0". *)
(***************************************************************************)
EXTENDS Integers

CONSTANTS
  Stations,       \* logical addresses that can call: door stations, extensions
  Local,          \* the identity the daemon was configured with
  Household,      \* addresses that share the first five bytes with Local
  NoPeer,         \* the all-zero address of a session that never started
  Category,       \* the call category of a peer's address, -1 when unsupported
  MaxGeneration,  \* stands for UINT64_MAX, where the code stops counting calls
  RingTimeout,    \* DF_GVS_RING_TIMEOUT_MS
  TalkTimeout,    \* DF_GVS_TALK_TIMEOUT_MS
  PickTimeout     \* DF_GVS_PICK_TIMEOUT_MS

ASSUME SessionAssumption ==
  /\ Local \notin Stations
  /\ NoPeer \notin Stations \cup {Local}
  /\ Local \in Household
  /\ NoPeer \notin Household
  /\ Category \in [Stations -> {-1, 0, 1, 3, 4, 7}]
  /\ MaxGeneration \in Nat \ {0}
  /\ RingTimeout \in Nat \ {0}
  /\ TalkTimeout \in Nat \ {0}
  /\ PickTimeout \in Nat \ {0}

Generations == 0 .. MaxGeneration
Peers == Stations \cup {NoPeer}

SessionStates == {"idle", "preview", "ringing", "talking", "ended"}
Sessions == [state      : SessionStates,
             peer       : Peers,
             generation : Generations,
             pickGen    : Generations,
             pickLeft   : Nat]
Deadlines == [armed : BOOLEAN, generation : Generations, left : Nat]

InitSession == [state |-> "idle", peer |-> NoPeer, generation |-> 0,
                pickGen |-> 0, pickLeft |-> 0]

Min0(n) == IF n = 0 THEN 0 ELSE n - 1

Active(s) == s.state \in {"preview", "ringing", "talking"}

(* Every way a session ends leaves it in this state: a hangup, the deadline, *)
(* an abort.  The abort also clears the pick window's times, which nothing   *)
(* reads once pick_generation is 0.                                          *)
Ended(s) == [s EXCEPT !.state = "ended", !.pickGen = 0, !.pickLeft = 0]

Abort(s) == IF Active(s) THEN Ended(s) ELSE s

-----------------------------------------------------------------------------
(* The deadline *)

Disarmed == [armed |-> FALSE, generation |-> 0, left |-> 0]

Arm(s, timeout) == [armed |-> TRUE, generation |-> s.generation, left |-> timeout]

DeadlineCurrent(d, s) == d.armed /\ d.generation = s.generation /\ Active(s)
DeadlineReached(d, s) == DeadlineCurrent(d, s) /\ d.left = 0

\* A deadline armed for another generation or for a finished call is dropped,
\* never applied.
DeadlineTick(d, s) ==
  [session  |-> IF DeadlineReached(d, s) THEN Ended(s) ELSE s,
   deadline |-> IF DeadlineCurrent(d, s) /\ d.left > 0 THEN d ELSE Disarmed,
   timedOut |-> DeadlineReached(d, s)]

-----------------------------------------------------------------------------
(* Preemption *)

PriorityRank(category) ==
  IF category \in {0, 1, 7} THEN 2
  ELSE IF category = 3 THEN 1
  ELSE IF category = 4 THEN 0
  ELSE -1

Preempts(incoming, current) ==
  LET in  == PriorityRank(Category[incoming])
      cur == PriorityRank(Category[current])
  IN cur >= 0 /\ in > cur

\* A call that starts: a fresh generation, no pick window.
Start(s, peer, state) ==
  [state |-> state, peer |-> peer, generation |-> s.generation + 1,
   pickGen |-> 0, pickLeft |-> 0]

-----------------------------------------------------------------------------
(* Receiving a datagram *)

NoFlags == [ended |-> FALSE, local |-> FALSE, timedOut |-> FALSE,
            preempted |-> FALSE]

Received(s, d, flags) ==
  [ok |-> TRUE, session |-> s, deadline |-> d, flags |-> flags]
Refused(s, d) ==
  [ok |-> FALSE, session |-> s, deadline |-> d, flags |-> NoFlags]

\* Broken on purpose: the deadline goes even when the hangup is not this call's.
ReceiveHangupDisarming(f, s, d) ==
  IF Active(s) /\ f.src = s.peer /\ f.dst \in Household
  THEN Received(Ended(s), Disarmed, [NoFlags EXCEPT !.ended = TRUE])
  ELSE Received(s, Disarmed, NoFlags)

ReceiveHangup(f, s, d) ==
  LET inbound  == f.src = s.peer /\ f.dst \in Household
      outbound == f.src = Local /\ f.dst = s.peer
  IN IF (inbound \/ outbound) /\ Active(s)
     THEN Received(Ended(s), Disarmed,
                   [NoFlags EXCEPT !.ended = TRUE, !.local = outbound])
     ELSE Received(s, d, NoFlags)

\* 03/57 carries the seconds the peer still grants; 0 ends the call at once.
ReceiveTimeSync(f, s, d) ==
  LET limit == IF s.state = "talking" THEN TalkTimeout ELSE RingTimeout
      t     == DeadlineTick(Arm(s, f.left), s)
  IN IF /\ s.state \in {"talking", "ringing"}
        /\ f.src = s.peer
        /\ f.dst = Local
        /\ f.left <= limit
     THEN Received(t.session, t.deadline, [NoFlags EXCEPT !.timedOut = t.timedOut])
     ELSE Received(s, d, NoFlags)

CanPick(s) == s.state \in {"ringing", "preview"} /\ s.generation # 0

\* 03/03 from the local identity opens the window in which the peer's 03/83
\* establishes the call.  A retransmission does not extend it.
ReceivePick(f, s, d) ==
  IF CanPick(s) /\ f.src = Local /\ f.dst = s.peer /\ s.pickGen # s.generation
  THEN Received([s EXCEPT !.pickGen = s.generation, !.pickLeft = PickTimeout],
                d, NoFlags)
  ELSE Received(s, d, NoFlags)

ReceivePickAck(f, s, d) ==
  LET expected == /\ CanPick(s)
                  /\ f.src = s.peer
                  /\ f.dst = Local
                  /\ s.pickGen = s.generation
      talking  == [s EXCEPT !.state = "talking", !.pickGen = 0, !.pickLeft = 0]
  IN IF ~expected THEN Received(s, d, NoFlags)
     ELSE IF s.pickLeft = 0
     THEN Received([s EXCEPT !.pickGen = 0], d, NoFlags)
     ELSE Received(talking, Arm(talking, TalkTimeout), NoFlags)

\* The retransmitted 03/01 of the call that is ringing keeps its deadline.
ReceiveCall(f, s, d) ==
  LET next == Start(s, f.src, "ringing")
  IN IF f.dst \notin Household THEN Received(s, d, NoFlags)
     ELSE IF s.state = "ringing" /\ s.peer # f.src
     THEN IF Preempts(f.src, s.peer) /\ s.generation < MaxGeneration
          THEN Received(next, Arm(next, RingTimeout),
                        [NoFlags EXCEPT !.ended = TRUE, !.preempted = TRUE])
          ELSE Refused(s, d)
     ELSE IF ~Active(s) /\ s.generation < MaxGeneration
     THEN Received(next, Arm(next, RingTimeout), NoFlags)
     ELSE IF s.state = "ringing" THEN Received(s, d, NoFlags)
     ELSE Refused(s, d)

\* Any other well-formed control frame leaves the session alone.
ReceiveDatagram(f, s, d) ==
  IF f.kind = "hangup" THEN ReceiveHangup(f, s, d)
  ELSE IF f.kind = "timeSync" THEN ReceiveTimeSync(f, s, d)
  ELSE IF f.kind = "pick" THEN ReceivePick(f, s, d)
  ELSE IF f.kind = "pickAck" THEN ReceivePickAck(f, s, d)
  ELSE IF f.kind = "call" THEN ReceiveCall(f, s, d)
  ELSE Received(s, d, NoFlags)
=============================================================================
