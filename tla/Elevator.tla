------------------------------ MODULE Elevator ------------------------------
(***************************************************************************)
(* Calling the lift: a request of a user over ubus, or the automatic one   *)
(* of an accepted call, sent at most twice (gvs_elevator_control.c), the   *)
(* periodic query of the lift's position (gvs_elevator_query.c,            *)
(* gvs_elevator.c), and the turns of the main loop that drive them         *)
(* (runtime_service.c, runtime_ubus.c).                                    *)
(*                                                                         *)
(* Two clocks matter.  A turn of the loop works with the time it began at; *)
(* when it waits between two replies it serves ubus with the time that has *)
(* come meanwhile, and goes on with its own, older one.  A request keeps   *)
(* the direction in its frame only; the identity of the house is fixed, so *)
(* that no request is cancelled for another identity.                      *)
(***************************************************************************)
EXTENDS Integers, Sequences, FiniteSets

CONSTANTS RetryDelay,     \* DF_GVS_ELEVATOR_RETRY_DELAY_MS
          Deadline,       \* DF_GVS_ELEVATOR_DEADLINE_MS
          QueryInterval,  \* DF_GVS_ELEVATOR_QUERY_INTERVAL_MS
          MaxEntries,     \* DF_GVS_ELEVATOR_MAX_ENTRIES
          Payloads,       \* what a status frame of the lift may carry
          MaxTime,        \* bound: the clock
          MaxAnswers,     \* bound: answers under way, more are lost
          MaxCalls        \* bound: calls of one behaviour

ASSUME ElevatorAssumption ==
    /\ {RetryDelay, Deadline, QueryInterval} \subseteq Nat \ {0}
    /\ {MaxTime, MaxAnswers, MaxCalls} \subseteq Nat
    /\ RetryDelay < Deadline

VARIABLES clock, now,  \* the time, and the one this turn works with
          served,      \* service->last_now_ms
          handled,     \* this turn has dealt with its packet
          stopped,     \* a tick failed and the daemon has ended
          lift,        \* the control of the request
          nextQuery,   \* when the position is asked for next
          status,      \* the last position heard: when, and what
          gen,         \* the generation of the call session
          auto,        \* auto_elevator_generation
          answers,     \* answers of the lift that are under way
          frames,      \* how often the last request was sent
          automatic    \* the automatic requests for the session's generation

liftVars == <<clock, now, served, handled, stopped, lift, nextQuery, status,
              gen, auto, answers, frames, automatic>>

LiftStates == {"idle", "waiting", "protocol_completed", "expired",
               "send_failed"}

Lifts == [state : LiftStates, last : 0..MaxTime, send : Nat, deadline : Nat,
          attempts : 0..2, sends : 0..2]

LiftTypeOK ==
    /\ clock \in 0..MaxTime /\ now \in 0..clock /\ served \in now..clock
    /\ handled \in BOOLEAN /\ stopped \in BOOLEAN
    /\ lift \in Lifts
    /\ nextQuery \in Nat /\ status.valid \in BOOLEAN /\ status.at \in 0..MaxTime
    /\ gen \in 0..MaxCalls /\ auto \in 0..gen /\ answers \in 0..MaxAnswers
    /\ frames \in Nat /\ automatic \in Nat

LiftInit ==
    /\ clock = 0 /\ now = 0 /\ served = 0 /\ handled = TRUE
    /\ stopped = FALSE
    /\ lift = [state |-> "idle", last |-> 0, send |-> 0, deadline |-> 0,
               attempts |-> 0, sends |-> 0]
    /\ nextQuery = 0
    /\ status = [valid |-> FALSE, at |-> 0, entries |-> <<>>]
    /\ gen = 0 /\ auto = 0 /\ answers = 0 /\ frames = 0 /\ automatic = 0

-----------------------------------------------------------------------------
(* What the frames say.                                                    *)

\* The storey of an address, two decimal digits in a byte; -1 if it is none.
Bcd(byte) ==
    LET high == byte \div 16
        low  == byte % 16
    IN  IF high > 9 \/ low > 9 THEN -1 ELSE high * 10 + low

\* The storey of the lift: the byte is read as a signed one and taken apart.
Floor(byte) ==
    LET raw == IF byte < 128 THEN byte ELSE byte - 256
    IN  IF raw < 0 THEN -(raw + 128) ELSE raw

\* The address' digits and the lift's sign and magnitude come out as meant.
ASSUME FloorsAsMeant ==
    /\ \A n \in 0..99 : Bcd(16 * (n \div 10) + (n % 10)) = n
    /\ \A m \in 0..127 : Floor(m) = m /\ Floor(128 + m) = -m

Motion(state) ==
    CASE state = 0 -> "fault" [] state = 1 -> "moving_up"
      [] state = 2 -> "moving_down" [] state = 3 -> "stopped"
      [] OTHER -> "other"

\* A status is a count and that many pairs of bytes, the rest an extension.
Valid(payload) ==
    /\ Len(payload) >= 1 /\ payload[1] <= MaxEntries
    /\ Len(payload) >= 1 + 2 * payload[1]

Entries(payload) ==
    [i \in 1..payload[1] |-> [floor |-> Floor(payload[2 * i]),
                              motion |-> Motion(payload[2 * i + 1])]]

-----------------------------------------------------------------------------
(* One request, numbered by the runtime for its user only.  r is           *)
(* [lift, answers, frames].                                                *)

Request == [lift |-> lift, answers |-> answers, frames |-> frames]

BecomeOf(r) ==
    lift' = r.lift /\ answers' = r.answers /\ frames' = r.frames

Finish(l, state) == [l EXCEPT !.state = state, !.send = 0, !.deadline = 0]

\* A frame of request l is handed to the socket; one that was sent may be
\* answered.
Sent(l, r, sofar, ok) ==
    [lift    |-> [l EXCEPT !.sends = IF ok THEN @ + 1 ELSE @],
     answers |-> IF ok /\ r.answers < MaxAnswers THEN r.answers + 1
                 ELSE r.answers,
     frames  |-> sofar + 1]

\* df_runtime_ubus_call_elevator at time t: refused while one is waiting.
Accepts(r, t) == r.lift.state # "waiting" /\ t >= r.lift.last

First(t) == [state |-> "waiting", last |-> t, send |-> t + RetryDelay,
             deadline |-> t + Deadline, attempts |-> 1, sends |-> 0]

Submitted(r, t) == {Sent(First(t), r, 0, ok) : ok \in BOOLEAN}

\* The user asks or does not while ubus is served at time t.
Asked(t) ==
    {Request} \cup (IF Accepts(Request, t) THEN Submitted(Request, t) ELSE {})

\* The second frame: the request has failed if neither was sent.
Again(l, r, ok) ==
    LET n == Sent([l EXCEPT !.attempts = 2], r, r.frames, ok)
    IN  IF n.lift.sends = 0
        THEN [n EXCEPT !.lift = Finish(n.lift, "send_failed")] ELSE n

\* df_gvs_elevator_control_tick: the deadline, or the second frame.
Ticked(r, t) ==
    LET l == [r.lift EXCEPT !.last = t]
    IN  IF l.state # "waiting" THEN {[r EXCEPT !.lift = l]}
        ELSE IF t >= l.deadline
        THEN {[r EXCEPT !.lift = Finish(l, "expired")]}
        ELSE IF l.attempts = 1 /\ t >= l.send
        THEN {Again(l, r, ok) : ok \in BOOLEAN}
        ELSE {[r EXCEPT !.lift = l]}

-----------------------------------------------------------------------------
(* The main loop.                                                          *)

\* df_gvs_elevator_query_tick: the position is asked for, sent or not.
NextQuery(t) == IF t >= nextQuery THEN t + QueryInterval ELSE nextQuery

\* A turn begins: ubus is served, then the control and the query tick.  A
\* tick at a time before the control's last one ends the daemon.
Turn ==
    /\ \E t \in clock..(clock + Deadline) :
          /\ t <= MaxTime
          /\ clock' = t /\ now' = t /\ served' = t /\ handled' = FALSE
          /\ \E r \in Asked(t) :
                IF t < r.lift.last
                THEN stopped' = TRUE /\ BecomeOf(r)
                ELSE stopped' = FALSE /\ \E n \in Ticked(r, t) : BecomeOf(n)
          /\ nextQuery' = NextQuery(t)
    /\ UNCHANGED <<status, gen, auto, automatic>>

\* The turn waits between two replies and serves ubus meanwhile.
Wait ==
    /\ ~handled /\ clock < MaxTime
    /\ clock' = clock + 1 /\ served' = clock + 1
    /\ \E r \in Asked(clock + 1) : BecomeOf(r)
    /\ UNCHANGED <<now, handled, stopped, nextQuery, status, gen, auto,
                   automatic>>

\* An answer of the lift: it names no request, so one that comes late counts
\* for the request that waits now.
Answer ==
    /\ ~handled /\ handled' = TRUE
    /\ answers > 0 /\ answers' = answers - 1
    /\ lift' = IF /\ lift.state = "waiting" /\ lift.sends > 0
                  /\ now >= lift.last /\ now < lift.deadline
               THEN Finish([lift EXCEPT !.last = now], "protocol_completed")
               ELSE lift
    /\ UNCHANGED <<clock, now, served, stopped, nextQuery, status, gen, auto,
                   frames, automatic>>

\* A position of the lift, dropped when ubus has been served since the turn
\* began.
Position ==
    /\ ~handled /\ handled' = TRUE
    /\ \E payload \in Payloads :
          /\ Valid(payload)
          /\ status' = IF now >= served
                       THEN [valid |-> TRUE, at |-> now,
                             entries |-> Entries(payload)]
                       ELSE status
    /\ UNCHANGED <<clock, now, served, stopped, lift, nextQuery, gen, auto,
                   answers, frames, automatic>>

\* Mutant of Wanted: every accepted frame of the call asks for the lift.
WantedAlways(g) == TRUE

\* The lift is asked for once per generation of the session.
Wanted(g) == g # auto

\* An accepted frame of a call, the current one's or a new one's.  The door
\* repeats it; a request that is refused is made again with the next.
Call ==
    /\ ~handled /\ handled' = TRUE
    /\ \E g \in {gen, gen + 1} \cap (1..MaxCalls) :
          LET before == IF g = gen THEN automatic ELSE 0
          IN  /\ gen' = g
              /\ \/ /\ Wanted(g) /\ Accepts(Request, served)
                    /\ auto' = g /\ automatic' = before + 1
                    /\ \E r \in Submitted(Request, served) : BecomeOf(r)
                 \/ /\ ~(Wanted(g) /\ Accepts(Request, served))
                    /\ automatic' = before
                    /\ UNCHANGED <<auto, lift, answers, frames>>
    /\ UNCHANGED <<clock, now, served, stopped, nextQuery, status>>

\* An answer is lost.
Lost ==
    /\ answers > 0 /\ answers' = answers - 1
    /\ UNCHANGED <<clock, now, served, handled, stopped, lift, nextQuery,
                   status, gen, auto, frames, automatic>>

LiftNext ==
    ~stopped /\ (Turn \/ Wait \/ Answer \/ Position \/ Call \/ Lost)

LiftSpec == LiftInit /\ [][LiftNext]_liftVars

-----------------------------------------------------------------------------
\* A call asks for the lift at most once however often its frames are
\* repeated, refused and accepted, and each request is at most two frames;
\* and with the loop's clock behind the one ubus is served with, neither the
\* control's time runs backwards at a tick, which would end the daemon, nor is
\* a position younger than the time its age is told at
\* (runtime_service.c:1754, runtime_service.c:1324, runtime_ubus.c:2874).
LiftOncePerCall ==
    /\ automatic <= 1 /\ frames <= 2
    /\ ~stopped
    /\ status.valid => status.at <= served
=============================================================================
