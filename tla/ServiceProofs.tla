---------------------------- MODULE ServiceProofs ----------------------------
(***************************************************************************)
(* Proofs about four services that run beside a call: calling the lift,    *)
(* for every delay, deadline and interval and every status the lift may    *)
(* send; speaking to the door, for every number of clients, calls, lives   *)
(* of the daemon and frames; watching it, for every circle of picture      *)
(* numbers and every number of fragments, pictures and calls; and the      *)
(* event stream, for queues, sockets and relays of every size and every    *)
(* number of clients and events.                                           *)
(***************************************************************************)
EXTENDS Elevator, Speech, Video, Events, FiniteSetTheorems,
        SequenceTheorems, WellFoundedInduction, TLAPS

-----------------------------------------------------------------------------
(* Calling the lift *)


\* The runtime never falls behind what it has done: the control was last used
\* at a time ubus had been served with, a request has been sent as often as
\* its attempts say, and the generation the lift was asked for is the
\* session's as soon as it has been asked for once.
LiftInv ==
    /\ LiftTypeOK
    /\ lift.last <= served
    /\ lift.sends <= lift.attempts
    /\ frames = lift.attempts
    /\ automatic \in 0..1 /\ (automatic = 1 => auto = gen)
    /\ ~stopped
    /\ status.valid => status.at <= served

-----------------------------------------------------------------------------
(* One request: [lift, answers, frames], last used at t or before.         *)

Requests == [lift : Lifts, answers : 0..MaxAnswers, frames : 0..2]

Sane(r, t) ==
    /\ r \in Requests
    /\ r.lift.last <= t
    /\ r.lift.sends <= r.lift.attempts
    /\ r.frames = r.lift.attempts

LEMMA RequestSane ==
  ASSUME LiftInv
  PROVE  Sane(Request, served)
BY DEF LiftInv, LiftTypeOK, Sane, Request, Requests, Lifts

LEMMA SubmittedSane ==
  ASSUME NEW t \in 0..MaxTime, NEW u, Sane(u, t), NEW r \in Submitted(u, t)
  PROVE  Sane(r, t)
<1>1. PICK ok \in BOOLEAN : r = Sent(First(t), u, 0, ok)
  BY DEF Submitted
<1>2. u.answers \in 0..MaxAnswers
  BY DEF Sane, Requests
<1>3. First(t) \in Lifts
  BY ElevatorAssumption DEF First, Lifts, LiftStates
<1>4. r.answers \in 0..MaxAnswers /\ r.frames = 1
  BY <1>1, <1>2, ElevatorAssumption DEF Sent
<1>5. /\ r.lift \in Lifts
      /\ r.lift.last = t /\ r.lift.attempts = 1 /\ r.lift.sends <= 1
  BY <1>1, <1>3 DEF Sent, First, Lifts
<1>6. r \in Requests
  BY <1>1, <1>4, <1>5 DEF Sent, Requests
<1> QED BY <1>4, <1>5, <1>6 DEF Sane

LEMMA AskedSane ==
  ASSUME LiftInv, NEW t \in 0..MaxTime, t >= served, NEW r \in Asked(t)
  PROVE  Sane(r, t)
<1>1. Sane(Request, t)
  BY RequestSane DEF Sane, Requests, Lifts, LiftInv, LiftTypeOK
<1> QED BY <1>1, SubmittedSane DEF Asked

LEMMA FinishType ==
  ASSUME NEW l \in Lifts, NEW s \in LiftStates
  PROVE  /\ Finish(l, s) \in Lifts
         /\ Finish(l, s).last = l.last
         /\ Finish(l, s).attempts = l.attempts
         /\ Finish(l, s).sends = l.sends
BY DEF Finish, Lifts

LEMMA AgainSane ==
  ASSUME NEW t \in 0..MaxTime, NEW u, Sane(u, t), u.lift.attempts = 1,
         NEW ok \in BOOLEAN
  PROVE  Sane(Again([u.lift EXCEPT !.last = t], u, ok), t)
<1> DEFINE l == [[u.lift EXCEPT !.last = t] EXCEPT !.attempts = 2]
           n == Sent(l, u, u.frames, ok)
<1>1. /\ l \in Lifts
      /\ l.last = t /\ l.attempts = 2 /\ l.sends = u.lift.sends
      /\ u.lift.sends \in 0..1 /\ u.frames = 1 /\ u.answers \in 0..MaxAnswers
  <2>1. u.lift \in Lifts /\ u.frames = 1 /\ u.answers \in 0..MaxAnswers
    BY DEF Sane, Requests
  <2>2. u.lift.sends \in 0..1
    BY <2>1 DEF Sane, Lifts
  <2> DEFINE m == [u.lift EXCEPT !.last = t]
  <2>3. m \in Lifts /\ m.last = t /\ m.sends = u.lift.sends
    BY <2>1 DEF Lifts
  <2> HIDE DEF m
  <2>4. /\ [m EXCEPT !.attempts = 2] \in Lifts
        /\ [m EXCEPT !.attempts = 2].last = t
        /\ [m EXCEPT !.attempts = 2].attempts = 2
        /\ [m EXCEPT !.attempts = 2].sends = u.lift.sends
    BY <2>3 DEF Lifts
  <2>5. l = [m EXCEPT !.attempts = 2]
    BY DEF m
  <2> QED BY <2>1, <2>2, <2>4, <2>5
<1> HIDE DEF l
<1>2. /\ n.lift \in Lifts /\ n.lift.last = t /\ n.lift.attempts = 2
      /\ n.lift.sends <= 2
  BY <1>1 DEF Sent, Lifts
<1>3. n.answers \in 0..MaxAnswers /\ n.frames = 2
  BY <1>1, ElevatorAssumption DEF Sent
<1>4. n = [lift |-> n.lift, answers |-> n.answers, frames |-> n.frames]
  BY DEF Sent
<1> HIDE DEF n
<1>5. Sane(n, t)
  BY <1>2, <1>3, <1>4 DEF Sane, Requests
<1>6. Sane([n EXCEPT !.lift = Finish(n.lift, "send_failed")], t)
  <2>1. "send_failed" \in LiftStates
    BY DEF LiftStates
  <2> DEFINE f == Finish(n.lift, "send_failed")
  <2>2. f \in Lifts /\ f.last = t /\ f.attempts = 2 /\ f.sends <= 2
    BY <1>2, <2>1, FinishType
  <2> HIDE DEF f
  <2>3. [n EXCEPT !.lift = f] = [lift |-> f, answers |-> n.answers, frames |-> n.frames]
    BY <1>4
  <2>4. Sane([n EXCEPT !.lift = f], t)
    BY <1>3, <2>2, <2>3 DEF Sane, Requests
  <2> QED BY <2>4 DEF f
<1>7. Again([u.lift EXCEPT !.last = t], u, ok)
        = IF n.lift.sends = 0
          THEN [n EXCEPT !.lift = Finish(n.lift, "send_failed")] ELSE n
  BY DEF Again, n, l
<1> QED BY <1>5, <1>6, <1>7

LEMMA TickedSane ==
  ASSUME NEW t \in 0..MaxTime, NEW u, Sane(u, t), NEW r \in Ticked(u, t)
  PROVE  Sane(r, t)
<1> DEFINE l == [u.lift EXCEPT !.last = t]
<1>1. /\ l \in Lifts /\ l.last = t
      /\ l.attempts = u.lift.attempts /\ l.sends = u.lift.sends
  BY DEF Sane, Requests, Lifts
<1>2. ASSUME NEW k \in Lifts, k.last = t, k.attempts = u.lift.attempts,
             k.sends = u.lift.sends
      PROVE  Sane([u EXCEPT !.lift = k], t)
  <2>1. [u EXCEPT !.lift = k] = [lift |-> k, answers |-> u.answers, frames |-> u.frames]
    BY DEF Sane, Requests
  <2> QED BY <1>2, <2>1 DEF Sane, Requests, Lifts
<1>3. /\ Finish(l, "expired") \in Lifts
      /\ Finish(l, "expired").last = t
      /\ Finish(l, "expired").attempts = u.lift.attempts
      /\ Finish(l, "expired").sends = u.lift.sends
  BY <1>1, FinishType DEF LiftStates
<1>4. \/ r = [u EXCEPT !.lift = l]
      \/ r = [u EXCEPT !.lift = Finish(l, "expired")]
      \/ l.attempts = 1 /\ \E ok \in BOOLEAN : r = Again(l, u, ok)
  BY DEF Ticked
<1> HIDE DEF l
<1>5. CASE r = [u EXCEPT !.lift = l]
  BY <1>1, <1>2, <1>5
<1>6. CASE r = [u EXCEPT !.lift = Finish(l, "expired")]
  BY <1>2, <1>3, <1>6
<1>7. CASE l.attempts = 1 /\ \E ok \in BOOLEAN : r = Again(l, u, ok)
  BY <1>1, <1>7, AgainSane DEF l
<1> QED BY <1>4, <1>5, <1>6, <1>7

-----------------------------------------------------------------------------
(* Each action keeps the invariant.                                        *)

\* A sane request that becomes the control's keeps its part of the invariant.
LEMMA BecomesSane ==
  ASSUME NEW r, NEW t, Sane(r, t), BecomeOf(r)
  PROVE  /\ lift' \in Lifts /\ answers' \in 0..MaxAnswers /\ frames' \in Nat
         /\ lift'.last <= t /\ lift'.sends <= lift'.attempts
         /\ frames' = lift'.attempts
BY DEF Sane, Requests, BecomeOf

LEMMA LiftTurnKeeps == ASSUME LiftInv, Turn PROVE LiftInv'
<1>1. PICK t \in clock..(clock + Deadline) :
          /\ t <= MaxTime
          /\ clock' = t /\ now' = t /\ served' = t /\ handled' = FALSE
          /\ \E r \in Asked(t) :
                IF t < r.lift.last
                THEN stopped' = TRUE /\ BecomeOf(r)
                ELSE stopped' = FALSE /\ \E n \in Ticked(r, t) : BecomeOf(n)
          /\ nextQuery' = NextQuery(t)
  BY DEF Turn
<1>2. t \in 0..MaxTime /\ t >= served /\ t \in Nat
  BY <1>1, ElevatorAssumption DEF LiftInv, LiftTypeOK
<1>3. PICK r \in Asked(t) :
                IF t < r.lift.last
                THEN stopped' = TRUE /\ BecomeOf(r)
                ELSE stopped' = FALSE /\ \E n \in Ticked(r, t) : BecomeOf(n)
  BY <1>1
<1>4. Sane(r, t)
  BY <1>2, AskedSane
<1>5. ~(t < r.lift.last)
  BY <1>2, <1>4 DEF Sane, Requests, Lifts
<1>6. stopped' = FALSE /\ \E n \in Ticked(r, t) : Sane(n, t) /\ BecomeOf(n)
  BY <1>2, <1>3, <1>4, <1>5, TickedSane
<1>7. /\ lift' \in Lifts /\ answers' \in 0..MaxAnswers /\ frames' \in Nat
      /\ lift'.last <= t /\ lift'.sends <= lift'.attempts
      /\ frames' = lift'.attempts
  BY <1>6, BecomesSane
<1>8. nextQuery' \in Nat
  BY <1>1, <1>2, ElevatorAssumption DEF NextQuery, LiftInv, LiftTypeOK
<1>9. UNCHANGED <<status, gen, auto, automatic>>
  BY DEF Turn
<1>10. /\ clock' \in 0..MaxTime /\ now' \in 0..clock' /\ served' \in now'..clock'
       /\ handled' \in BOOLEAN /\ stopped' \in BOOLEAN /\ ~stopped'
  <2>1. clock' = t /\ now' = t /\ served' = t
    BY <1>1
  <2>2. clock' \in 0..MaxTime /\ now' \in 0..clock' /\ served' \in now'..clock'
    BY <1>2, <2>1
  <2>3. handled' \in BOOLEAN
    BY <1>1, Zenon
  <2>4. stopped' \in BOOLEAN /\ ~stopped'
    BY <1>6, Zenon
  <2> QED BY <2>2, <2>3, <2>4
<1>11. /\ gen' \in 0..MaxCalls /\ auto' \in 0..gen'
       /\ automatic' \in 0..1 /\ (automatic' = 1 => auto' = gen')
  BY <1>9 DEF LiftInv, LiftTypeOK
<1>12. /\ status'.valid \in BOOLEAN /\ status'.at \in 0..MaxTime
       /\ status'.valid => status'.at <= served'
  <2>1. status' = status /\ served' = t /\ t \in Nat /\ served <= t
    BY <1>1, <1>2, <1>9
  <2>2. served \in Nat
    BY ElevatorAssumption DEF LiftInv, LiftTypeOK
  <2> QED BY <2>1, <2>2, ElevatorAssumption DEF LiftInv, LiftTypeOK
<1>13. served' = t
  BY <1>1
<1> QED
  BY <1>7, <1>8, <1>10, <1>11, <1>12, <1>13 DEF LiftInv, LiftTypeOK

LEMMA WaitKeeps == ASSUME LiftInv, Wait PROVE LiftInv'
<1>1. PICK r \in Asked(clock + 1) : BecomeOf(r)
  BY DEF Wait
<1>2. clock + 1 \in 0..MaxTime /\ clock + 1 >= served /\ clock \in Nat
  BY ElevatorAssumption DEF Wait, LiftInv, LiftTypeOK
<1>3. Sane(r, clock + 1)
  BY <1>1, <1>2, AskedSane
<1>4. /\ lift' \in Lifts /\ answers' \in 0..MaxAnswers /\ frames' \in Nat
      /\ lift'.last <= clock + 1 /\ lift'.sends <= lift'.attempts
      /\ frames' = lift'.attempts
  BY <1>1, <1>3, BecomesSane
<1>5. /\ clock' = clock + 1 /\ served' = clock + 1
      /\ UNCHANGED <<now, handled, stopped, nextQuery, status, gen, auto, automatic>>
  BY DEF Wait
<1> QED BY <1>2, <1>4, <1>5 DEF LiftInv, LiftTypeOK

LEMMA AnswerKeeps == ASSUME LiftInv, Answer PROVE LiftInv'
<1>1. lift \in Lifts /\ now \in 0..MaxTime /\ now <= served
  BY ElevatorAssumption DEF LiftInv, LiftTypeOK
<1> DEFINE l == [lift EXCEPT !.last = now]
           f == Finish(l, "protocol_completed")
<1>2. l \in Lifts /\ l.last = now /\ l.attempts = lift.attempts /\ l.sends = lift.sends
  BY <1>1 DEF Lifts
<1>3. /\ f \in Lifts /\ f.last = now
      /\ f.attempts = lift.attempts /\ f.sends = lift.sends
  BY <1>2, FinishType DEF LiftStates
<1>4. lift' = lift \/ lift' = f
  BY DEF Answer
<1> HIDE DEF f, l
<1>5. /\ lift' \in Lifts /\ lift'.last <= served
      /\ lift'.attempts = lift.attempts /\ lift'.sends = lift.sends
  BY <1>1, <1>3, <1>4 DEF LiftInv
<1>6. /\ handled' = TRUE /\ answers' \in 0..MaxAnswers
      /\ UNCHANGED <<clock, now, served, stopped, nextQuery, status, gen, auto,
                     frames, automatic>>
  BY ElevatorAssumption DEF Answer, LiftInv, LiftTypeOK
<1> QED BY <1>5, <1>6 DEF LiftInv, LiftTypeOK

LEMMA PositionKeeps == ASSUME LiftInv, Position PROVE LiftInv'
<1>1. now \in 0..MaxTime /\ now <= served
  BY ElevatorAssumption DEF LiftInv, LiftTypeOK
<1>2. \/ status' = status
      \/ status'.valid = TRUE /\ status'.at = now
  BY DEF Position
<1>3. /\ handled' = TRUE
      /\ UNCHANGED <<clock, now, served, stopped, lift, nextQuery, gen, auto,
                     answers, frames, automatic>>
  BY DEF Position
<1> QED BY <1>1, <1>2, <1>3 DEF LiftInv, LiftTypeOK

LEMMA CallKeeps == ASSUME LiftInv, Call PROVE LiftInv'
<1>1. PICK g \in {gen, gen + 1} \cap (1..MaxCalls) :
          LET before == IF g = gen THEN automatic ELSE 0
          IN  /\ gen' = g
              /\ \/ /\ Wanted(g) /\ Accepts(Request, served)
                    /\ auto' = g /\ automatic' = before + 1
                    /\ \E r \in Submitted(Request, served) : BecomeOf(r)
                 \/ /\ ~(Wanted(g) /\ Accepts(Request, served))
                    /\ automatic' = before
                    /\ UNCHANGED <<auto, lift, answers, frames>>
  BY DEF Call
<1> DEFINE before == IF g = gen THEN automatic ELSE 0
<1>2. /\ handled' = TRUE
      /\ UNCHANGED <<clock, now, served, stopped, nextQuery, status>>
  BY DEF Call
<1>3. g \in 0..MaxCalls /\ auto \in 0..g /\ served \in 0..MaxTime
  BY ElevatorAssumption DEF LiftInv, LiftTypeOK
<1>4. before \in 0..1 /\ (before = 1 => auto = g)
  BY DEF LiftInv
<1>5. CASE /\ Wanted(g) /\ Accepts(Request, served)
           /\ auto' = g /\ automatic' = before + 1
           /\ \E r \in Submitted(Request, served) : BecomeOf(r)
  <2>1. before = 0
    BY <1>4, <1>5 DEF Wanted
  <2>2. PICK r \in Submitted(Request, served) : BecomeOf(r)
    BY <1>5
  <2>3. Sane(r, served)
    BY <1>3, <2>2, RequestSane, SubmittedSane
  <2>4. /\ lift' \in Lifts /\ answers' \in 0..MaxAnswers /\ frames' \in Nat
        /\ lift'.last <= served /\ lift'.sends <= lift'.attempts
        /\ frames' = lift'.attempts
    BY <2>2, <2>3, BecomesSane
  <2> QED BY <1>1, <1>2, <1>3, <1>5, <2>1, <2>4 DEF LiftInv, LiftTypeOK
<1>6. CASE automatic' = before /\ UNCHANGED <<auto, lift, answers, frames>>
  BY <1>1, <1>2, <1>3, <1>4, <1>6 DEF LiftInv, LiftTypeOK
<1> QED BY <1>1, <1>5, <1>6

LEMMA LostKeeps == ASSUME LiftInv, Lost PROVE LiftInv'
<1>1. /\ answers' \in 0..MaxAnswers
      /\ UNCHANGED <<clock, now, served, handled, stopped, lift, nextQuery,
                     status, gen, auto, frames, automatic>>
  BY ElevatorAssumption DEF Lost, LiftInv, LiftTypeOK
<1> QED BY <1>1 DEF LiftInv, LiftTypeOK

-----------------------------------------------------------------------------
\* The invariant holds from the start of the daemon on.
THEOREM LiftInvariant == LiftSpec => []LiftInv
<1>1. LiftInit => LiftInv
  <2> SUFFICES ASSUME LiftInit PROVE LiftInv
    OBVIOUS
  <2>1. lift \in Lifts /\ lift.last = 0 /\ lift.sends = 0 /\ lift.attempts = 0
    BY ElevatorAssumption DEF LiftInit, Lifts, LiftStates
  <2>2. status.valid = FALSE /\ status.at = 0
    BY DEF LiftInit
  <2>3. /\ clock = 0 /\ now = 0 /\ served = 0
        /\ nextQuery = 0 /\ gen = 0 /\ auto = 0 /\ answers = 0 /\ frames = 0
        /\ automatic = 0
    BY DEF LiftInit
  <2>4. handled \in BOOLEAN /\ stopped \in BOOLEAN /\ ~stopped
    BY Zenon DEF LiftInit
  <2>5. status.valid \in BOOLEAN /\ (status.valid => status.at <= served)
    BY <2>2, <2>3
  <2> QED BY <2>1, <2>2, <2>3, <2>4, <2>5, ElevatorAssumption DEF LiftInv, LiftTypeOK
<1>2. LiftInv /\ [LiftNext]_liftVars => LiftInv'
  <2> SUFFICES ASSUME LiftInv, [LiftNext]_liftVars PROVE LiftInv'
    OBVIOUS
  <2>1. CASE Turn       BY <2>1, LiftTurnKeeps
  <2>2. CASE Wait       BY <2>2, WaitKeeps
  <2>3. CASE Answer     BY <2>3, AnswerKeeps
  <2>4. CASE Position   BY <2>4, PositionKeeps
  <2>5. CASE Call       BY <2>5, CallKeeps
  <2>6. CASE Lost       BY <2>6, LostKeeps
  <2>7. CASE UNCHANGED liftVars
    BY <2>7 DEF liftVars, LiftInv, LiftTypeOK
  <2> QED BY <2>1, <2>2, <2>3, <2>4, <2>5, <2>6, <2>7 DEF LiftNext
<1> QED BY <1>1, <1>2, PTL DEF LiftSpec

\* No request is sent more than twice and no time, answer or generation
\* leaves its range, for every delay and deadline.
THEOREM LiftTypes == LiftSpec => []LiftTypeOK
<1>1. LiftInv => LiftTypeOK
  BY DEF LiftInv
<1> QED BY <1>1, LiftInvariant, PTL

\* A call asks for the lift at most once, and serving ubus between two replies
\* neither ends the daemon nor leaves a position of the future
\* (runtime_service.c:1754, runtime_service.c:1324).
THEOREM OncePerCall == LiftSpec => []LiftOncePerCall
<1>1. LiftInv => LiftOncePerCall
  BY DEF LiftInv, LiftOncePerCall, LiftTypeOK, Lifts
<1> QED BY <1>1, LiftInvariant, PTL

-----------------------------------------------------------------------------
(* Speaking to the door *)


\* The record of a request and those of the files are of this life of the
\* daemon or of an earlier one.
Lived == {r \in [life : 0..MaxLives, gen : Int, next : Int,
                 holder : Speakers \cup {"none", "lost", "torn"},
                 live : BOOLEAN] : r.life <= runtime}

RequestTypes == [pc : {"idle", "waiting", "sending", "sent"},
                 file : {0} \cup Files, left : Int, seq : Int, record : Lived]

Of(p) == requests[p].record

\* A request that sends has the lock of its file to itself; requests for the
\* same life of the daemon have the same file, which for this life is the one
\* that has the name; and a client that waits for a file where it has the
\* session of this life waits for the named one.
SpeechInv ==
    /\ runtime \in Lives /\ path \in {0} \cup Files
    /\ talk \in [on : BOOLEAN, gen : Int]
    /\ files \in [Files -> Lived]
    /\ requests \in [Speakers -> RequestTypes]
    /\ \A p \in Speakers : requests[p].pc # "idle" => requests[p].file \in Files
    /\ \A p, o \in Speakers :
          Holding(p) /\ Holding(o) =>
             /\ requests[p].file = requests[o].file => p = o
             /\ Of(p).life = Of(o).life => requests[p].file = requests[o].file
    /\ \A p \in Speakers :
          Holding(p) =>
             /\ Of(p).holder = p
             /\ Of(p).life = runtime => requests[p].file = path
    /\ \A p \in Speakers :
          /\ requests[p].pc # "idle"
          /\ files[requests[p].file].life = runtime
          /\ files[requests[p].file].holder = p
          => requests[p].file = path

-----------------------------------------------------------------------------
(* Records and requests.                                                   *)

LEMMA LivedType ==
  ASSUME SpeechInv
  PROVE  /\ Empty \in Lived /\ Torn \in Lived
         /\ Empty.life = 0 /\ Torn.life = 0
         /\ Idle \in RequestTypes /\ Idle.pc = "idle" /\ Idle.file = 0
<1>1. 0 \in 0..MaxLives /\ 0 <= runtime
  BY SpeechAssumption DEF SpeechInv, Lives
<1>2. Empty \in Lived /\ Torn \in Lived
  BY <1>1 DEF Empty, Torn, Record, Lived, None
<1> QED BY <1>2 DEF Idle, RequestTypes, Empty, Torn, Record

LEMMA RuntimeType ==
  ASSUME SpeechInv
  PROVE  runtime \in 1..MaxLives /\ runtime # 0
BY SpeechAssumption DEF SpeechInv, Lives

\* A request ends, or goes on with its file and the life it was admitted for.
Follows(r, p) ==
    \/ r = Idle
    \/ /\ Holding(p) /\ r.pc \in {"sending", "sent"}
       /\ r.file = requests[p].file
       /\ r.record.life = Of(p).life /\ r.record.holder = Of(p).holder

\* What a request's write may leave in its file: nothing of this life that
\* another client could take up on a file without a name.
Harmless(fs, p) ==
    \A f \in Files :
       \/ fs[f] = files[f]
       \/ f = requests[p].file /\ fs[f].life # runtime
       \/ f = requests[p].file /\ fs[f].holder \notin Speakers \ {p}

LEMMA GoKeeps ==
  ASSUME SpeechInv, NEW p \in Speakers, NEW r \in RequestTypes,
         NEW fs \in [Files -> Lived], Follows(r, p), Harmless(fs, p),
         r # Idle => \/ fs[r.file].holder # p \/ fs[r.file].life = r.record.life,
         Go(p, r, fs), UNCHANGED <<runtime, talk, path>>
  PROVE  SpeechInv'
<1>1. /\ requests' = [requests EXCEPT ![p] = r]
      /\ files' = Swept(fs, requests', path)
      /\ runtime' = runtime /\ path' = path /\ talk' = talk
  BY DEF Go
<1>2. /\ requests \in [Speakers -> RequestTypes]
      /\ requests' \in [Speakers -> RequestTypes]
      /\ requests'[p] = r
      /\ \A o \in Speakers : o # p => requests'[o] = requests[o]
  BY <1>1 DEF SpeechInv
<1>3. /\ files' \in [Files -> Lived]
      /\ \A f \in Files : files'[f] = fs[f] \/ files'[f] = Empty
  BY <1>1, LivedType DEF Swept
<1>4. /\ \A o \in Speakers : Holding(o)' => Holding(o)
      /\ \A o \in Speakers : Holding(o)' =>
            /\ requests'[o].file = requests[o].file
            /\ Of(o)'.life = Of(o).life /\ Of(o)'.holder = Of(o).holder
  BY <1>2, LivedType DEF Follows, Holding, Of
<1>5. \A o \in Speakers : requests'[o].pc # "idle" =>
         /\ requests[o].pc # "idle" /\ requests'[o].file = requests[o].file
         /\ requests[o].file \in Files
  BY <1>2, LivedType DEF Follows, Holding, SpeechInv
<1>6. ASSUME NEW o \in Speakers, requests'[o].pc # "idle",
             files'[requests'[o].file].life = runtime,
             files'[requests'[o].file].holder = o
      PROVE  requests'[o].file = path
  <2> DEFINE f == requests[o].file
  <2>1. /\ f \in Files /\ requests'[o].file = f /\ requests[o].pc # "idle"
        /\ files'[f].life = runtime /\ files'[f].holder = o
    BY <1>5, <1>6
  <2> HIDE DEF f
  <2>2. files'[f] = fs[f]
    BY <1>3, <2>1, LivedType, RuntimeType
  <2>3. CASE fs[f] = files[f]
    BY <1>5, <1>6, <2>1, <2>2, <2>3 DEF SpeechInv, f
  <2>4. CASE f = requests[p].file /\ fs[f].life # runtime
    BY <2>1, <2>2, <2>4
  <2>5. CASE f = requests[p].file /\ fs[f].holder \notin Speakers \ {p}
    <3>1. o = p
      BY <2>1, <2>2, <2>5
    <3>2. requests'[p] = r /\ r # Idle /\ r.file = f
      BY <1>2, <1>6, <2>1, <3>1, LivedType
    <3>3. r.record.life = runtime
      BY <2>1, <2>2, <3>1, <3>2
    <3>4. Holding(p) /\ Of(p).life = runtime
      BY <3>2, <3>3 DEF Follows
    <3> QED BY <2>1, <3>1, <3>4 DEF SpeechInv, f
  <2> QED BY <2>1, <2>3, <2>4, <2>5 DEF Harmless
<1>7. Lived' = Lived /\ RequestTypes' = RequestTypes
  BY <1>1 DEF Lived, RequestTypes
<1>8. /\ runtime' \in Lives /\ path' \in {0} \cup Files
      /\ talk' \in [on : BOOLEAN, gen : Int]
  BY <1>1 DEF SpeechInv
<1>9. \A a, b \in Speakers :
        Holding(a)' /\ Holding(b)' =>
           /\ requests'[a].file = requests'[b].file => a = b
           /\ Of(a)'.life = Of(b)'.life => requests'[a].file = requests'[b].file
  BY <1>4 DEF SpeechInv
<1>10. \A a \in Speakers :
         Holding(a)' => /\ Of(a)'.holder = a
                        /\ Of(a)'.life = runtime' => requests'[a].file = path'
  BY <1>1, <1>4 DEF SpeechInv
<1>11. \A o \in Speakers : requests'[o].pc # "idle" => requests'[o].file \in Files
  BY <1>5
<1>12. \A o \in Speakers :
          /\ requests'[o].pc # "idle"
          /\ files'[requests'[o].file].life = runtime'
          /\ files'[requests'[o].file].holder = o
          => requests'[o].file = path'
  BY <1>1, <1>6
<1> QED
  BY <1>2, <1>3, <1>7, <1>8, <1>9, <1>10, <1>11, <1>12 DEF SpeechInv

-----------------------------------------------------------------------------
(* Each action keeps the invariant.                                        *)

\* The sets depend on the life of the daemon only.
LEMMA SameLife ==
  ASSUME runtime' = runtime
  PROVE  Lived' = Lived /\ RequestTypes' = RequestTypes
BY DEF Lived, RequestTypes

LEMMA ArriveKeeps ==
  ASSUME SpeechInv, NEW p \in Speakers, Arrive(p)
  PROVE  SpeechInv'
<1>1. PICK f \in Files :
          /\ IF path # 0 THEN f = path
             ELSE \A o \in Speakers : requests[o].file # f
          /\ path' = f
          /\ requests' = [requests EXCEPT ![p] = [Idle EXCEPT !.pc = "waiting",
                                                              !.file = f]]
  BY DEF Arrive
<1>2. /\ runtime' = runtime /\ talk' = talk /\ files' = files
  BY DEF Arrive
<1> DEFINE r == [Idle EXCEPT !.pc = "waiting", !.file = f]
<1>3. r \in RequestTypes /\ r.pc = "waiting" /\ r.file = f
  BY LivedType DEF RequestTypes, Idle
<1> HIDE DEF r
<1>4. /\ requests' \in [Speakers -> RequestTypes] /\ requests'[p] = r
      /\ \A o \in Speakers : o # p => requests'[o] = requests[o]
  BY <1>1, <1>3 DEF SpeechInv, r
<1>5. \A o \in Speakers : Holding(o)' => o # p /\ Holding(o)
  BY <1>3, <1>4 DEF Holding
<1>6. 0 \notin Files
  BY DEF Files
<1>7. path # 0 => path' = path
  BY <1>1
<1>8. ASSUME NEW o \in Speakers, Holding(o)', Of(o)'.life = runtime
      PROVE  requests'[o].file = path'
  <2>1. Holding(o) /\ requests'[o] = requests[o] /\ Of(o).life = runtime
    BY <1>4, <1>5, <1>8 DEF Of
  <2>2. requests[o].file = path /\ requests[o].file \in Files
    BY <2>1 DEF SpeechInv, Holding
  <2> QED BY <1>6, <1>7, <2>1, <2>2
<1>9. ASSUME NEW o \in Speakers, requests'[o].pc # "idle",
             files[requests'[o].file].life = runtime,
             files[requests'[o].file].holder = o
      PROVE  requests'[o].file = path'
  <2>1. CASE o = p
    BY <1>1, <1>3, <1>4, <2>1
  <2>2. CASE o # p
    <3>1. requests'[o] = requests[o]
      BY <1>4, <2>2
    <3>2. requests[o].file = path /\ requests[o].file \in Files
      BY <1>9, <3>1 DEF SpeechInv
    <3> QED BY <1>6, <1>7, <3>1, <3>2
  <2> QED BY <2>1, <2>2
<1>10. \A o \in Speakers : requests'[o].pc # "idle" => requests'[o].file \in Files
  BY <1>3, <1>4 DEF SpeechInv
<1>11. \A a, b \in Speakers :
        Holding(a)' /\ Holding(b)' =>
           /\ requests'[a].file = requests'[b].file => a = b
           /\ Of(a)'.life = Of(b)'.life => requests'[a].file = requests'[b].file
  BY <1>4, <1>5 DEF SpeechInv, Of
<1>12. /\ files \in [Files -> Lived] /\ talk \in [on : BOOLEAN, gen : Int]
       /\ runtime \in Lives
  BY DEF SpeechInv
<1>13. \A o \in Speakers : Holding(o)' => Of(o)'.holder = o
  BY <1>4, <1>5 DEF SpeechInv, Of
<1> QED
  BY <1>1, <1>2, <1>4, <1>8, <1>9, <1>10, <1>11, <1>12, <1>13, SameLife
  DEF SpeechInv

LEMMA SessionsKeep ==
  ASSUME SpeechInv, NEW p \in Speakers, OpenSession(p) \/ EndSession(p)
  PROVE  SpeechInv'
<1>1. runtime' = runtime /\ talk' = talk /\ path' = path
  BY DEF OpenSession, EndSession
<1> DEFINE f == requests[p].file
<1>2. f \in Files /\ Kept(p) \in Lived
  BY DEF OpenSession, EndSession, Admitted, SpeechInv, Kept
<1>3. PICK r : /\ Go(p, Idle, Written(p, r)) /\ r \in Lived
               /\ r.holder \notin Speakers \ {p}
  <2>1. Torn \in Lived /\ Torn.holder = "torn"
    BY LivedType DEF Torn, Record
  <2>2. CASE OpenSession(p)
    <3>1. PICK holder \in {p, "lost"}, torn \in BOOLEAN :
            Go(p, Idle, Written(p, IF torn THEN Torn
                ELSE Record(runtime, talk.gen, Continued(Kept(p)), holder, TRUE)))
      BY <2>2 DEF OpenSession
    <3> DEFINE n == Record(runtime, talk.gen, Continued(Kept(p)), holder, TRUE)
    <3>2. Continued(Kept(p)) \in Int
      BY <1>2 DEF Continued, Lived
    <3>3. n \in Lived /\ n.holder \notin Speakers \ {p}
      BY <3>1, <3>2, RuntimeType, SpeechAssumption DEF Record, Lived, SpeechInv
    <3>4. CASE torn
      BY <2>1, <3>1, <3>4, SpeechAssumption
    <3>5. CASE ~torn
      BY <3>1, <3>3, <3>5
    <3> QED BY <3>4, <3>5
  <2>3. CASE EndSession(p)
    <3>1. PICK torn \in BOOLEAN :
            Go(p, Idle, Written(p, IF torn THEN Torn
                ELSE [Kept(p) EXCEPT !.holder = None, !.live = FALSE]))
      BY <2>3 DEF EndSession
    <3> DEFINE n == [Kept(p) EXCEPT !.holder = None, !.live = FALSE]
    <3>2. n \in Lived /\ n.holder \notin Speakers \ {p}
      BY <1>2, SpeechAssumption DEF Lived, None
    <3>3. CASE torn
      BY <2>1, <3>1, <3>3, SpeechAssumption
    <3>4. CASE ~torn
      BY <3>1, <3>2, <3>4
    <3> QED BY <3>3, <3>4
  <2> QED BY <2>2, <2>3
<1> DEFINE fs == Written(p, r)
<1>4. /\ fs \in [Files -> Lived] /\ fs[f] = r
      /\ \A g \in Files : g # f => fs[g] = files[g]
  BY <1>2, <1>3 DEF Written, SpeechInv
<1> HIDE DEF fs
<1>5. Harmless(fs, p)
  BY <1>3, <1>4 DEF Harmless
<1>6. Idle \in RequestTypes /\ Follows(Idle, p)
  BY LivedType DEF Follows
<1>7. Go(p, Idle, fs)
  BY <1>3 DEF fs
<1> QED BY <1>1, <1>4, <1>5, <1>6, <1>7, GoKeeps

LEMMA SubmitKeeps ==
  ASSUME SpeechInv, NEW p \in Speakers, Submit(p)
  PROVE  SpeechInv'
<1>1. PICK sequence \in 0..(MaxFrames - 1), count \in 1..BatchLimit :
         requests' = [requests EXCEPT ![p] =
                Sending(@.file, count, sequence, Kept(p))]
  BY DEF Submit
<1>2. /\ runtime' = runtime /\ talk' = talk /\ path' = path /\ files' = files
  BY DEF Submit
<1> DEFINE f == requests[p].file
           r == Sending(f, count, sequence, Kept(p))
<1>3. /\ requests[p].pc = "waiting" /\ f \in Files /\ Kept(p) = files[f]
      /\ files[f] \in Lived /\ files[f].life = runtime /\ files[f].holder = p
      /\ \A o \in Speakers \ {p} : ~(Holding(o) /\ requests[o].file = f)
  BY DEF Submit, Admitted, Holds, Matches, Kept, SpeechInv
<1>4. f = path
  BY <1>3 DEF SpeechInv
<1>5. r \in RequestTypes /\ r.pc = "sending" /\ r.file = f /\ r.record = files[f]
  BY <1>3, SpeechAssumption DEF RequestTypes, Sending
<1> HIDE DEF r
<1>6. /\ requests' \in [Speakers -> RequestTypes] /\ requests'[p] = r
      /\ \A o \in Speakers : o # p => requests'[o] = requests[o]
  BY <1>1, <1>5 DEF SpeechInv, r
<1>7. /\ Of(p)'.life = runtime /\ requests'[p].file = path /\ Of(p)'.holder = p
      /\ \A o \in Speakers \ {p} : /\ Holding(o)' = Holding(o) /\ Of(o)' = Of(o)
                                   /\ requests'[o] = requests[o]
  BY <1>3, <1>4, <1>5, <1>6 DEF Holding, Of
<1>8. ASSUME NEW a \in Speakers, NEW b \in Speakers, Holding(a)', Holding(b)'
      PROVE  /\ requests'[a].file = requests'[b].file => a = b
             /\ Of(a)'.life = Of(b)'.life => requests'[a].file = requests'[b].file
  <2>1. CASE a # p /\ b # p
    BY <1>7, <1>8, <2>1 DEF SpeechInv
  <2>2. CASE a = p /\ b = p
    BY <2>2
  <2>3. CASE a = p /\ b # p
    <3>1. Holding(b) /\ requests[b].file # f
      BY <1>3, <1>7, <1>8, <2>3
    <3>2. Of(b).life = runtime => requests[b].file = path
      BY <3>1 DEF SpeechInv
    <3> QED BY <1>4, <1>7, <2>3, <3>1, <3>2
  <2>4. CASE a # p /\ b = p
    <3>1. Holding(a) /\ requests[a].file # f
      BY <1>3, <1>7, <1>8, <2>4
    <3>2. Of(a).life = runtime => requests[a].file = path
      BY <3>1 DEF SpeechInv
    <3> QED BY <1>4, <1>7, <2>4, <3>1, <3>2
  <2> QED BY <2>1, <2>2, <2>3, <2>4
<1>9. \A o \in Speakers :
         Holding(o)' => /\ Of(o)'.holder = o
                        /\ Of(o)'.life = runtime' => requests'[o].file = path'
  BY <1>2, <1>7 DEF SpeechInv
<1>10. \A o \in Speakers :
          /\ requests'[o].pc # "idle"
          /\ files'[requests'[o].file].life = runtime'
          /\ files'[requests'[o].file].holder = o
          => requests'[o].file = path'
  BY <1>2, <1>7 DEF SpeechInv
<1>11. \A o \in Speakers : requests'[o].pc # "idle" => requests'[o].file \in Files
  BY <1>3, <1>5, <1>6 DEF SpeechInv
<1>12. /\ files \in [Files -> Lived] /\ talk \in [on : BOOLEAN, gen : Int]
       /\ runtime \in Lives /\ path \in {0} \cup Files
  BY DEF SpeechInv
<1> QED
  BY <1>2, <1>6, <1>8, <1>9, <1>10, <1>11, <1>12, SameLife DEF SpeechInv

\* What the invariant looks at stays.
LEMMA QuietKeeps ==
  ASSUME SpeechInv, UNCHANGED <<runtime, path>>,
         talk' \in [on : BOOLEAN, gen : Int],
         files' \in [Files -> Lived], requests' \in [Speakers -> RequestTypes],
         \A f \in Files : /\ files'[f].life = files[f].life
                          /\ files'[f].holder = files[f].holder,
         \A o \in Speakers :
            /\ requests'[o].pc # "idle" <=> requests[o].pc # "idle"
            /\ requests'[o].file = requests[o].file
            /\ Holding(o)' <=> Holding(o)
            /\ requests'[o].record = requests[o].record
  PROVE  SpeechInv'
<1>1. runtime' \in Lives /\ path' \in {0} \cup Files
  BY DEF SpeechInv
<1>2. \A o \in Speakers : requests'[o].pc # "idle" => requests'[o].file \in Files
  BY DEF SpeechInv
<1>3. \A a, b \in Speakers :
        Holding(a)' /\ Holding(b)' =>
           /\ requests'[a].file = requests'[b].file => a = b
           /\ Of(a)'.life = Of(b)'.life => requests'[a].file = requests'[b].file
  BY DEF SpeechInv, Of
<1>4. \A o \in Speakers :
         Holding(o)' => /\ Of(o)'.holder = o
                        /\ Of(o)'.life = runtime' => requests'[o].file = path'
  BY DEF SpeechInv, Of
<1>5. \A o \in Speakers :
          /\ requests'[o].pc # "idle"
          /\ files'[requests'[o].file].life = runtime'
          /\ files'[requests'[o].file].holder = o
          => requests'[o].file = path'
  BY <1>2 DEF SpeechInv
<1> QED BY <1>1, <1>2, <1>3, <1>4, <1>5, SameLife DEF SpeechInv

LEMMA HandOverKeeps ==
  ASSUME SpeechInv, NEW p \in Speakers, HandOver(p)
  PROVE  SpeechInv'
<1> DEFINE r == [requests[p] EXCEPT !.pc = "sent"]
<1>1. /\ requests[p].pc = "sending" /\ requests[p] \in RequestTypes
      /\ requests' = [requests EXCEPT ![p] = r]
      /\ runtime' = runtime /\ talk' = talk /\ path' = path /\ files' = files
  BY DEF HandOver, SpeechInv
<1>2. /\ r \in RequestTypes /\ r.pc = "sent" /\ r.file = requests[p].file
      /\ r.record = requests[p].record
  BY <1>1 DEF RequestTypes
<1> HIDE DEF r
<1>3. /\ requests' \in [Speakers -> RequestTypes] /\ requests'[p] = r
      /\ \A o \in Speakers : o # p => requests'[o] = requests[o]
  BY <1>1, <1>2 DEF SpeechInv
<1>4. \A o \in Speakers :
            /\ requests'[o].pc # "idle" <=> requests[o].pc # "idle"
            /\ requests'[o].file = requests[o].file
            /\ Holding(o)' <=> Holding(o)
            /\ requests'[o].record = requests[o].record
  BY <1>1, <1>2, <1>3 DEF Holding
<1>5. talk' \in [on : BOOLEAN, gen : Int] /\ files' \in [Files -> Lived]
  BY <1>1 DEF SpeechInv
<1> QED BY <1>1, <1>3, <1>4, <1>5, QuietKeeps

LEMMA NoteKeeps ==
  ASSUME SpeechInv, NEW p \in Speakers, Note(p)
  PROVE  SpeechInv'
<1> DEFINE f == requests[p].file
           old == requests[p].record
           w == Record(old.life, old.gen, old.next + 1, old.holder, TRUE)
           left == requests[p].left - 1
           s == Sending(f, left, requests[p].seq + 1, w)
           fs == Written(p, w)
<1>1. /\ requests[p].pc = "sent" /\ Holding(p) /\ requests[p] \in RequestTypes
      /\ f \in Files
  BY DEF Note, Holding, SpeechInv
<1>2. /\ w \in Lived /\ w.life = Of(p).life /\ w.holder = Of(p).holder
      /\ w.holder = p
  <2>1. requests[p].record \in Lived
    BY <1>1 DEF RequestTypes
  <2>2. w \in Lived /\ w.life = Of(p).life /\ w.holder = Of(p).holder
    BY <2>1 DEF Lived, Of, Record
  <2> QED BY <1>1, <2>2 DEF SpeechInv
<1> HIDE DEF w
<1>3. /\ s \in RequestTypes /\ s.pc = "sending" /\ s.file = f /\ s.record = w
  BY <1>1, <1>2 DEF RequestTypes, Sending
<1> HIDE DEF s, left
<1>4. /\ fs \in [Files -> Lived] /\ fs[f] = w
      /\ \A g \in Files : g # f => fs[g] = files[g]
  BY <1>1, <1>2 DEF Written, SpeechInv
<1> HIDE DEF fs
<1>5. Harmless(fs, p)
  BY <1>2, <1>4 DEF Harmless
<1>6. runtime' = runtime /\ talk' = talk /\ path' = path
  BY DEF Note
<1>7. Go(p, IF left = 0 THEN Idle ELSE s, fs)
  BY DEF Note, w, s, left, fs
<1>8. CASE left = 0
  <2>1. Go(p, Idle, fs) /\ Idle \in RequestTypes /\ Follows(Idle, p)
    BY <1>7, <1>8, LivedType DEF Follows
  <2> QED BY <1>4, <1>5, <1>6, <2>1, GoKeeps
<1>9. CASE left # 0
  <2>1. Go(p, s, fs) /\ Follows(s, p)
    BY <1>1, <1>2, <1>3, <1>7, <1>9 DEF Follows
  <2>2. fs[s.file].life = s.record.life
    BY <1>3, <1>4
  <2> QED BY <1>3, <1>4, <1>5, <1>6, <2>1, <2>2, GoKeeps
<1> QED BY <1>8, <1>9

LEMMA LeaveKeeps ==
  ASSUME SpeechInv, NEW p \in Speakers, Leave(p)
  PROVE  SpeechInv'
<1>1. Go(p, Idle, files) /\ runtime' = runtime /\ talk' = talk /\ path' = path
  BY DEF Leave
<1>2. Idle \in RequestTypes /\ Follows(Idle, p) /\ files \in [Files -> Lived]
  BY LivedType DEF Follows, SpeechInv
<1>3. Harmless(files, p)
  BY DEF Harmless
<1> QED BY <1>1, <1>2, <1>3, GoKeeps

LEMMA ExpireKeeps ==
  ASSUME SpeechInv, Expire
  PROVE  SpeechInv'
<1>1. PICK f \in Files : files' = [files EXCEPT ![f].live = FALSE]
  BY DEF Expire
<1>2. /\ runtime' = runtime /\ talk' = talk /\ path' = path
      /\ requests' = requests
  BY DEF Expire
<1> DEFINE r == [files[f] EXCEPT !.live = FALSE]
<1>3. files[f] \in Lived
  BY DEF SpeechInv
<1>4. r \in Lived /\ r.life = files[f].life /\ r.holder = files[f].holder
  BY <1>3 DEF Lived
<1> HIDE DEF r
<1>5. files' = [files EXCEPT ![f] = r]
  BY <1>1 DEF r
<1>6. /\ files' \in [Files -> Lived]
      /\ \A g \in Files : /\ files'[g].life = files[g].life
                          /\ files'[g].holder = files[g].holder
  BY <1>4, <1>5 DEF SpeechInv
<1>7. /\ talk' \in [on : BOOLEAN, gen : Int]
      /\ requests' \in [Speakers -> RequestTypes]
  BY <1>2 DEF SpeechInv
<1>8. \A o \in Speakers : Holding(o)' <=> Holding(o)
  BY <1>2 DEF Holding
<1> QED BY <1>2, <1>6, <1>7, <1>8, QuietKeeps

LEMMA TurnKeeps ==
  ASSUME SpeechInv, Move \/ SpeechTurn \/ UNCHANGED speechVars
  PROVE  SpeechInv'
<1>1. /\ runtime' = runtime /\ path' = path
      /\ requests' = requests /\ files' = files
  BY DEF Move, SpeechTurn, speechVars
<1>2. talk' \in [on : BOOLEAN, gen : Int]
  <2>1. CASE Move
    <3>1. /\ talk \in [on : BOOLEAN, gen : Int]
          /\ \/ talk' = [talk EXCEPT !.on = FALSE]
             \/ talk' = [on |-> TRUE, gen |-> talk.gen + 1]
      BY <2>1 DEF Move, SpeechInv
    <3>2. CASE talk' = [talk EXCEPT !.on = FALSE]
      BY <3>1, <3>2
    <3>3. CASE talk' = [on |-> TRUE, gen |-> talk.gen + 1]
      BY <3>1, <3>3
    <3> QED BY <3>1, <3>2, <3>3
  <2>2. CASE SpeechTurn \/ UNCHANGED speechVars
    BY <2>2 DEF SpeechTurn, speechVars, SpeechInv
  <2> QED BY <2>1, <2>2
<1>3. \A o \in Speakers : Holding(o)' <=> Holding(o)
  BY <1>1 DEF Holding
<1>4. files' \in [Files -> Lived] /\ requests' \in [Speakers -> RequestTypes]
  BY <1>1 DEF SpeechInv
<1> QED BY <1>1, <1>2, <1>3, <1>4, QuietKeeps

LEMMA RespawnKeeps ==
  ASSUME SpeechInv, Respawn
  PROVE  SpeechInv'
<1>1. /\ runtime' = runtime + 1 /\ runtime < MaxLives /\ talk' = Off
      /\ path' \in {0, path} /\ files' = Swept(files, requests, path')
      /\ requests' = requests
  BY DEF Respawn
<1>2. runtime \in 1..MaxLives /\ MaxLives \in Nat
  BY RuntimeType, SpeechAssumption
<1>3. Lived \subseteq Lived' /\ \A r \in Lived : r.life # runtime'
  BY <1>1, <1>2 DEF Lived
<1>4. RequestTypes \subseteq RequestTypes'
  BY <1>3 DEF RequestTypes
<1>5. files' \in [Files -> Lived]
  BY <1>1, LivedType DEF Swept, SpeechInv
<1>6. files' \in [Files -> Lived']
  BY <1>3, <1>5
<1>7. requests' \in [Speakers -> RequestTypes']
  BY <1>1, <1>4 DEF SpeechInv
<1>8. \A o \in Speakers : (Holding(o)' <=> Holding(o)) /\ Of(o)' = Of(o)
  BY <1>1 DEF Holding, Of
<1>9. \A o \in Speakers : Of(o)'.life # runtime'
  <2>1. \A o \in Speakers : requests[o].record \in Lived
    BY DEF SpeechInv, RequestTypes
  <2> QED BY <1>3, <1>8, <2>1 DEF Of
<1>10. \A o \in Speakers : requests'[o].pc # "idle" =>
          /\ requests'[o].file \in Files
          /\ files'[requests'[o].file].life # runtime'
  BY <1>1, <1>3, <1>5 DEF SpeechInv
<1>11. \A a, b \in Speakers :
        Holding(a)' /\ Holding(b)' =>
           /\ requests'[a].file = requests'[b].file => a = b
           /\ Of(a)'.life = Of(b)'.life => requests'[a].file = requests'[b].file
  BY <1>1, <1>8 DEF SpeechInv
<1>12. \A o \in Speakers : Holding(o)' => Of(o)'.holder = o
  BY <1>8 DEF SpeechInv
<1>13. /\ runtime' \in Lives /\ path' \in {0} \cup Files
       /\ talk' \in [on : BOOLEAN, gen : Int]
  BY <1>1, <1>2 DEF Lives, Off, SpeechInv
<1> QED
  BY <1>6, <1>7, <1>9, <1>10, <1>11, <1>12, <1>13 DEF SpeechInv

-----------------------------------------------------------------------------
LEMMA InitHolds == SpeechInit => SpeechInv
<1> SUFFICES ASSUME SpeechInit PROVE SpeechInv
  OBVIOUS
<1>1. runtime = 1 /\ runtime \in Lives /\ path = 0
  BY SpeechAssumption DEF SpeechInit, Lives
<1>2. Empty \in Lived
  BY <1>1, SpeechAssumption DEF Empty, Record, Lived, None, Lives
<1>3. Idle \in RequestTypes /\ Idle.pc = "idle"
  BY <1>2 DEF Idle, RequestTypes
<1>4. files \in [Files -> Lived] /\ requests \in [Speakers -> RequestTypes]
  BY <1>2, <1>3 DEF SpeechInit
<1>5. \A p \in Speakers : requests[p].pc = "idle" /\ ~Holding(p)
  BY <1>3 DEF SpeechInit, Holding
<1>6. talk \in [on : BOOLEAN, gen : Int]
  BY DEF SpeechInit, Off
<1> QED BY <1>1, <1>4, <1>5, <1>6 DEF SpeechInv

\* The state files, the records and the requests that hold their locks keep
\* to their lives of the daemon (pcm_http.c:54, pcm_http.c:144).
THEOREM SpeechInvariant == SpeechSpec => []SpeechInv
<1>1. ASSUME SpeechInv, [SpeechNext]_speechVars PROVE SpeechInv'
  <2>1. CASE \E p \in Speakers :
               \/ Arrive(p) \/ OpenSession(p) \/ EndSession(p) \/ Submit(p)
               \/ HandOver(p) \/ Note(p) \/ Leave(p)
    BY <1>1, <2>1, ArriveKeeps, SessionsKeep, SubmitKeeps, HandOverKeeps,
       NoteKeeps, LeaveKeeps
  <2>2. CASE Expire \/ Respawn
    BY <1>1, <2>2, ExpireKeeps, RespawnKeeps
  <2>3. CASE Move \/ SpeechTurn \/ UNCHANGED speechVars
    BY <1>1, <2>3, TurnKeeps
  <2> QED BY <1>1, <2>1, <2>2, <2>3 DEF SpeechNext
<1> QED BY <1>1, InitHolds, PTL DEF SpeechSpec

-----------------------------------------------------------------------------
(* What gets past a restart.                                               *)

Said == [life : Int, gen : Int, seq : Int]

\* A frame of an earlier life that waits or was sent was still to be handed
\* over at the restart that ended that life, and so is what the requests of
\* that life have left.
CutInv ==
    /\ socket \in Seq(Said)
    /\ strays \subseteq caught
    /\ \A i \in DOMAIN socket : socket[i].life # runtime => socket[i] \in caught
    /\ \A p \in Speakers :
          Holding(p) =>
             /\ requests[p].left >= 1
             /\ Stray(p) => Remaining(p) \subseteq caught

\* A request that has a batch in hand when the daemon stays has it from the
\* present call, or has no more of it than before.
Dwindles(p) ==
    /\ requests'[p].left >= 1
    /\ \/ Of(p)'.life = runtime
       \/ Holding(p) /\ Of(p)'.life = Of(p).life /\ Remaining(p)' \subseteq Remaining(p)

LEMMA CutStays ==
  ASSUME CutInv, UNCHANGED <<runtime, caught>>,
         socket' \in Seq(Said), strays' \subseteq caught,
         \A i \in DOMAIN socket' :
            socket'[i].life # runtime => socket'[i] \in caught,
         \A p \in Speakers : Holding(p)' => Dwindles(p)
  PROVE  CutInv'
<1>1. \A p \in Speakers : Holding(p)' /\ Stray(p)' => Remaining(p)' \subseteq caught
  BY DEF CutInv, Dwindles, Stray, Of
<1> QED BY <1>1 DEF CutInv, Dwindles

\* What one request does concerns only its own batch.
LEMMA CutRequest ==
  ASSUME SpeechInv, CutInv, UNCHANGED <<runtime, socket, strays, caught>>,
         NEW p \in Speakers, NEW r, requests' = [requests EXCEPT ![p] = r],
         Holding(p)' => Dwindles(p)
  PROVE  CutInv'
<1>1. \A o \in Speakers : o # p => requests'[o] = requests[o]
  BY DEF SpeechInv
<1>2. \A o \in Speakers : Holding(o)' => Dwindles(o)
  BY <1>1 DEF Dwindles, CutInv, Holding, Of, Remaining
<1> QED BY <1>2, CutStays DEF CutInv

\* Its batch is over, or has not begun.
LEMMA CutOff ==
  ASSUME SpeechInv, CutInv, UNCHANGED <<runtime, socket, strays, caught>>,
         NEW p \in Speakers, NEW r, requests' = [requests EXCEPT ![p] = r],
         r.pc \notin {"sending", "sent"}
  PROVE  CutInv'
<1>1. ~Holding(p)'
  BY DEF Holding, SpeechInv
<1> QED BY <1>1, CutRequest

LEMMA ControlsCut ==
  ASSUME SpeechInv, CutInv, NEW p \in Speakers,
         Arrive(p) \/ OpenSession(p) \/ EndSession(p) \/ Leave(p)
  PROVE  CutInv'
<1>1. UNCHANGED <<runtime, socket, strays, caught>>
  BY DEF Arrive, OpenSession, EndSession, Leave, heard
<1>2. CASE Arrive(p)
  <2>1. PICK f \in Files :
          requests' = [requests EXCEPT ![p] = [Idle EXCEPT !.pc = "waiting",
                                                           !.file = f]]
    BY <1>2 DEF Arrive
  <2> DEFINE r == [Idle EXCEPT !.pc = "waiting", !.file = f]
  <2>2. r.pc = "waiting"
    BY DEF Idle
  <2> HIDE DEF r
  <2>3. requests' = [requests EXCEPT ![p] = r]
    BY <2>1 DEF r
  <2> QED BY <1>1, <2>2, <2>3, CutOff
<1>3. CASE OpenSession(p) \/ EndSession(p) \/ Leave(p)
  <2>1. requests' = [requests EXCEPT ![p] = Idle]
    BY <1>3 DEF OpenSession, EndSession, Leave, Go
  <2>2. Idle.pc = "idle"
    BY DEF Idle
  <2> QED BY <1>1, <2>1, <2>2, CutOff
<1> QED BY <1>2, <1>3

LEMMA SubmitCuts ==
  ASSUME SpeechInv, CutInv, NEW p \in Speakers, Submit(p)
  PROVE  CutInv'
<1>1. PICK sequence \in 0..(MaxFrames - 1), count \in 1..BatchLimit :
         requests' = [requests EXCEPT ![p] =
                Sending(requests[p].file, count, sequence, Kept(p))]
  BY DEF Submit
<1>2. /\ UNCHANGED <<runtime, socket, strays, caught>>
      /\ Kept(p).life = runtime
  BY DEF Submit, heard, Holds, Matches
<1> DEFINE r == Sending(requests[p].file, count, sequence, Kept(p))
<1>3. r.left = count /\ r.record = Kept(p) /\ count >= 1
  BY SpeechAssumption DEF Sending
<1> HIDE DEF r
<1>4. requests' = [requests EXCEPT ![p] = r] /\ requests'[p] = r
  BY <1>1 DEF r, SpeechInv
<1>5. Dwindles(p)
  BY <1>2, <1>3, <1>4 DEF Dwindles, Of
<1> QED BY <1>2, <1>4, <1>5, CutRequest

LEMMA HandOverCuts ==
  ASSUME SpeechInv, CutInv, NEW p \in Speakers, HandOver(p)
  PROVE  CutInv'
<1> DEFINE r == [requests[p] EXCEPT !.pc = "sent"]
           x == Frame(requests[p])
<1>1. /\ requests[p].pc = "sending" /\ requests[p] \in RequestTypes
      /\ requests' = [requests EXCEPT ![p] = r] /\ socket' = Append(socket, x)
      /\ UNCHANGED <<runtime, strays, caught>>
  BY DEF HandOver, SpeechInv, heard
<1>2. /\ Holding(p) /\ requests[p].left >= 1
      /\ requests[p].left \in Int /\ requests[p].seq \in Int
      /\ Of(p).life \in Int /\ Of(p).gen \in Int
  BY <1>1, SpeechAssumption DEF Holding, CutInv, RequestTypes, Lived, Of
<1>3. /\ r.pc = "sent" /\ r.left = requests[p].left /\ r.seq = requests[p].seq
      /\ r.record = requests[p].record
  BY <1>1 DEF RequestTypes
<1> HIDE DEF r
<1>4. /\ requests'[p] = r
      /\ \A o \in Speakers : o # p => requests'[o] = requests[o]
  BY <1>1 DEF SpeechInv
<1>5. x \in Said /\ x.life = Of(p).life /\ x \in Remaining(p)
  <2>1. requests[p].seq \in requests[p].seq..(requests[p].seq + requests[p].left - 1)
    BY <1>2
  <2> QED BY <1>1, <1>2, <2>1 DEF Said, Frame, Of, Remaining
<1> HIDE DEF x
<1>6. socket' \in Seq(Said) /\ \A i \in DOMAIN socket' :
         socket'[i] = x \/ (i \in DOMAIN socket /\ socket'[i] = socket[i])
  BY <1>1, <1>5 DEF CutInv
<1>7. x.life # runtime => x \in caught
  BY <1>2, <1>5 DEF CutInv, Stray, Of
<1>8. Remaining(p)' \subseteq Remaining(p)
  <2>1. \A n \in (requests[p].seq + 1)..(requests[p].seq + requests[p].left - 1) :
           n \in requests[p].seq..(requests[p].seq + requests[p].left - 1)
    BY <1>2
  <2> QED BY <1>1, <1>3, <1>4, <2>1 DEF Remaining
<1>9. Dwindles(p)
  BY <1>2, <1>3, <1>4, <1>8 DEF Dwindles, Of
<1>10. \A o \in Speakers : o # p /\ Holding(o)' => Dwindles(o)
  BY <1>4 DEF Dwindles, CutInv, Holding, Of, Remaining
<1> QED BY <1>1, <1>6, <1>7, <1>9, <1>10, CutStays DEF CutInv

LEMMA NoteCuts ==
  ASSUME SpeechInv, CutInv, NEW p \in Speakers, Note(p)
  PROVE  CutInv'
<1> DEFINE old == requests[p].record
           w == Record(old.life, old.gen, old.next + 1, old.holder, TRUE)
           left == requests[p].left - 1
           s == Sending(requests[p].file, left, requests[p].seq + 1, w)
<1>1. /\ requests[p].pc = "sent" /\ Holding(p) /\ requests[p] \in RequestTypes
      /\ UNCHANGED <<runtime, socket, strays, caught>>
      /\ requests[p].left >= 1
      /\ requests[p].left \in Int /\ requests[p].seq \in Int
  BY DEF Note, Holding, SpeechInv, heard, CutInv, RequestTypes
<1>2. requests' = [requests EXCEPT ![p] = IF left = 0 THEN Idle ELSE s]
  BY DEF Note, Go
<1>3. CASE left = 0
  <2>1. Idle.pc = "idle"
    BY DEF Idle
  <2> QED BY <1>1, <1>2, <1>3, <2>1, CutOff
<1>4. CASE left # 0
  <2>1. /\ s.pc = "sending" /\ s.left = left /\ s.seq = requests[p].seq + 1
        /\ s.record.life = Of(p).life /\ s.record.gen = Of(p).gen
    BY DEF Sending, Record, Of
  <2>2. left >= 1
    BY <1>1, <1>4
  <2> HIDE DEF s
  <2>3. requests' = [requests EXCEPT ![p] = s] /\ requests'[p] = s
    BY <1>2, <1>4 DEF SpeechInv
  <2>4. Remaining(p)' \subseteq Remaining(p)
    <3>1. (requests[p].seq + 1) + left - 1 = requests[p].seq + requests[p].left - 1
      BY <1>1
    <3> QED BY <1>1, <2>1, <2>3, <3>1 DEF Remaining, Of
  <2>5. Dwindles(p)
    BY <1>1, <2>1, <2>2, <2>3, <2>4 DEF Dwindles, Of
  <2> QED BY <1>1, <2>3, <2>5, CutRequest
<1> QED BY <1>3, <1>4

LEMMA LeastIndex ==
  ASSUME NEW T \in SUBSET Nat, T # {}
  PROVE  \E n \in T : \A k \in T : n <= k
<1>1. \E n \in T : \A k \in T : <<k, n>> \notin OpToRel(<, Nat)
  BY WFMin, NatLessThanWellFounded, Zenon
<1>2. \E n \in T : \A k \in T : ~(k < n)
  BY <1>1, Zenon DEF OpToRel
<1> QED BY <1>2

\* The requests stay, and the socket gives up frames or sends one.
LEMMA TurnCuts ==
  ASSUME SpeechInv, CutInv, Expire \/ Move \/ SpeechTurn \/ UNCHANGED speechVars
  PROVE  CutInv'
<1>1. UNCHANGED <<runtime, requests, caught>>
  BY DEF Expire, Move, SpeechTurn, speechVars
<1>2. \A o \in Speakers : Holding(o)' => Dwindles(o)
  BY <1>1 DEF Dwindles, CutInv, Holding, Of, Remaining
<1>3. CASE UNCHANGED <<socket, strays>>
  BY <1>1, <1>2, <1>3, CutStays DEF CutInv
<1>4. ASSUME NEW line, Pump(line)
      PROVE  CutInv'
  <2> DEFINE mine == Speakable(line)
             first == CHOOSE i \in mine : \A j \in mine : i <= j
  <2>1. CASE mine = {}
    <3>1. socket' = <<>> /\ strays' = strays
      BY <1>4, <2>1 DEF Pump, heard
    <3> QED BY <1>1, <1>2, <3>1, CutStays DEF CutInv
  <2>2. CASE mine # {}
    <3>1. socket \in Seq(Said) /\ Len(socket) \in Nat /\ DOMAIN socket = 1..Len(socket)
      BY DEF CutInv
    <3>2. mine \subseteq 1..Len(socket) /\ mine \in SUBSET Nat
      BY <3>1 DEF Speakable
    <3>3. \E i \in mine : \A j \in mine : i <= j
      BY <2>2, <3>2, LeastIndex
    <3>4. first \in mine
      BY <3>3
    <3>5. first \in 1..Len(socket)
      BY <3>2, <3>4
    <3>6. socket' = SubSeq(socket, first + 1, Len(socket)) /\ Transmit(socket[first])
      BY <1>4, <2>2 DEF Pump
    <3> HIDE DEF first, mine
    <3>7. /\ socket' \in Seq(Said)
          /\ \A i \in DOMAIN socket' : /\ i + first \in DOMAIN socket
                                       /\ socket'[i] = socket[i + first]
      BY <3>1, <3>5, <3>6
    <3>8. strays' \subseteq caught
      BY <3>1, <3>5, <3>6 DEF Transmit, heard, CutInv
    <3>9. \A i \in DOMAIN socket' :
             socket'[i].life # runtime => socket'[i] \in caught
      BY <3>7 DEF CutInv
    <3> QED BY <1>1, <1>2, <3>7, <3>8, <3>9, CutStays
  <2> QED BY <2>1, <2>2
<1> QED BY <1>3, <1>4 DEF Expire, Move, SpeechTurn, speechVars, heard

LEMMA RespawnCuts ==
  ASSUME SpeechInv, CutInv, Respawn
  PROVE  CutInv'
<1>1. /\ socket' = <<>> /\ UNCHANGED <<requests, strays>>
      /\ caught' = caught \cup UNION {Remaining(p) : p \in Speakers}
  BY DEF Respawn, heard
<1>2. \A p \in Speakers : /\ Holding(p)' => requests'[p].left >= 1
                          /\ Remaining(p)' \subseteq caught'
  BY <1>1 DEF CutInv, Holding, Remaining
<1> QED BY <1>1, <1>2 DEF CutInv

\* However many clients there are, and however often leases run out, requests
\* die and the daemon starts again over the state file or without it: what is
\* spoken to a later daemon than it was submitted to, a request had still in
\* hand when that one went; and no two requests speak under one generation,
\* unless one of them is such a leftover (pcm_http.c:156, gvs_pcm_pump.c:41).
THEOREM RestartsCutOff == SpeechSpec => []RestartCutsOff
<1>1. SpeechInit => CutInv
  <2> SUFFICES ASSUME SpeechInit PROVE CutInv
    OBVIOUS
  <2>1. socket = <<>> /\ strays = {} /\ caught = {}
    BY DEF SpeechInit
  <2>2. \A p \in Speakers : ~Holding(p)
    BY DEF SpeechInit, Holding, Idle
  <2> QED BY <2>1, <2>2 DEF CutInv
<1>2. ASSUME SpeechInv, CutInv, [SpeechNext]_speechVars PROVE CutInv'
  <2>1. CASE \E p \in Speakers :
               \/ Arrive(p) \/ OpenSession(p) \/ EndSession(p) \/ Submit(p)
               \/ HandOver(p) \/ Note(p) \/ Leave(p)
    BY <1>2, <2>1, ControlsCut, SubmitCuts, HandOverCuts, NoteCuts
  <2>2. CASE Expire \/ Move \/ SpeechTurn \/ UNCHANGED speechVars
    BY <1>2, <2>2, TurnCuts
  <2>3. CASE Respawn
    BY <1>2, <2>3, RespawnCuts
  <2> QED BY <1>2, <2>1, <2>2, <2>3 DEF SpeechNext
<1>3. SpeechInv /\ CutInv => RestartCutsOff
  <2> SUFFICES ASSUME SpeechInv, CutInv PROVE RestartCutsOff
    OBVIOUS
  <2>1. ASSUME NEW p \in Speakers, NEW o \in Speakers, p # o, Holding(p), Holding(o)
        PROVE  Stray(p) \/ Stray(o)
    BY <2>1 DEF SpeechInv, Stray, Of
  <2> QED BY <2>1 DEF CutInv, RestartCutsOff
<1> QED BY <1>1, <1>2, <1>3, SpeechInvariant, PTL DEF SpeechSpec

-----------------------------------------------------------------------------
(* How often a frame is spoken.                                            *)

\* The call of a record or of a frame.
CallOf(r) == <<r.life, r.gen>>

Calls == Lives \X Talks

FrameTypes == [life : Lives, gen : Talks, seq : Nat]

\* The frame n of the call c, or a later one, has been handed over and not
\* been lost.
Had(c, n) ==
    \/ n < spoken[c]
    \/ \E i \in DOMAIN socket : CallOf(socket[i]) = c /\ n <= socket[i].seq

\* A request that has the lock of the file f; one that has handed over a frame
\* it has not recorded.
Locked(f)   == \E p \in Speakers : Holding(p) /\ requests[p].file = f
Unnoted(f) == \E p \in Speakers : requests[p].pc = "sent" /\ requests[p].file = f

\* The records that a request goes on from, or may go on from.
Speaks(f) == (f = path \/ Locked(f)) /\ files[f].life # 0

\* The frame that comes next by the record has come before.
Owes(f) == Speaks(f) /\ ~Unnoted(f) /\ Had(CallOf(files[f]), files[f].next)

Owing == {f \in Files : Owes(f)}

\* The frame at i of the socket, if it is sent, is not the first of its number.
Repeat(i) ==
    \/ socket[i].seq < spoken[CallOf(socket[i])]
    \/ \E j \in 1..(i - 1) : /\ CallOf(socket[j]) = CallOf(socket[i])
                             /\ socket[i].seq <= socket[j].seq

Repeats == {i \in DOMAIN socket : Repeat(i)}

Fresh(c) == ~Had(c, 0)

Counts ==
    /\ spoken \in [Calls -> Nat] /\ socket \in Seq(FrameTypes)
    /\ again \in Nat /\ slips \in Nat /\ talk.gen \in Talks
    /\ \A f \in Files : files[f].gen \in Talks /\ files[f].next \in Nat

\* A request that sends goes on from the record of its file.
Recorded ==
    /\ \A p \in Speakers : requests[p].pc = "idle" => requests[p].file = 0
    /\ \A p \in Speakers :
          Holding(p) =>
             LET r == files[requests[p].file]
             IN  /\ Of(p).life = r.life /\ Of(p).gen = r.gen /\ Of(p).next = r.next
                 /\ requests[p].seq = r.next /\ r.life # 0
                 /\ r.life = runtime => r.gen <= talk.gen
                 /\ path # 0 /\ files[path].life = r.life => requests[p].file = path
    /\ \A f \in Files :
          f # path /\ (\A p \in Speakers : requests[p].file # f) => files[f].life = 0

\* No call begins that has been spoken to, except from its record.
Unspoken ==
    /\ \A c \in Calls :
          c[1] > runtime \/ (c[1] = runtime /\ c[2] > talk.gen) => Fresh(c)
    /\ path = 0 => Fresh(<<runtime, talk.gen>>)
    /\ path # 0 => \/ files[path] = Torn \/ Matches(files[path])
                   \/ Fresh(<<runtime, talk.gen>>)
    /\ \A f \in Files : Speaks(f) => ~Had(CallOf(files[f]), files[f].next + 1)

OnceInv ==
    /\ SpeechInv
    /\ Counts /\ Recorded /\ Unspoken
    /\ again + Cardinality(Repeats) + Cardinality(Owing) <= slips

-----------------------------------------------------------------------------
(* What is known of the calls and of the frames.                           *)

LEMMA Calling ==
  ASSUME OnceInv, NEW f \in Files, files[f].life # 0
  PROVE  /\ CallOf(files[f]) \in Calls /\ files[f].next \in Nat
         /\ files[f].life \in Lives /\ files[f].gen \in Talks
<1>1. files[f] \in Lived
  BY DEF OnceInv, SpeechInv
<1>2. files[f].life \in 0..MaxLives
  BY <1>1 DEF Lived
<1>3. files[f].life \in Lives
  BY <1>2, SpeechAssumption DEF Lives
<1>4. files[f].gen \in Talks /\ files[f].next \in Nat
  BY DEF OnceInv, Counts
<1> QED BY <1>3, <1>4 DEF CallOf, Calls

LEMMA HadEarlier ==
  ASSUME spoken \in [Calls -> Nat], socket \in Seq(FrameTypes),
         NEW c \in Calls, NEW n \in Nat, NEW m \in Nat, n <= m, Had(c, m)
  PROVE  Had(c, n)
<1>1. spoken[c] \in Nat /\ \A i \in DOMAIN socket : socket[i].seq \in Nat
  <2>1. \A i \in DOMAIN socket : socket[i] \in FrameTypes
    OBVIOUS
  <2>2. \A x \in FrameTypes : x.seq \in Nat
    BY DEF FrameTypes
  <2> QED BY <2>1, <2>2
<1>2. CASE m < spoken[c]
  BY <1>1, <1>2 DEF Had
<1>3. CASE \E i \in DOMAIN socket : CallOf(socket[i]) = c /\ m <= socket[i].seq
  BY <1>1, <1>3 DEF Had
<1> QED BY <1>2, <1>3 DEF Had

LEMMA HadStays ==
  ASSUME UNCHANGED <<spoken, socket>>
  PROVE  /\ \A c, n : Had(c, n)' <=> Had(c, n)
         /\ \A c : Fresh(c)' <=> Fresh(c)
         /\ Repeats' = Repeats
BY DEF Had, Fresh, Repeats, Repeat

\* No two files go on with one life of the daemon.
LEMMA OneRecord ==
  ASSUME OnceInv, NEW f \in Files, NEW g \in Files, Speaks(f), Speaks(g),
         files[f].life = files[g].life
  PROVE  f = g
<1>1. 0 \notin Files
  BY DEF Files
<1>2. ASSUME NEW p \in Speakers, Holding(p), requests[p].file = g, f = path
      PROVE  f = g
  BY <1>1, <1>2 DEF OnceInv, Recorded
<1>3. ASSUME NEW p \in Speakers, Holding(p), requests[p].file = f, g = path
      PROVE  f = g
  BY <1>1, <1>3 DEF OnceInv, Recorded
<1>4. ASSUME NEW p \in Speakers, Holding(p), requests[p].file = f,
             NEW o \in Speakers, Holding(o), requests[o].file = g
      PROVE  f = g
  <2>1. Of(p).life = files[f].life /\ Of(o).life = files[g].life
    BY <1>4 DEF OnceInv, Recorded
  <2> QED BY <1>4, <2>1 DEF OnceInv, SpeechInv
<1> QED BY <1>2, <1>3, <1>4 DEF Speaks, Locked

LEMMA FilesFinite == IsFiniteSet(Files)
<1>1. Cardinality(Speakers) \in Nat
  BY SpeechAssumption, FS_CardinalityType
<1> QED BY <1>1, FS_Interval DEF Files

LEMMA CountsFinite ==
  ASSUME OnceInv
  PROVE  /\ IsFiniteSet(Repeats) /\ Cardinality(Repeats) \in Nat
         /\ IsFiniteSet(Owing) /\ Cardinality(Owing) \in Nat
         /\ again \in Nat /\ slips \in Nat
         /\ again + Cardinality(Repeats) + Cardinality(Owing) <= slips
<1>1. DOMAIN socket = 1..Len(socket) /\ Len(socket) \in Nat
  BY DEF OnceInv, Counts
<1>2. IsFiniteSet(DOMAIN socket)
  BY <1>1, FS_Interval
<1>3. IsFiniteSet(Repeats) /\ IsFiniteSet(Owing)
  BY <1>2, FilesFinite, FS_Subset DEF Repeats, Owing
<1>4. Cardinality(Repeats) \in Nat /\ Cardinality(Owing) \in Nat
  BY <1>3, FS_CardinalityType
<1> QED BY <1>3, <1>4 DEF OnceInv, Counts

LEMMA NoMore ==
  ASSUME NEW S, NEW T, IsFiniteSet(S), T \subseteq S
  PROVE  Cardinality(T) \in Nat /\ Cardinality(S) \in Nat /\ Cardinality(T) <= Cardinality(S)
BY FS_Subset, FS_CardinalityType

LEMMA OneMore ==
  ASSUME NEW S, NEW T, NEW x, IsFiniteSet(S), T \subseteq S \cup {x}
  PROVE  /\ Cardinality(T) \in Nat /\ Cardinality(S) \in Nat
         /\ Cardinality(T) <= Cardinality(S) + 1
<1>1. /\ IsFiniteSet(S \cup {x})
      /\ Cardinality(S \cup {x}) = IF x \in S THEN Cardinality(S) ELSE Cardinality(S) + 1
  BY FS_AddElement
<1>2. Cardinality(S) \in Nat
  BY FS_CardinalityType
<1>3. /\ Cardinality(T) \in Nat /\ Cardinality(S \cup {x}) \in Nat
      /\ Cardinality(T) <= Cardinality(S \cup {x})
  BY <1>1, NoMore
<1> QED BY <1>1, <1>2, <1>3

LEMMA OneLess ==
  ASSUME NEW S, NEW T, NEW x \in S, IsFiniteSet(S), T \subseteq S \ {x}
  PROVE  /\ Cardinality(T) \in Nat /\ Cardinality(S) \in Nat
         /\ Cardinality(T) + 1 <= Cardinality(S)
<1>1. IsFiniteSet(S \ {x}) /\ Cardinality(S \ {x}) = Cardinality(S) - 1
  BY FS_RemoveElement
<1>2. Cardinality(S) \in Nat
  BY FS_CardinalityType
<1>3. /\ Cardinality(T) \in Nat /\ Cardinality(S \ {x}) \in Nat
      /\ Cardinality(T) <= Cardinality(S \ {x})
  BY <1>1, NoMore
<1> QED BY <1>1, <1>2, <1>3

\* The account where nothing is handed over, sent or lost.
LEMMA QuietCount ==
  ASSUME OnceInv, UNCHANGED <<spoken, socket, again, slips>>, Owing' \subseteq Owing
  PROVE  again' + Cardinality(Repeats)' + Cardinality(Owing)' <= slips'
<1>1. Repeats' = Repeats
  BY HadStays
<1>2. Cardinality(Owing') \in Nat /\ Cardinality(Owing') <= Cardinality(Owing)
  BY CountsFinite, NoMore
<1> QED BY <1>1, <1>2, CountsFinite

-----------------------------------------------------------------------------
(* A request writes its record, or leaves.                                 *)

LEMMA WriteOnce ==
  ASSUME OnceInv, SpeechInv', NEW p \in Speakers, NEW r \in RequestTypes, NEW w \in Lived,
         NEW f \in Files, requests[p].file = f, Go(p, r, Written(p, w)),
         UNCHANGED <<runtime, talk, path, socket, spoken, again>>,
         slips' \in {slips, slips + 1},
         \/ r = Idle
         \/ /\ Holding(p) /\ r.pc = "sending" /\ r.file = f
            /\ r.record = w /\ r.seq = w.next /\ w.life = files[r.file].life
            /\ w.life # 0 /\ (w.life = runtime => w.gen <= talk.gen),
         w.gen \in Talks, w.next \in Nat,
         \/ w = files[f]
         \/ \A o \in Speakers \ {p} : ~(Holding(o) /\ requests[o].file = f),
         w.life \in {0, runtime, files[f].life},
         f = path =>
            w = Torn \/ Matches(w) \/ Fresh(<<runtime, talk.gen>>),
         w.life # 0 /\ (f = path \/ Locked(f)) =>
            /\ ~Had(CallOf(w), w.next + 1)
            /\ Had(CallOf(w), w.next) =>
                  \/ Owes(f) \/ slips' = slips + 1
                  \/ \E o \in Speakers \ {p} :
                        requests[o].pc = "sent" /\ requests[o].file = f
  PROVE  OnceInv'
<1> DEFINE fs == Written(p, w)
<1>1. /\ requests' = [requests EXCEPT ![p] = r]
      /\ files' = Swept(fs, requests', path)
      /\ requests \in [Speakers -> RequestTypes] /\ files \in [Files -> Lived]
  BY DEF Go, OnceInv, SpeechInv
<1>2. /\ requests'[p] = r
      /\ \A o \in Speakers \ {p} : requests'[o] = requests[o]
  BY <1>1
<1>3. fs = [files EXCEPT ![f] = w]
  BY DEF Written
<1> HIDE DEF fs
<1>4. /\ fs[f] = w
      /\ \A g \in Files : g # f => fs[g] = files[g]
  BY <1>1, <1>3
<1>5. /\ \A g \in Files : files'[g] = fs[g] \/ files'[g] = Empty
      /\ \A g \in Files : g = path \/ (\E o \in Speakers : requests'[o].file = g)
                            => files'[g] = fs[g]
      /\ \A g \in Files : g # path /\ (\A o \in Speakers : requests'[o].file # g)
                            => files'[g] = Empty
  BY <1>1 DEF Swept
<1>6. /\ Empty.life = 0 /\ Empty.gen = 0 /\ Empty.next = 0 /\ 0 \in Talks
      /\ Idle.pc = "idle" /\ Idle.file = 0 /\ 0 \notin Files
  BY SpeechAssumption DEF Empty, Record, Idle, Talks, Files
<1>7. /\ \A o \in Speakers : Holding(o)' => Holding(o) /\ requests'[o].file = requests[o].file
      /\ \A o \in Speakers \ {p} : (Holding(o)' <=> Holding(o)) /\ Of(o)' = Of(o)
  BY <1>2, <1>6 DEF Holding, Of
<1>8. \A g \in Files : Locked(g)' => Locked(g)
  BY <1>7 DEF Locked
<1>9. \A g \in Files : Speaks(g)' =>
         /\ files'[g] = fs[g] /\ fs[g].life # 0 /\ (g = path \/ Locked(g))
  BY <1>5, <1>6, <1>8 DEF Speaks
<1>10. \A g \in Files : g # f /\ Speaks(g)' => Speaks(g) /\ files'[g] = files[g]
  BY <1>4, <1>9 DEF Speaks
<1>11. \A g \in Files : g # f => (Unnoted(g)' <=> Unnoted(g))
  <2>1. p \in Speakers /\ (r.pc = "sent" => r.file = f) /\ r.pc # "sent"
    BY <1>6
  <2> QED BY <1>2, <2>1 DEF Unnoted
<1>12. Counts'
  BY <1>4, <1>5, <1>6 DEF OnceInv, Counts
<1>13. Recorded'
  <2>1. \A o \in Speakers : requests'[o].pc = "idle" => requests'[o].file = 0
    BY <1>2, <1>6 DEF OnceInv, Recorded
  <2>2. ASSUME NEW o \in Speakers, Holding(o)'
        PROVE  LET n == files'[requests'[o].file]
               IN  /\ Of(o)'.life = n.life /\ Of(o)'.gen = n.gen /\ Of(o)'.next = n.next
                   /\ requests'[o].seq = n.next /\ n.life # 0
                   /\ n.life = runtime => n.gen <= talk.gen
                   /\ path # 0 /\ files'[path].life = n.life => requests'[o].file = path
    <3> DEFINE g == requests[o].file
               n == files'[g]
    <3>1. /\ Holding(o) /\ requests'[o].file = g /\ g \in Files
      BY <1>7, <2>2 DEF OnceInv, SpeechInv, Holding
    <3>2. n = fs[g]
      BY <1>5, <3>1
    <3>3. path # 0 => path \in Files /\ files'[path] = fs[path]
      BY <1>5 DEF OnceInv, SpeechInv
    <3>4. Of(o)'.life = runtime => requests'[o].file = path
      BY <2>2 DEF SpeechInv
    <3> HIDE DEF n, g
    <3>5. CASE o = p
      <4>1. g = f /\ r # Idle
        BY <1>2, <1>6, <2>2, <3>1, <3>5 DEF Holding, g
      <4>2. n = w
        BY <1>4, <3>2, <4>1
      <4>3. Of(o)' = w /\ requests'[o].seq = w.next /\ w.life = files[f].life
        BY <1>2, <3>5, <4>1 DEF Of
      <4>4. path # 0 /\ files'[path].life = n.life => g = path
        <5>1. CASE f = path
          BY <4>1, <5>1
        <5>2. CASE f # path
          BY <1>4, <3>1, <3>3, <3>5, <4>1, <4>2, <4>3, <5>2 DEF OnceInv, Recorded, Of, g
        <5> QED BY <5>1, <5>2
      <4> QED BY <3>1, <4>1, <4>2, <4>3, <4>4 DEF n
    <3>6. CASE o # p
      <4>1. fs[g] = files[g]
        BY <1>4, <3>1, <3>6 DEF g
      <4>2. /\ Of(o)' = Of(o) /\ requests'[o] = requests[o]
        BY <1>2, <1>7, <3>6
      <4>3. /\ Of(o).life = files[g].life /\ Of(o).gen = files[g].gen
            /\ Of(o).next = files[g].next
            /\ requests[o].seq = files[g].next /\ files[g].life # 0
            /\ files[g].life = runtime => files[g].gen <= talk.gen
            /\ path # 0 /\ files[path].life = files[g].life => g = path
        BY <3>1 DEF OnceInv, Recorded, g
      <4>4. path # 0 /\ files'[path].life = n.life => g = path
        <5>1. CASE path # f
          BY <1>4, <3>2, <3>3, <4>1, <4>3, <5>1
        <5>2. CASE path = f /\ path # 0 /\ files'[path].life = n.life
          <6>1. w.life = files[g].life
            BY <1>4, <3>2, <3>3, <4>1, <5>2
          <6>2. w.life = runtime => g = path
            BY <3>1, <3>4, <4>2, <4>3, <6>1
          <6>3. w.life = files[f].life => g = path
            BY <4>3, <5>2, <6>1
          <6> QED BY <4>3, <6>1, <6>2, <6>3
        <5> QED BY <5>1, <5>2
      <4> QED BY <3>1, <3>2, <4>1, <4>2, <4>3, <4>4 DEF n
    <3> QED BY <3>5, <3>6
  <2>3. \A g \in Files :
          g # path /\ (\A o \in Speakers : requests'[o].file # g) => files'[g].life = 0
    BY <1>5, <1>6
  <2> QED BY <2>1, <2>2, <2>3 DEF Recorded
<1>14. Unspoken'
  <2>1. path # 0 => \/ files'[path] = Torn \/ Matches(files'[path])
                    \/ Fresh(<<runtime, talk.gen>>)
    <3>1. path # 0 => path \in Files /\ files'[path] = fs[path]
      BY <1>5 DEF OnceInv, SpeechInv
    <3> QED BY <1>4, <3>1 DEF OnceInv, Unspoken
  <2>2. ASSUME NEW g \in Files, Speaks(g)'
        PROVE  ~Had(CallOf(files'[g]), files'[g].next + 1)
    <3>1. CASE g = f
      BY <1>4, <1>9, <2>2, <3>1
    <3>2. CASE g # f
      BY <1>10, <2>2, <3>2 DEF OnceInv, Unspoken
    <3> QED BY <3>1, <3>2
  <2>3. Matches(files'[path]) => Matches(files[path])' /\ Torn' = Torn
    BY DEF Matches, Torn, Record
  <2> QED BY <2>1, <2>2, <2>3, HadStays DEF OnceInv, Unspoken, Matches, CallOf
<1>15. \A g \in Files : g # f /\ Owes(g)' => Owes(g)
  BY <1>10, <1>11, HadStays DEF Owes, CallOf
<1>16. Owes(f)' => Owes(f) \/ slips' = slips + 1
  <2>1. Owes(f)' => /\ w.life # 0 /\ (f = path \/ Locked(f)) /\ Had(CallOf(w), w.next)
                    /\ \A o \in Speakers \ {p} :
                          ~(requests[o].pc = "sent" /\ requests[o].file = f)
    <3> SUFFICES ASSUME Owes(f)'
                 PROVE  /\ w.life # 0 /\ (f = path \/ Locked(f)) /\ Had(CallOf(w), w.next)
                        /\ \A o \in Speakers \ {p} :
                              ~(requests[o].pc = "sent" /\ requests[o].file = f)
      OBVIOUS
    <3>1. Speaks(f)' /\ ~Unnoted(f)' /\ Had(CallOf(files[f]), files[f].next)'
      BY DEF Owes, CallOf
    <3>2. files'[f] = w /\ w.life # 0 /\ (f = path \/ Locked(f))
      BY <1>4, <1>9, <3>1
    <3>3. Had(CallOf(w), w.next)
      BY <3>1, <3>2, HadStays DEF CallOf
    <3>4. \A o \in Speakers \ {p} : ~(requests[o].pc = "sent" /\ requests[o].file = f)
      BY <1>2, <3>1 DEF Unnoted
    <3> QED BY <3>2, <3>3, <3>4
  <2> QED BY <2>1
<1>17. again' + Cardinality(Repeats)' + Cardinality(Owing)' <= slips'
  <2>1. CASE slips' = slips + 1
    <3>1. Owing' \subseteq Owing \cup {f}
      BY <1>15 DEF Owing
    <3>2. Repeats' = Repeats
      BY HadStays
    <3>3. Cardinality(Owing') \in Nat /\ Cardinality(Owing') <= Cardinality(Owing) + 1
      BY <3>1, OneMore, CountsFinite
    <3> QED BY <2>1, <3>2, <3>3, CountsFinite
  <2>2. CASE slips' = slips /\ slips' # slips + 1
    <3>1. \A g \in Files : Owes(g)' => Owes(g)
      BY <1>15, <1>16, <2>2
    <3>2. Owing' \subseteq Owing
      BY <3>1 DEF Owing
    <3> QED BY <2>2, <3>2, QuietCount
  <2>3. slips' \in {slips, slips + 1} /\ slips \in Nat
    BY CountsFinite
  <2> QED BY <2>1, <2>2, <2>3
<1> QED BY <1>12, <1>13, <1>14, <1>17 DEF OnceInv

LEMMA OpenOnce ==
  ASSUME OnceInv, NEW p \in Speakers, OpenSession(p)
  PROVE  OnceInv'
<1> DEFINE f == requests[p].file
           k == Kept(p)
<1>1. /\ requests[p].pc = "waiting" /\ f \in Files /\ k = files[f] /\ k \in Lived
      /\ \A o \in Speakers : ~(Holding(o) /\ requests[o].file = f)
      /\ k # Torn
      /\ UNCHANGED <<runtime, talk, path, socket, spoken, again, slips>>
  BY DEF OpenSession, Admitted, Readable, Kept, Holding, OnceInv, SpeechInv, heard
<1>2. SpeechInv' /\ SpeechInv
  BY SessionsKeep DEF OnceInv
<1>3. PICK holder \in {p, "lost"}, torn \in BOOLEAN :
        Go(p, Idle, Written(p, IF torn THEN Torn
            ELSE Record(runtime, talk.gen, Continued(k), holder, TRUE)))
  BY DEF OpenSession
<1> DEFINE n == Record(runtime, talk.gen, Continued(k), holder, TRUE)
           w == IF torn THEN Torn ELSE n
<1>4. /\ Idle \in RequestTypes /\ Torn \in Lived /\ Torn.life = 0 /\ Torn.gen = 0
      /\ Torn.next = 0 /\ 0 \in Talks /\ Idle.pc = "idle"
  BY <1>2, LivedType, SpeechAssumption DEF Torn, Record, Talks, Idle
<1>5. /\ runtime # 0 /\ talk.gen \in Talks /\ k.next \in Nat /\ k.gen \in Talks
      /\ runtime \in Lives /\ <<runtime, talk.gen>> \in Calls
  BY <1>1, <1>2, RuntimeType DEF OnceInv, Counts, SpeechInv, Calls
<1>6. /\ n.life = runtime /\ n.gen = talk.gen /\ n.next = Continued(k)
      /\ Continued(k) \in Nat /\ CallOf(n) = <<runtime, talk.gen>>
  BY <1>5 DEF Record, Continued, CallOf
<1>7. n \in Lived
  BY <1>2, <1>3, <1>5, <1>6, RuntimeType DEF Record, Lived, SpeechInv
<1>8. ~Locked(f) /\ ~Unnoted(f)
  BY <1>1 DEF Locked, Unnoted, Holding
<1>9. ASSUME f = path
      PROVE  /\ ~Had(CallOf(n), n.next + 1)
             /\ Had(CallOf(n), n.next) => Owes(f)
  <2>1. CASE Matches(k)
    <3>1. CallOf(k) = CallOf(n) /\ k.next = n.next /\ Speaks(f)
      BY <1>1, <1>5, <1>6, <1>9, <2>1 DEF Matches, CallOf, Continued, Speaks
    <3> QED BY <1>1, <1>8, <3>1 DEF OnceInv, Unspoken, Owes
  <2>2. CASE ~Matches(k)
    <3>1. Fresh(<<runtime, talk.gen>>) /\ n.next = 0
      <4>1. path # 0
        BY <1>1, <1>9 DEF Files
      <4> QED BY <1>1, <1>6, <1>9, <2>2, <4>1 DEF OnceInv, Unspoken, Continued
    <3>2. ~Had(CallOf(n), 0) /\ CallOf(n) \in Calls
      BY <1>5, <1>6, <3>1 DEF Fresh
    <3> HIDE DEF n
    <3>3. ~Had(CallOf(n), 1)
      BY <3>2, HadEarlier DEF OnceInv, Counts
    <3> QED BY <3>1, <3>2, <3>3
  <2> QED BY <2>1, <2>2
<1>10. Matches(n)
  BY <1>6 DEF Matches
<1> HIDE DEF n
<1>11. /\ w \in Lived /\ w.gen \in Talks /\ w.next \in Nat /\ w.life \in {0, runtime}
       /\ w = Torn \/ Matches(w)
  BY <1>4, <1>5, <1>6, <1>7, <1>10
<1>12. w.life # 0 /\ f = path =>
         ~Had(CallOf(w), w.next + 1) /\ (Had(CallOf(w), w.next) => Owes(f))
  BY <1>4, <1>9
<1>13. Go(p, Idle, Written(p, w))
  BY <1>3 DEF n
<1> HIDE DEF w
<1> QED BY <1>1, <1>2, <1>4, <1>8, <1>11, <1>12, <1>13, WriteOnce

LEMMA EndOnce ==
  ASSUME OnceInv, NEW p \in Speakers, EndSession(p)
  PROVE  OnceInv'
<1> DEFINE f == requests[p].file
           k == Kept(p)
<1>1. /\ requests[p].pc = "waiting" /\ f \in Files /\ k = files[f] /\ k \in Lived
      /\ \A o \in Speakers : ~(Holding(o) /\ requests[o].file = f)
      /\ Matches(k)
      /\ UNCHANGED <<runtime, talk, path, socket, spoken, again, slips>>
  BY DEF EndSession, Admitted, Holds, Kept, Holding, OnceInv, SpeechInv, heard
<1>2. SpeechInv' /\ SpeechInv
  BY SessionsKeep DEF OnceInv
<1>3. PICK torn \in BOOLEAN :
        Go(p, Idle, Written(p, IF torn THEN Torn
            ELSE [k EXCEPT !.holder = None, !.live = FALSE]))
  BY DEF EndSession
<1> DEFINE n == [k EXCEPT !.holder = None, !.live = FALSE]
           w == IF torn THEN Torn ELSE n
<1>4. /\ Idle \in RequestTypes /\ Torn \in Lived /\ Torn.life = 0 /\ Torn.gen = 0
      /\ Torn.next = 0 /\ 0 \in Talks /\ Idle.pc = "idle"
  BY <1>2, LivedType, SpeechAssumption DEF Torn, Record, Talks, Idle
<1>5. /\ k.next \in Nat /\ k.gen \in Talks /\ k.life = runtime /\ runtime # 0
  BY <1>1, <1>2, RuntimeType DEF OnceInv, Counts, Matches
<1>6. n \in Lived
  BY <1>1, SpeechAssumption DEF Lived, None
<1>7. n.life = k.life /\ n.gen = k.gen /\ n.next = k.next
  BY <1>1 DEF Lived
<1> HIDE DEF n
<1>8. ~Locked(f) /\ ~Unnoted(f)
  BY <1>1 DEF Locked, Unnoted, Holding
<1>9. ASSUME f = path
      PROVE  /\ ~Had(CallOf(n), n.next + 1)
             /\ Had(CallOf(n), n.next) => Owes(f)
  <2>1. CallOf(k) = CallOf(n) /\ k.next = n.next /\ Speaks(f)
    BY <1>1, <1>5, <1>7, <1>9 DEF CallOf, Speaks
  <2> QED BY <1>1, <1>8, <2>1 DEF OnceInv, Unspoken, Owes
<1>10. Matches(n)
  BY <1>1, <1>7 DEF Matches
<1>11. /\ w \in Lived /\ w.gen \in Talks /\ w.next \in Nat /\ w.life \in {0, runtime}
       /\ w = Torn \/ Matches(w)
  BY <1>4, <1>5, <1>6, <1>7, <1>10
<1>12. w.life # 0 /\ f = path =>
         ~Had(CallOf(w), w.next + 1) /\ (Had(CallOf(w), w.next) => Owes(f))
  BY <1>4, <1>9
<1>13. Go(p, Idle, Written(p, w))
  BY <1>3 DEF n
<1> HIDE DEF w
<1> QED BY <1>1, <1>2, <1>4, <1>8, <1>11, <1>12, <1>13, WriteOnce

LEMMA NoteOnce ==
  ASSUME OnceInv, NEW p \in Speakers, Note(p)
  PROVE  OnceInv'
<1> DEFINE f == requests[p].file
           old == requests[p].record
           w == Record(old.life, old.gen, old.next + 1, old.holder, TRUE)
           left == requests[p].left - 1
           s == Sending(f, left, requests[p].seq + 1, w)
           r == IF left = 0 THEN Idle ELSE s
<1>1. /\ requests[p].pc = "sent" /\ Holding(p) /\ requests[p] \in RequestTypes
      /\ f \in Files
      /\ UNCHANGED <<runtime, talk, path, socket, spoken, again, slips>>
  BY DEF Note, Holding, OnceInv, SpeechInv, heard
<1>2. SpeechInv' /\ SpeechInv
  BY NoteKeeps DEF OnceInv
<1>3. /\ old.life = files[f].life /\ old.gen = files[f].gen /\ old.next = files[f].next
      /\ requests[p].seq = files[f].next /\ files[f].life # 0
      /\ files[f].life = runtime => files[f].gen <= talk.gen
      /\ files[f].next \in Nat /\ files[f].gen \in Talks
  BY <1>1 DEF OnceInv, Recorded, Counts, Of
<1>4. /\ w.life = old.life /\ w.gen = old.gen /\ w.next = old.next + 1
  BY DEF Record
<1>5. old \in Lived
  BY <1>1 DEF RequestTypes
<1>6. w \in Lived
  BY <1>5 DEF Lived, Record
<1> HIDE DEF w
<1>7. left \in Int /\ s.pc = "sending" /\ s.file = f /\ s.record = w /\ s.seq = w.next
  BY <1>1, <1>3, <1>4 DEF Sending, RequestTypes
<1>8. s \in RequestTypes
  BY <1>1, <1>3, <1>6, <1>7 DEF Sending, RequestTypes
<1>9. Go(p, r, Written(p, w))
  BY DEF Note, w
<1> HIDE DEF s, left
<1>10. r \in RequestTypes /\ (r = Idle \/ r = s)
  BY <1>2, <1>8, LivedType
<1> HIDE DEF r
<1>11. CallOf(w) = CallOf(files[f]) /\ w.next \in Nat /\ w.gen \in Talks
       /\ w.next = files[f].next + 1
  BY <1>3, <1>4 DEF CallOf
<1>12. Speaks(f) /\ CallOf(files[f]) \in Calls
  BY <1>1, <1>3, Calling DEF Speaks, Locked
<1>13. ~Had(CallOf(w), w.next)
  BY <1>1, <1>11, <1>12 DEF OnceInv, Unspoken
<1>14. ~Had(CallOf(w), w.next + 1)
  <2>1. w.next + 1 \in Nat /\ w.next <= w.next + 1
    BY <1>11
  <2> QED BY <1>11, <1>12, <1>13, <2>1, HadEarlier DEF OnceInv, Counts
<1>15. f = path => w = Torn \/ Matches(w) \/ Fresh(<<runtime, talk.gen>>)
  <2>1. ASSUME f = path, ~Matches(files[f]) PROVE Fresh(<<runtime, talk.gen>>)
    <3>1. path # 0 /\ files[path] # Torn
      BY <1>1, <1>2, <1>3, <2>1, LivedType DEF Files
    <3> QED BY <2>1, <3>1 DEF OnceInv, Unspoken
  <2>2. Matches(files[f]) => Matches(w)
    BY <1>3, <1>4 DEF Matches
  <2> QED BY <2>1, <2>2
<1>16. \A o \in Speakers \ {p} : ~(Holding(o) /\ requests[o].file = f)
  BY <1>1, <1>2 DEF SpeechInv
<1>17. \/ r = Idle
       \/ /\ Holding(p) /\ r.pc = "sending" /\ r.file = f /\ r.record = w
          /\ r.seq = w.next /\ w.life = files[r.file].life
          /\ w.life # 0 /\ (w.life = runtime => w.gen <= talk.gen)
  BY <1>1, <1>3, <1>4, <1>7, <1>10
<1>18. w.life = files[f].life
  BY <1>3, <1>4
<1> QED BY <1>1, <1>2, <1>6, <1>9, <1>10, <1>11, <1>13, <1>14, <1>15, <1>16, <1>17, <1>18,
           WriteOnce

LEMMA LeaveOnce ==
  ASSUME OnceInv, NEW p \in Speakers, Leave(p)
  PROVE  OnceInv'
<1> DEFINE f == requests[p].file
           w == files[f]
<1>1. /\ requests[p].pc # "idle" /\ f \in Files /\ Go(p, Idle, files)
      /\ slips' = IF requests[p].pc = "sent" THEN slips + 1 ELSE slips
      /\ UNCHANGED <<runtime, talk, path, socket, spoken, again>>
  BY DEF Leave, OnceInv, SpeechInv, heard
<1>2. SpeechInv' /\ SpeechInv
  BY LeaveKeeps DEF OnceInv
<1>3. Written(p, w) = files /\ w \in Lived
  BY <1>1 DEF Written, OnceInv, SpeechInv
<1>4. w.gen \in Talks /\ w.next \in Nat
  BY <1>1 DEF OnceInv, Counts
<1>5. Idle \in RequestTypes
  BY <1>2, LivedType
<1>6. f = path => w = Torn \/ Matches(w) \/ Fresh(<<runtime, talk.gen>>)
  BY <1>1 DEF OnceInv, Unspoken, Files
<1>7. ASSUME w.life # 0, f = path \/ Locked(f)
      PROVE  /\ ~Had(CallOf(w), w.next + 1)
             /\ Had(CallOf(w), w.next) =>
                  \/ Owes(f) \/ slips' = slips + 1
                  \/ \E o \in Speakers \ {p} :
                        requests[o].pc = "sent" /\ requests[o].file = f
  <2>1. Speaks(f)
    BY <1>7 DEF Speaks
  <2>2. ~Had(CallOf(w), w.next + 1)
    BY <1>1, <2>1 DEF OnceInv, Unspoken
  <2>3. CASE requests[p].pc = "sent"
    BY <1>1, <2>2, <2>3
  <2>4. CASE requests[p].pc # "sent"
    BY <2>1, <2>2, <2>4 DEF Owes, Unnoted
  <2> QED BY <2>3, <2>4
<1> HIDE DEF w
<1>8. w = files[f]
  BY DEF w
<1> QED BY <1>1, <1>2, <1>3, <1>4, <1>5, <1>6, <1>7, <1>8, WriteOnce

-----------------------------------------------------------------------------
(* A request comes, is admitted and hands over a frame.                    *)

LEMMA ArriveOnce ==
  ASSUME OnceInv, NEW p \in Speakers, Arrive(p)
  PROVE  OnceInv'
<1>1. SpeechInv /\ SpeechInv'
  BY ArriveKeeps DEF OnceInv
<1>2. PICK f \in Files :
          /\ IF path # 0 THEN f = path
             ELSE \A o \in Speakers : requests[o].file # f
          /\ path' = f
          /\ requests' = [requests EXCEPT ![p] = [Idle EXCEPT !.pc = "waiting",
                                                              !.file = f]]
  BY DEF Arrive
<1>3. /\ UNCHANGED <<runtime, talk, socket, files, spoken, again, slips>>
      /\ requests[p].pc = "idle" /\ 0 \notin Files
  BY DEF Arrive, Files, heard
<1> DEFINE r == [Idle EXCEPT !.pc = "waiting", !.file = f]
<1>4. r.pc = "waiting" /\ r.file = f
  BY DEF Idle
<1> HIDE DEF r
<1>5. /\ requests'[p] = r
      /\ \A o \in Speakers : o # p => requests'[o] = requests[o]
  BY <1>1, <1>2 DEF SpeechInv, r
<1>6. \A o \in Speakers : Holding(o)' <=> Holding(o)
  BY <1>3, <1>4, <1>5 DEF Holding
<1>7. \A o \in Speakers : Holding(o) => o # p
  BY <1>3 DEF Holding
<1>8. path = 0 => files[f].life = 0
  BY <1>2, <1>3 DEF OnceInv, Recorded
<1>9. \A g \in Files : (Locked(g)' <=> Locked(g)) /\ (Unnoted(g)' <=> Unnoted(g))
  BY <1>3, <1>4, <1>5, <1>6, <1>7 DEF Locked, Unnoted
<1>10. \A g \in Files : Speaks(g)' => Speaks(g)
  BY <1>2, <1>3, <1>8, <1>9 DEF Speaks
<1>11. Owing' \subseteq Owing
  <2>1. \A g \in Files : Owes(g)' => Owes(g)
    BY <1>3, <1>9, <1>10, HadStays DEF Owes, CallOf
  <2> QED BY <2>1 DEF Owing
<1>12. Counts'
  BY <1>3 DEF OnceInv, Counts
<1>13. Recorded'
  <2>1. \A o \in Speakers : requests'[o].pc = "idle" => requests'[o].file = 0
    BY <1>4, <1>5 DEF OnceInv, Recorded
  <2>2. ASSUME NEW o \in Speakers, Holding(o)'
        PROVE  LET n == files'[requests'[o].file]
               IN  /\ Of(o)'.life = n.life /\ Of(o)'.gen = n.gen /\ Of(o)'.next = n.next
                   /\ requests'[o].seq = n.next /\ n.life # 0
                   /\ n.life = runtime => n.gen <= talk.gen
                   /\ files'[path'].life = n.life => requests'[o].file = path'
    <3>1. Holding(o) /\ requests'[o] = requests[o] /\ Of(o)' = Of(o)
      BY <1>5, <1>6, <1>7, <2>2 DEF Of
    <3> DEFINE g == requests[o].file
               n == files[g]
    <3>2. /\ Of(o).life = n.life /\ Of(o).gen = n.gen /\ Of(o).next = n.next
          /\ requests[o].seq = n.next /\ n.life # 0
          /\ n.life = runtime => n.gen <= talk.gen
          /\ path # 0 /\ files[path].life = n.life => g = path
      BY <3>1 DEF OnceInv, Recorded
    <3>3. files'[requests'[o].file] = n
      BY <1>3, <3>1
    <3>4. files'[path'].life = n.life => requests'[o].file = path'
      <4>1. CASE path # 0
        BY <1>2, <1>3, <3>1, <3>2, <4>1
      <4>2. CASE path = 0
        BY <1>2, <1>3, <1>8, <3>2, <4>2
      <4> QED BY <4>1, <4>2
    <3> HIDE DEF n, g
    <3>5. /\ Of(o)'.life = n.life /\ Of(o)'.gen = n.gen /\ Of(o)'.next = n.next
          /\ requests'[o].seq = n.next
          /\ n.life = runtime => n.gen <= talk.gen
      BY <3>1, <3>2
    <3> QED BY <3>2, <3>3, <3>4, <3>5
  <2>3. ASSUME NEW g \in Files, g # path', \A o \in Speakers : requests'[o].file # g
        PROVE  files[g].life = 0
    <3>1. requests[p].file = 0
      BY <1>3 DEF OnceInv, Recorded
    <3>2. \A o \in Speakers : requests[o].file # g
      BY <1>3, <1>5, <2>3, <3>1
    <3>3. g # path
      BY <1>2, <1>3, <2>3
    <3> QED BY <3>2, <3>3 DEF OnceInv, Recorded
  <2> QED BY <1>3, <2>1, <2>2, <2>3 DEF Recorded
<1>14. Unspoken'
  <2>1. Matches(files[path])' <=> Matches(files[path'])
    BY <1>3 DEF Matches
  <2>2. path' # 0 => \/ files[path'] = Torn \/ Matches(files[path'])
                     \/ Fresh(<<runtime, talk.gen>>)
    BY <1>2 DEF OnceInv, Unspoken
  <2>3. \A g \in Files : Speaks(g)' => ~Had(CallOf(files[g]), files[g].next + 1)
    BY <1>10 DEF OnceInv, Unspoken
  <2> QED BY <1>2, <1>3, <2>1, <2>2, <2>3, HadStays
          DEF OnceInv, Unspoken, Matches, Torn, Record, CallOf
<1> QED BY <1>1, <1>3, <1>11, <1>12, <1>13, <1>14, QuietCount DEF OnceInv

LEMMA SubmitOnce ==
  ASSUME OnceInv, NEW p \in Speakers, Submit(p)
  PROVE  OnceInv'
<1> DEFINE f == requests[p].file
<1>1. SpeechInv /\ SpeechInv'
  BY SubmitKeeps DEF OnceInv
<1>2. PICK sequence \in 0..(MaxFrames - 1), count \in 1..BatchLimit :
         /\ sequence = Kept(p).next
         /\ requests' = [requests EXCEPT ![p] =
                Sending(@.file, count, sequence, Kept(p))]
  BY DEF Submit
<1>3. /\ UNCHANGED <<runtime, talk, path, files, socket, spoken, again, slips>>
      /\ requests[p].pc = "waiting" /\ f \in Files /\ Kept(p) = files[f]
      /\ files[f].life = runtime /\ files[f].gen = talk.gen /\ files[f].holder = p
  BY <1>1 DEF Submit, Admitted, Holds, Matches, Kept, SpeechInv, heard
<1>4. f = path /\ runtime # 0 /\ talk.gen \in Talks /\ talk.gen <= talk.gen
  BY <1>1, <1>3, RuntimeType DEF SpeechInv, OnceInv, Counts, Talks
<1> DEFINE r == Sending(f, count, sequence, Kept(p))
<1>5. r.pc = "sending" /\ r.file = f /\ r.record = files[f] /\ r.seq = files[f].next
  BY <1>2, <1>3 DEF Sending
<1> HIDE DEF r
<1>6. /\ requests'[p] = r
      /\ \A o \in Speakers : o # p => requests'[o] = requests[o]
  BY <1>1, <1>2 DEF SpeechInv, r
<1>7. \A o \in Speakers : /\ requests'[o].file = requests[o].file
                          /\ requests'[o].pc = "sent" <=> requests[o].pc = "sent"
                          /\ o # p => (Holding(o)' <=> Holding(o)) /\ Of(o)' = Of(o)
  BY <1>3, <1>5, <1>6 DEF Holding, Of
<1>8. \A g \in Files : (Locked(g)' => Locked(g) \/ g = path) /\ (Unnoted(g)' <=> Unnoted(g))
  BY <1>4, <1>7 DEF Locked, Unnoted
<1>9. \A g \in Files : Speaks(g)' => Speaks(g)
  BY <1>3, <1>8 DEF Speaks
<1>10. Owing' \subseteq Owing
  <2>1. \A g \in Files : Owes(g)' => Owes(g)
    BY <1>3, <1>8, <1>9, HadStays DEF Owes, CallOf
  <2> QED BY <2>1 DEF Owing
<1>11. Counts'
  BY <1>3 DEF OnceInv, Counts
<1>12. Recorded'
  <2>1. \A o \in Speakers : requests'[o].pc = "idle" => requests'[o].file = 0
    BY <1>5, <1>6 DEF OnceInv, Recorded
  <2>2. ASSUME NEW o \in Speakers, Holding(o)'
        PROVE  LET n == files[requests[o].file]
               IN  /\ Of(o)'.life = n.life /\ Of(o)'.gen = n.gen /\ Of(o)'.next = n.next
                   /\ requests'[o].seq = n.next /\ n.life # 0
                   /\ n.life = runtime => n.gen <= talk.gen
                   /\ path # 0 /\ files[path].life = n.life => requests[o].file = path
    <3>1. CASE o = p
      BY <1>3, <1>4, <1>5, <1>6, <3>1 DEF Of
    <3>2. CASE o # p
      <4>1. Holding(o) /\ Of(o)' = Of(o) /\ requests'[o] = requests[o]
        BY <1>6, <1>7, <2>2, <3>2
      <4>2. LET n == files[requests[o].file]
            IN  /\ Of(o).life = n.life /\ Of(o).gen = n.gen /\ Of(o).next = n.next
                /\ requests[o].seq = n.next /\ n.life # 0
                /\ n.life = runtime => n.gen <= talk.gen
                /\ path # 0 /\ files[path].life = n.life => requests[o].file = path
        BY <4>1 DEF OnceInv, Recorded
      <4> QED BY <4>1, <4>2
    <3> QED BY <3>1, <3>2
  <2> QED BY <1>3, <1>7, <2>1, <2>2 DEF OnceInv, Recorded
<1>13. Unspoken'
  BY <1>3, <1>9, HadStays DEF OnceInv, Unspoken, Matches, Torn, Record, CallOf
<1> QED BY <1>1, <1>3, <1>10, <1>11, <1>12, <1>13, QuietCount DEF OnceInv

LEMMA HandOnce ==
  ASSUME OnceInv, NEW p \in Speakers, HandOver(p)
  PROVE  OnceInv'
<1>1. SpeechInv /\ SpeechInv'
  BY HandOverKeeps DEF OnceInv
<1>2. PICK f \in Files : requests[p].file = f
  BY <1>1 DEF HandOver, SpeechInv
<1>3. PICK c : c = CallOf(files[f])
  OBVIOUS
<1>4. PICK m : m = files[f].next
  OBVIOUS
<1> DEFINE x == Frame(requests[p])
           k == Len(socket) + 1
<1>5. /\ requests[p].pc = "sending" /\ Holding(p)
      /\ socket' = Append(socket, x)
      /\ requests' = [requests EXCEPT ![p].pc = "sent"]
      /\ UNCHANGED <<runtime, talk, path, files, spoken, again, slips>>
      /\ requests \in [Speakers -> RequestTypes]
  BY <1>1 DEF HandOver, Holding, SpeechInv, heard
<1>6. /\ Of(p).life = files[f].life /\ Of(p).gen = files[f].gen
      /\ requests[p].seq = m /\ files[f].life # 0
      /\ files[f].life = runtime => files[f].gen <= talk.gen
  BY <1>2, <1>4, <1>5 DEF OnceInv, Recorded
<1>7. /\ c \in Calls /\ m \in Nat /\ c = <<files[f].life, files[f].gen>>
      /\ files[f].life \in Lives /\ files[f].gen \in Talks
  BY <1>3, <1>4, <1>6, Calling DEF CallOf
<1>8. x \in FrameTypes /\ CallOf(x) = c /\ x.seq = m
  BY <1>6, <1>7 DEF Frame, FrameTypes, CallOf, Of
<1> HIDE DEF x
<1>9. /\ socket \in Seq(FrameTypes) /\ Len(socket) \in Nat /\ spoken \in [Calls -> Nat]
      /\ DOMAIN socket = 1..Len(socket)
  BY DEF OnceInv, Counts
<1>10. /\ socket' \in Seq(FrameTypes) /\ DOMAIN socket' = 1..k
       /\ socket'[k] = x /\ \A i \in 1..Len(socket) : socket'[i] = socket[i]
  BY <1>5, <1>8, <1>9
<1>11. \A d, n : Had(d, n)' <=> Had(d, n) \/ (d = c /\ n <= m)
  <2>1. \A i : i \in 1..k <=> i \in 1..Len(socket) \/ i = k
    BY <1>9
  <2> HIDE DEF k
  <2> QED BY <1>5, <1>8, <1>9, <1>10, <2>1 DEF Had
<1>12. \A i \in Repeats' : i \in Repeats \/ (i = k /\ Had(c, m))
  <2>1. SUFFICES ASSUME NEW i \in Repeats' PROVE i \in Repeats \/ (i = k /\ Had(c, m))
    OBVIOUS
  <2>2. i \in 1..k
    BY <1>10 DEF Repeats
  <2>3. \/ socket'[i].seq < spoken[CallOf(socket'[i])]
        \/ \E j \in 1..(i - 1) : /\ CallOf(socket'[j]) = CallOf(socket'[i])
                                 /\ socket'[i].seq <= socket'[j].seq
    BY <1>5 DEF Repeats, Repeat, CallOf
  <2>4. 1..(i - 1) \subseteq 1..Len(socket)
    BY <1>9, <2>2
  <2>5. CASE i = k
    BY <1>8, <1>9, <1>10, <2>3, <2>4, <2>5 DEF Had
  <2>6. CASE i \in 1..Len(socket)
    BY <1>9, <1>10, <2>3, <2>4, <2>6 DEF Repeats, Repeat
  <2> QED BY <1>9, <2>2, <2>5, <2>6
<1>13. /\ \A o \in Speakers \ {p} : requests'[o] = requests[o]
       /\ requests'[p].file = requests[p].file /\ requests'[p].pc = "sent"
       /\ requests'[p].record = requests[p].record /\ requests'[p].seq = requests[p].seq
  BY <1>5 DEF RequestTypes
<1>14. \A o \in Speakers : /\ requests'[o].file = requests[o].file
                           /\ Holding(o)' <=> Holding(o)
                           /\ Of(o)' = Of(o) /\ requests'[o].seq = requests[o].seq
                           /\ requests[o].pc = "sent" => requests'[o].pc = "sent"
                           /\ requests'[o].pc = "idle" <=> requests[o].pc = "idle"
  BY <1>5, <1>13 DEF Holding, Of
<1>15. Unnoted(f)' /\ Speaks(f) /\ ~Unnoted(f)
  <2>1. \A o \in Speakers : requests[o].pc = "sent" /\ requests[o].file = f => o = p
    BY <1>1, <1>2, <1>5 DEF SpeechInv, Holding
  <2> QED BY <1>2, <1>5, <1>6, <1>13, <2>1 DEF Unnoted, Speaks, Locked
<1>16. \A g \in Files : /\ Speaks(g)' <=> Speaks(g)
                        /\ Unnoted(g) => Unnoted(g)'
                        /\ g # f /\ Speaks(g) => CallOf(files[g]) # c
  <2>1. ASSUME NEW g \in Files, g # f, Speaks(g) PROVE CallOf(files[g]) # c
    BY <1>7, <1>15, <2>1, OneRecord DEF CallOf
  <2> QED BY <1>5, <1>14, <2>1 DEF Speaks, Locked, Unnoted
<1>17. \A g \in Files : Owes(g)' => Owes(g) /\ g # f
  <2>1. ASSUME NEW g \in Files, Owes(g)' PROVE Owes(g) /\ g # f
    <3>1. Speaks(g)' /\ ~Unnoted(g)' /\ Had(CallOf(files[g]), files[g].next)'
      BY <2>1 DEF Owes, CallOf
    <3>2. g # f /\ Speaks(g) /\ ~Unnoted(g) /\ CallOf(files[g]) # c
      BY <1>15, <1>16, <3>1
    <3>3. Had(CallOf(files[g]), files[g].next)
      BY <1>5, <1>11, <3>1, <3>2 DEF CallOf
    <3> QED BY <3>2, <3>3 DEF Owes
  <2> QED BY <2>1
<1>18. again' + Cardinality(Repeats)' + Cardinality(Owing)' <= slips'
  <2>1. CASE Had(c, m)
    <3>1. Repeats' \subseteq Repeats \cup {k}
      BY <1>12
    <3>2. f \in Owing
      BY <1>3, <1>4, <1>15, <2>1 DEF Owing, Owes
    <3>3. Owing' \subseteq Owing \ {f}
      BY <1>17 DEF Owing
    <3>4. Cardinality(Repeats') \in Nat /\ Cardinality(Repeats') <= Cardinality(Repeats) + 1
      BY <3>1, OneMore, CountsFinite
    <3>5. Cardinality(Owing') \in Nat /\ Cardinality(Owing') + 1 <= Cardinality(Owing)
      BY <3>2, <3>3, OneLess, CountsFinite
    <3> QED BY <1>5, <3>4, <3>5, CountsFinite
  <2>2. CASE ~Had(c, m)
    <3>1. Repeats' \subseteq Repeats
      BY <1>12, <2>2
    <3>2. Owing' \subseteq Owing
      BY <1>17 DEF Owing
    <3>3. Cardinality(Repeats') \in Nat /\ Cardinality(Repeats') <= Cardinality(Repeats)
      BY <3>1, NoMore, CountsFinite
    <3>4. Cardinality(Owing') \in Nat /\ Cardinality(Owing') <= Cardinality(Owing)
      BY <3>2, NoMore, CountsFinite
    <3> QED BY <1>5, <3>3, <3>4, CountsFinite
  <2> QED BY <2>1, <2>2
<1>19. Counts'
  BY <1>5, <1>10 DEF OnceInv, Counts
<1>20. Recorded'
  BY <1>5, <1>14 DEF OnceInv, Recorded
<1>21. Unspoken'
  <2>1. \A d : d # c => (Fresh(d) => Fresh(d)')
    BY <1>11 DEF Fresh
  <2>2. \A d \in Calls : d[1] > runtime \/ (d[1] = runtime /\ d[2] > talk.gen) => d # c
    <3>1. files[f].life <= runtime /\ files[f].life \in Nat /\ runtime \in Nat
          /\ talk.gen \in Nat /\ files[f].gen \in Nat
      <4>1. runtime \in Lives /\ files[f] \in Lived
        BY <1>1 DEF SpeechInv
      <4>2. files[f].life <= runtime
        BY <4>1 DEF Lived
      <4>3. talk.gen \in Talks
        BY DEF OnceInv, Counts
      <4>4. Lives \subseteq Nat /\ Talks \subseteq Nat
        BY SpeechAssumption DEF Lives, Talks
      <4> QED BY <1>7, <4>1, <4>2, <4>3, <4>4
    <3> QED BY <1>6, <1>7, <3>1
  <2>3. c = <<runtime, talk.gen>> => f = path /\ Matches(files[path])
    <3>1. c = <<runtime, talk.gen>> => files[f].life = runtime /\ files[f].gen = talk.gen
      BY <1>7
    <3>2. files[f].life = runtime => f = path
      BY <1>1, <1>2, <1>5, <1>6 DEF SpeechInv
    <3> QED BY <3>1, <3>2 DEF Matches
  <2>4. f # 0
    BY DEF Files
  <2>5. ASSUME NEW g \in Files, Speaks(g)
        PROVE  ~Had(CallOf(files[g]), files[g].next + 1)'
    <3>1. ~Had(CallOf(files[g]), files[g].next + 1)
      BY <2>5 DEF OnceInv, Unspoken
    <3>2. CASE g = f
      <4>1. ~(m + 1 <= m)
        BY <1>7
      <4> QED BY <1>4, <1>5, <1>11, <3>1, <3>2, <4>1 DEF CallOf
    <3>3. CASE g # f
      BY <1>5, <1>11, <1>16, <2>5, <3>1, <3>3 DEF CallOf
    <3> QED BY <3>2, <3>3
  <2>6. Fresh(<<runtime, talk.gen>>) /\ c # <<runtime, talk.gen>>
           => Fresh(<<runtime, talk.gen>>)'
    <3>1. PICK e : e = <<runtime, talk.gen>>
      OBVIOUS
    <3>2. e = <<runtime, talk.gen>>'
      BY <1>5, <3>1
    <3>3. Fresh(e) /\ c # e => Fresh(e)'
      BY <2>1
    <3> QED BY <3>1, <3>2, <3>3
  <2>7. /\ path = 0 => Fresh(<<runtime, talk.gen>>)'
        /\ path # 0 => \/ files[path] = Torn \/ Matches(files[path])
                       \/ Fresh(<<runtime, talk.gen>>)'
    <3>1. /\ path = 0 => Fresh(<<runtime, talk.gen>>)
          /\ path # 0 => \/ files[path] = Torn \/ Matches(files[path])
                         \/ Fresh(<<runtime, talk.gen>>)
      BY DEF OnceInv, Unspoken
    <3>2. c = <<runtime, talk.gen>> => path # 0 /\ Matches(files[path])
      BY <2>3, <2>4
    <3> HIDE DEF Fresh
    <3> QED BY <2>6, <3>1, <3>2
  <2>8. \A d \in Calls :
          d[1] > runtime \/ (d[1] = runtime /\ d[2] > talk.gen) => Fresh(d)'
    BY <2>1, <2>2 DEF OnceInv, Unspoken
  <2> QED BY <1>5, <1>16, <2>5, <2>6, <2>7, <2>8
          DEF Unspoken, Matches, Torn, Record, CallOf
<1> QED BY <1>1, <1>18, <1>19, <1>20, <1>21 DEF OnceInv

-----------------------------------------------------------------------------
(* Leases and the daemon.                                                  *)

LEMMA ExpireOnce ==
  ASSUME OnceInv, Expire
  PROVE  OnceInv'
<1>1. SpeechInv /\ SpeechInv'
  BY ExpireKeeps DEF OnceInv
<1>2. PICK f \in Files : files[f].live /\ files' = [files EXCEPT ![f].live = FALSE]
  BY DEF Expire
<1>3. UNCHANGED <<runtime, talk, path, requests, socket, spoken, again, slips>>
  BY DEF Expire, heard
<1>4. files[f] \in Lived /\ files \in [Files -> Lived]
  BY <1>1 DEF SpeechInv
<1>5. \A g \in Files : /\ files'[g].life = files[g].life /\ files'[g].gen = files[g].gen
                       /\ files'[g].next = files[g].next
                       /\ g # f => files'[g] = files[g]
  BY <1>2, <1>4 DEF Lived
<1>6. files[f] # Torn
  BY <1>2 DEF Torn, Record
<1>7. /\ \A o \in Speakers : (Holding(o)' <=> Holding(o)) /\ Of(o)' = Of(o)
      /\ \A g \in Files : (Speaks(g)' <=> Speaks(g)) /\ (Unnoted(g)' <=> Unnoted(g))
  BY <1>3, <1>5 DEF Holding, Of, Speaks, Locked, Unnoted
<1>8. \A g \in Files : CallOf(files'[g]) = CallOf(files[g])
  BY <1>5 DEF CallOf
<1>9. Owing' \subseteq Owing
  <2>1. ASSUME NEW g \in Files, Owes(g)' PROVE Owes(g)
    <3>1. PICK d, n : d = CallOf(files[g]) /\ n = files[g].next
      OBVIOUS
    <3>2. d = CallOf(files[g])' /\ n = files[g].next'
      BY <1>5, <1>8, <3>1 DEF CallOf
    <3>3. Speaks(g)' /\ ~Unnoted(g)' /\ Had(d, n)'
      BY <2>1, <3>2 DEF Owes
    <3>4. Speaks(g) /\ ~Unnoted(g) /\ Had(d, n)
      BY <1>3, <1>7, <3>3, HadStays
    <3> QED BY <3>1, <3>4 DEF Owes
  <2> QED BY <2>1 DEF Owing
<1>10. Counts'
  BY <1>3, <1>5 DEF OnceInv, Counts
<1>11. Recorded'
  <2>1. ASSUME NEW o \in Speakers, Holding(o)'
        PROVE  LET n == files'[requests'[o].file]
               IN  /\ Of(o)'.life = n.life /\ Of(o)'.gen = n.gen /\ Of(o)'.next = n.next
                   /\ requests'[o].seq = n.next /\ n.life # 0
                   /\ n.life = runtime' => n.gen <= talk'.gen
                   /\ path' # 0 /\ files'[path'].life = n.life => requests'[o].file = path'
    <3>1. Holding(o) /\ requests'[o] = requests[o] /\ Of(o)' = Of(o)
          /\ requests[o].file \in Files
      BY <1>1, <1>3, <1>7, <2>1 DEF SpeechInv, Holding
    <3>2. path # 0 => files'[path].life = files[path].life
      BY <1>1, <1>5 DEF SpeechInv
    <3> QED BY <1>3, <1>5, <3>1, <3>2 DEF OnceInv, Recorded
  <2> QED BY <1>3, <1>5, <2>1 DEF OnceInv, Recorded
<1>12. Unspoken'
  <2>1. path # 0 => \/ files'[path] = Torn \/ Matches(files'[path])
                    \/ Fresh(<<runtime, talk.gen>>)
    <3>1. path # 0 => /\ path \in Files /\ files'[path].life = files[path].life
                      /\ files'[path].gen = files[path].gen
                      /\ files[path] = Torn => files'[path] = Torn
      BY <1>1, <1>5, <1>6 DEF SpeechInv
    <3> QED BY <3>1 DEF OnceInv, Unspoken, Matches
  <2>2. Matches(files[path])' <=> Matches(files'[path])
    BY <1>3 DEF Matches
  <2>3. ASSUME NEW g \in Files, Speaks(g)'
        PROVE  ~Had(CallOf(files'[g]), files'[g].next + 1)
    BY <1>5, <1>7, <1>8, <2>3 DEF OnceInv, Unspoken
  <2> QED BY <1>3, <2>1, <2>2, <2>3, HadStays DEF OnceInv, Unspoken, Torn, Record, CallOf
<1> QED BY <1>1, <1>3, <1>9, <1>10, <1>11, <1>12, QuietCount DEF OnceInv

LEMMA MoveOnce ==
  ASSUME OnceInv, Move
  PROVE  OnceInv'
<1>1. SpeechInv /\ SpeechInv'
  BY TurnKeeps DEF OnceInv
<1>2. UNCHANGED <<runtime, path, files, requests, socket, spoken, again, slips>>
  BY DEF Move, heard
<1>3. /\ talk'.gen \in Talks /\ talk'.gen \in {talk.gen, talk.gen + 1}
      /\ talk.gen \in Talks /\ talk.gen \in Nat
  <2>1. /\ talk' \in {[talk EXCEPT !.on = FALSE], [on |-> TRUE, gen |-> talk.gen + 1]}
        /\ talk'.gen <= MaxTalks /\ talk.gen \in 0..MaxTalks
        /\ talk \in [on : BOOLEAN, gen : Int]
    BY <1>1 DEF Move, OnceInv, Counts, Talks, SpeechInv
  <2>2. talk'.gen \in {talk.gen, talk.gen + 1}
    BY <2>1
  <2> QED BY <2>1, <2>2, SpeechAssumption DEF Talks
<1>4. /\ \A o \in Speakers : (Holding(o)' <=> Holding(o)) /\ Of(o)' = Of(o)
      /\ \A g \in Files : (Speaks(g)' <=> Speaks(g)) /\ (Unnoted(g)' <=> Unnoted(g))
  BY <1>2 DEF Holding, Of, Speaks, Locked, Unnoted
<1>5. Owing' \subseteq Owing
  <2>1. \A g \in Files : Owes(g)' => Owes(g)
    BY <1>2, <1>4, HadStays DEF Owes, CallOf
  <2> QED BY <2>1 DEF Owing
<1>6. Counts'
  BY <1>2, <1>3 DEF OnceInv, Counts
<1>7. Recorded'
  <2>1. \A f \in Files : /\ files[f].gen \in Nat
                         /\ files[f].gen <= talk.gen => files[f].gen <= talk'.gen
    BY <1>3, SpeechAssumption DEF OnceInv, Counts, Talks
  <2>2. \A o \in Speakers : Holding(o) => requests[o].file \in Files
    BY <1>1 DEF SpeechInv, Holding
  <2> QED BY <1>2, <1>4, <2>1, <2>2 DEF OnceInv, Recorded
<1>8. Unspoken'
  <2>1. \A c \in Calls :
          c[1] > runtime \/ (c[1] = runtime /\ c[2] > talk'.gen) => Fresh(c)
    <3>1. \A c \in Calls : c[2] \in Nat
      BY SpeechAssumption DEF Calls, Talks
    <3>2. \A c \in Calls : c[2] > talk'.gen => c[2] > talk.gen
      BY <1>3, <3>1
    <3> QED BY <3>2 DEF OnceInv, Unspoken
  <2>2. CASE talk'.gen = talk.gen
    BY <1>2, <1>4, <2>1, <2>2, HadStays
       DEF OnceInv, Unspoken, Matches, Torn, Record, CallOf
  <2>3. CASE talk'.gen = talk.gen + 1
    <3>1. PICK c : c = <<runtime, talk.gen + 1>>
      OBVIOUS
    <3>2. c = <<runtime', talk'.gen>>
      BY <1>2, <2>3, <3>1
    <3>3. c \in Calls /\ c[1] = runtime /\ c[2] > talk.gen
      BY <1>1, <1>3, <2>3, <3>1 DEF SpeechInv, Calls
    <3>4. Fresh(c)'
      BY <1>2, <3>3, HadStays DEF OnceInv, Unspoken
    <3>5. Fresh(<<runtime, talk.gen>>)'
      BY <3>2, <3>4
    <3> HIDE DEF Fresh
    <3>6. \A d \in Calls :
            (d[1] > runtime \/ (d[1] = runtime /\ d[2] > talk.gen) => Fresh(d))'
      BY <1>2, <2>1, HadStays
    <3>7. \A f \in Files : Speaks(f)' => ~Had(CallOf(files[f]), files[f].next + 1)'
      BY <1>2, <1>4, HadStays DEF OnceInv, Unspoken, CallOf
    <3> QED BY <3>5, <3>6, <3>7 DEF Unspoken
  <2> QED BY <1>3, <2>2, <2>3
<1> QED BY <1>1, <1>2, <1>5, <1>6, <1>7, <1>8, QuietCount DEF OnceInv

\* A turn leaves the records alone and makes no call more spoken to.
LEMMA LessHad ==
  ASSUME OnceInv, SpeechInv', Counts',
         UNCHANGED <<runtime, talk, path, files, requests, slips>>,
         \A c \in Calls, n \in Nat : Had(c, n)' => Had(c, n),
         Cardinality(Repeats') \in Nat,
         again' + Cardinality(Repeats') <= again + Cardinality(Repeats)
  PROVE  OnceInv'
<1>1. /\ \A o \in Speakers : (Holding(o)' <=> Holding(o)) /\ Of(o)' = Of(o)
      /\ \A g \in Files : (Speaks(g)' <=> Speaks(g)) /\ (Unnoted(g)' <=> Unnoted(g))
  BY DEF Holding, Of, Speaks, Locked, Unnoted
<1>2. \A g \in Files : Speaks(g) =>
         /\ CallOf(files[g]) \in Calls /\ files[g].next \in Nat /\ files[g].next + 1 \in Nat
  BY Calling DEF Speaks
<1>3. Owing' \subseteq Owing
  <2>1. \A g \in Files : Owes(g)' => Owes(g)
    BY <1>1, <1>2 DEF Owes, CallOf
  <2> QED BY <2>1 DEF Owing
<1>4. again' + Cardinality(Repeats)' + Cardinality(Owing)' <= slips'
  <2>1. Cardinality(Owing') \in Nat /\ Cardinality(Owing') <= Cardinality(Owing)
    BY <1>3, CountsFinite, NoMore
  <2>2. again' \in Nat
    BY DEF Counts
  <2> QED BY <2>1, <2>2, CountsFinite
<1>5. Recorded'
  BY <1>1 DEF OnceInv, Recorded
<1>6. Unspoken'
  <2>1. \A c \in Calls : Fresh(c) => Fresh(c)'
    BY DEF Fresh
  <2>2. Fresh(<<runtime, talk.gen>>) => Fresh(<<runtime, talk.gen>>)'
    <3>1. PICK c : c = <<runtime, talk.gen>>
      OBVIOUS
    <3>2. c = <<runtime, talk.gen>>' /\ c \in Calls
      BY <3>1 DEF OnceInv, Counts, SpeechInv, Calls
    <3> QED BY <2>1, <3>1, <3>2
  <2>3. \A g \in Files : Speaks(g)' => ~Had(CallOf(files[g]), files[g].next + 1)'
    BY <1>1, <1>2 DEF OnceInv, Unspoken, CallOf
  <2> HIDE DEF Fresh
  <2> QED BY <2>1, <2>2, <2>3 DEF OnceInv, Unspoken, Matches, Torn, Record
<1> QED BY <1>4, <1>5, <1>6 DEF OnceInv

\* What is left after the first k frames repeats no more than it did.
LEMMA ShiftedCount ==
  ASSUME NEW S, NEW T, NEW k \in Nat, IsFiniteSet(T), S \subseteq Nat,
         \A i \in S : i + k \in T
  PROVE  Cardinality(S) \in Nat /\ Cardinality(T) \in Nat /\ Cardinality(S) <= Cardinality(T)
<1> DEFINE g == [i \in S |-> i + k]
<1>1. g \in Injection(S, T)
  BY DEF Injection, IsInjective
<1>2. IsFiniteSet(S) /\ Cardinality(S) <= Cardinality(T)
  BY <1>1, FS_Injection
<1> QED BY <1>2, FS_CardinalityType

LEMMA TurnOnce ==
  ASSUME OnceInv, SpeechTurn \/ UNCHANGED speechVars
  PROVE  OnceInv'
<1>1. SpeechInv /\ SpeechInv'
  BY TurnKeeps DEF OnceInv
<1>2. UNCHANGED <<runtime, talk, path, files, requests, slips>>
  BY DEF SpeechTurn, speechVars
<1>3. /\ socket \in Seq(FrameTypes) /\ Len(socket) \in Nat /\ DOMAIN socket = 1..Len(socket)
      /\ spoken \in [Calls -> Nat] /\ again \in Nat
      /\ \A i \in 1..Len(socket) :
            socket[i].seq \in Nat /\ CallOf(socket[i]) \in Calls
  <2>1. socket \in Seq(FrameTypes) /\ spoken \in [Calls -> Nat] /\ again \in Nat
    BY DEF OnceInv, Counts
  <2>2. \A x \in FrameTypes : x.seq \in Nat /\ CallOf(x) \in Calls
    BY DEF FrameTypes, CallOf, Calls
  <2> QED BY <2>1, <2>2
<1>4. CASE UNCHANGED <<socket, spoken, again>>
  <2>1. Counts'
    BY <1>2, <1>4 DEF OnceInv, Counts
  <2>2. Repeats' = Repeats
    BY <1>4, HadStays
  <2>3. \A c \in Calls, n \in Nat : Had(c, n)' => Had(c, n)
    BY <1>4, HadStays
  <2> QED BY <1>1, <1>2, <1>4, <2>1, <2>2, <2>3, CountsFinite, LessHad
<1>5. CASE socket' = <<>> /\ UNCHANGED <<spoken, again>>
  <2>1. Counts'
    BY <1>2, <1>5 DEF OnceInv, Counts
  <2>2. Cardinality(Repeats') = 0
    <3>1. Repeats' = {}
      BY <1>5 DEF Repeats
    <3> QED BY <3>1, FS_EmptySet
  <2>3. \A c \in Calls, n \in Nat : Had(c, n)' => Had(c, n)
    BY <1>5 DEF Had
  <2> QED BY <1>1, <1>2, <1>5, <2>1, <2>2, <2>3, CountsFinite, LessHad
<1>6. ASSUME NEW k \in 1..Len(socket), socket' = SubSeq(socket, k + 1, Len(socket)),
             Transmit(socket[k])
      PROVE  OnceInv'
  <2> DEFINE x == socket[k]
             late == x.seq < spoken[CallOf(x)]
  <2>1. /\ x \in FrameTypes /\ x.seq \in Nat /\ CallOf(x) \in Calls
        /\ CallOf(x) = <<x.life, x.gen>> /\ k \in Nat
    <3>1. x \in FrameTypes
      BY <1>3
    <3> QED BY <1>3, <3>1 DEF CallOf
  <2>2. /\ socket' \in Seq(FrameTypes) /\ DOMAIN socket' = 1..(Len(socket) - k)
        /\ \A i \in 1..(Len(socket) - k) : socket'[i] = socket[i + k]
    BY <1>3, <1>6
  <2>3. \/ UNCHANGED <<spoken, again>>
        \/ /\ again' = IF late THEN again + 1 ELSE again
           /\ spoken' = [spoken EXCEPT ![CallOf(x)] = IF late THEN @ ELSE x.seq + 1]
    <3>1. Transmit(x)
      BY <1>6
    <3>2. x.seq < spoken[CallOf(x)] <=> x.seq < spoken[<<x.life, x.gen>>]
      BY <2>1
    <3> HIDE DEF x
    <3> QED BY <2>1, <3>1, <3>2 DEF Transmit, heard
  <2> HIDE DEF x
  <2>4. /\ spoken' \in [Calls -> Nat]
        /\ \A c \in Calls : spoken'[c] = spoken[c] \/ (c = CallOf(x) /\ spoken'[c] = x.seq + 1)
        /\ again' \in {again, again + 1}
        /\ again' # again => late
    <3> HIDE DEF late
    <3> DEFINE v == IF late THEN spoken[CallOf(x)] ELSE x.seq + 1
    <3>1. v \in Nat /\ v \in {spoken[CallOf(x)], x.seq + 1}
      BY <1>3, <2>1
    <3>2. CASE UNCHANGED <<spoken, again>>
      BY <1>3, <3>2
    <3>3. CASE /\ again' = IF late THEN again + 1 ELSE again
               /\ spoken' = [spoken EXCEPT ![CallOf(x)] = v]
      <4> HIDE DEF v
      <4> QED BY <1>3, <2>1, <3>1, <3>3
    <3> QED BY <2>3, <3>2, <3>3 DEF v
  <2> HIDE DEF late
  <2>5. \A c \in Calls, n \in Nat : Had(c, n)' => Had(c, n)
    <3> SUFFICES ASSUME NEW c \in Calls, NEW n \in Nat, Had(c, n)'
                 PROVE  Had(c, n)
      OBVIOUS
    <3>1. CASE n < spoken'[c]
      <4>1. CASE spoken'[c] = spoken[c]
        BY <3>1, <4>1 DEF Had
      <4>2. CASE c = CallOf(x) /\ spoken'[c] = x.seq + 1
        <5>1. n <= x.seq
          BY <2>1, <3>1, <4>2
        <5>2. k \in DOMAIN socket /\ CallOf(socket[k]) = c /\ n <= socket[k].seq
          BY <1>3, <1>6, <4>2, <5>1 DEF x
        <5> QED BY <5>2 DEF Had
      <4> QED BY <2>4, <4>1, <4>2
    <3>2. CASE \E i \in DOMAIN socket' : CallOf(socket'[i]) = c /\ n <= socket'[i].seq
      <4>1. PICK i \in 1..(Len(socket) - k) :
                CallOf(socket[i + k]) = c /\ n <= socket[i + k].seq
        BY <2>2, <3>2
      <4>2. i + k \in DOMAIN socket
        BY <1>3, <1>6, <4>1
      <4> QED BY <4>1, <4>2 DEF Had
    <3> QED BY <3>1, <3>2 DEF Had, CallOf
  <2>6. ASSUME NEW i \in Repeats'
        PROVE  i \in Nat \ {0} /\ i + k \in Repeats
    <3>1. i \in 1..(Len(socket) - k) /\ i + k \in 1..Len(socket) /\ i \in Nat \ {0}
      BY <1>3, <1>6, <2>2 DEF Repeats
    <3>2. \/ socket'[i].seq < spoken'[CallOf(socket'[i])]
          \/ \E j \in 1..(i - 1) : /\ CallOf(socket'[j]) = CallOf(socket'[i])
                                   /\ socket'[i].seq <= socket'[j].seq
      BY DEF Repeats, Repeat, CallOf
    <3>3. socket'[i] = socket[i + k]
      BY <2>2, <3>1
    <3>4. socket[i + k].seq \in Nat /\ CallOf(socket[i + k]) \in Calls
      BY <1>3, <3>1
    <3> DEFINE c == CallOf(socket[i + k])
    <3>5. CASE socket[i + k].seq < spoken'[c]
      <4>1. CASE spoken'[c] = spoken[c]
        BY <1>3, <3>1, <3>5, <4>1 DEF Repeats, Repeat
      <4>2. CASE c = CallOf(x) /\ spoken'[c] = x.seq + 1
        <5>1. socket[i + k].seq <= x.seq
          BY <2>1, <3>4, <3>5, <4>2
        <5>2. k \in 1..((i + k) - 1)
          BY <1>6, <3>1
        <5> QED BY <1>3, <3>1, <4>2, <5>1, <5>2 DEF Repeats, Repeat, x
      <4> QED BY <2>4, <3>4, <4>1, <4>2
    <3>6. CASE \E j \in 1..(i - 1) : /\ CallOf(socket'[j]) = CallOf(socket'[i])
                                     /\ socket'[i].seq <= socket'[j].seq
      <4>1. PICK j \in 1..(i - 1) : /\ CallOf(socket'[j]) = CallOf(socket'[i])
                                    /\ socket'[i].seq <= socket'[j].seq
        BY <3>6
      <4>2. j \in 1..(Len(socket) - k) /\ j + k \in 1..((i + k) - 1)
        BY <1>3, <1>6, <3>1, <4>1
      <4>3. CallOf(socket[j + k]) = c /\ socket[i + k].seq <= socket[j + k].seq
        BY <2>2, <3>3, <4>1, <4>2
      <4> QED BY <1>3, <3>1, <4>2, <4>3 DEF Repeats, Repeat
    <3> QED BY <3>1, <3>2, <3>3, <3>5, <3>6
  <2>7. late => k \in Repeats
    BY <1>3, <1>6 DEF late, x, Repeats, Repeat
  <2>8. Cardinality(Repeats') \in Nat
        /\ again' + Cardinality(Repeats') <= again + Cardinality(Repeats)
    <3>1. Repeats' \subseteq Nat
      BY <2>6
    <3>2. CASE again' = again
      <4>1. /\ Cardinality(Repeats') \in Nat
            /\ Cardinality(Repeats') <= Cardinality(Repeats)
        BY <2>1, <2>6, <3>1, CountsFinite, ShiftedCount
      <4> QED BY <1>3, <3>2, <4>1, CountsFinite
    <3>3. CASE again' = again + 1 /\ again' # again
      <4>1. k \in Repeats
        BY <2>4, <2>7, <3>3
      <4>2. \A i \in Repeats' : i + k \in Repeats \ {k}
        BY <2>1, <2>6
      <4>3. /\ IsFiniteSet(Repeats \ {k})
            /\ Cardinality(Repeats \ {k}) = Cardinality(Repeats) - 1
        BY <4>1, CountsFinite, FS_RemoveElement
      <4>4. /\ Cardinality(Repeats') \in Nat
            /\ Cardinality(Repeats') <= Cardinality(Repeats \ {k})
        BY <2>1, <3>1, <4>2, <4>3, ShiftedCount
      <4> QED BY <1>3, <3>3, <4>3, <4>4, CountsFinite
    <3> QED BY <1>3, <2>4, <3>2, <3>3
  <2>9. Counts'
    BY <1>2, <1>3, <2>2, <2>4 DEF OnceInv, Counts
  <2> QED BY <1>1, <1>2, <2>5, <2>8, <2>9, LessHad
<1>7. CASE SpeechTurn
  <2>1. Pump(tx') \/ UNCHANGED <<socket, spoken, again>>
    BY <1>7 DEF SpeechTurn, heard
  <2>2. CASE Pump(tx')
    <3>1. PICK line : line = tx'
      OBVIOUS
    <3>2. Pump(line)
      BY <2>2, <3>1
    <3>3. CASE Speakable(line) = {}
      BY <1>5, <3>2, <3>3 DEF Pump, heard
    <3>4. CASE Speakable(line) # {}
      <4> DEFINE first == CHOOSE i \in Speakable(line) : \A j \in Speakable(line) : i <= j
      <4>1. Speakable(line) \subseteq 1..Len(socket) /\ Speakable(line) \in SUBSET Nat
        BY <1>3 DEF Speakable
      <4>2. \E i \in Speakable(line) : \A j \in Speakable(line) : i <= j
        BY <3>4, <4>1, LeastIndex
      <4>3. first \in Speakable(line)
        BY <4>2
      <4>4. first \in 1..Len(socket)
        BY <4>1, <4>3
      <4>5. socket' = SubSeq(socket, first + 1, Len(socket)) /\ Transmit(socket[first])
        BY <3>2, <3>4 DEF Pump
      <4> HIDE DEF first
      <4> QED BY <1>6, <4>4, <4>5
    <3> QED BY <3>3, <3>4
  <2> QED BY <1>4, <2>1, <2>2
<1>8. CASE UNCHANGED speechVars
  BY <1>4, <1>8 DEF speechVars, heard
<1> QED BY <1>7, <1>8

LEMMA RespawnOnce ==
  ASSUME OnceInv, Respawn
  PROVE  OnceInv'
<1>1. SpeechInv /\ SpeechInv'
  BY RespawnKeeps DEF OnceInv
<1>2. /\ runtime' = runtime + 1 /\ runtime' \in Lives /\ runtime \in Nat /\ runtime # 0
      /\ talk' = Off /\ socket' = <<>>
      /\ path' \in {0, path} /\ files' = Swept(files, requests, path')
      /\ UNCHANGED <<requests, spoken, again, slips>>
      /\ files \in [Files -> Lived] /\ 0 \notin Files
  BY <1>1, RuntimeType, SpeechAssumption DEF Respawn, SpeechInv, Lives, Files, heard
<1>3. talk'.gen = 0 /\ 0 \in Talks /\ Empty.life = 0 /\ Empty.gen = 0 /\ Empty.next = 0
  BY <1>2, SpeechAssumption DEF Off, Talks, Empty, Record
<1>4. /\ \A g \in Files : files'[g] = files[g] \/ files'[g] = Empty
      /\ \A g \in Files : g = path' \/ (\E o \in Speakers : requests[o].file = g)
                            => files'[g] = files[g]
      /\ \A g \in Files : g # path' /\ (\A o \in Speakers : requests[o].file # g)
                            => files'[g] = Empty
  BY <1>2 DEF Swept
<1>5. \A o \in Speakers : (Holding(o)' <=> Holding(o)) /\ Of(o)' = Of(o)
  BY <1>2 DEF Holding, Of
<1>6. \A g \in Files : (Locked(g)' <=> Locked(g)) /\ (Unnoted(g)' <=> Unnoted(g))
  BY <1>2, <1>5 DEF Locked, Unnoted
<1>7. \A g \in Files : Speaks(g)' => Speaks(g) /\ files'[g] = files[g]
  BY <1>2, <1>3, <1>4, <1>6 DEF Speaks
<1>8. \A c, n : Had(c, n)' => Had(c, n)
  BY <1>2 DEF Had
<1>9. Owing' \subseteq Owing
  <2>1. ASSUME NEW g \in Files, Owes(g)' PROVE Owes(g)
    <3>1. Speaks(g) /\ files'[g] = files[g] /\ ~Unnoted(g)
      BY <1>6, <1>7, <2>1 DEF Owes
    <3>2. PICK d, n : d = CallOf(files[g]) /\ n = files[g].next
      OBVIOUS
    <3>3. d = CallOf(files[g])' /\ n = files[g].next'
      BY <3>1, <3>2 DEF CallOf
    <3>4. Had(d, n)
      BY <1>8, <2>1, <3>3 DEF Owes
    <3> QED BY <3>1, <3>2, <3>4 DEF Owes
  <2> QED BY <2>1 DEF Owing
<1>10. again' + Cardinality(Repeats)' + Cardinality(Owing)' <= slips'
  <2>1. Cardinality(Repeats') = 0
    <3>1. Repeats' = {}
      BY <1>2 DEF Repeats
    <3> QED BY <3>1, FS_EmptySet
  <2>2. Cardinality(Owing') \in Nat /\ Cardinality(Owing') <= Cardinality(Owing)
    BY <1>9, CountsFinite, NoMore
  <2> QED BY <1>2, <2>1, <2>2, CountsFinite
<1>11. Counts'
  <2>1. \A g \in Files : files'[g].gen \in Talks /\ files'[g].next \in Nat
    BY <1>3, <1>4 DEF OnceInv, Counts
  <2> QED BY <1>2, <1>3, <2>1 DEF OnceInv, Counts
<1>12. Recorded'
  <2>1. ASSUME NEW o \in Speakers, Holding(o)'
        PROVE  LET n == files'[requests'[o].file]
               IN  /\ Of(o)'.life = n.life /\ Of(o)'.gen = n.gen /\ Of(o)'.next = n.next
                   /\ requests'[o].seq = n.next /\ n.life # 0
                   /\ n.life = runtime' => n.gen <= talk'.gen
                   /\ path' # 0 /\ files'[path'].life = n.life => requests'[o].file = path'
    <3>1. Holding(o) /\ requests'[o] = requests[o] /\ Of(o)' = Of(o)
          /\ requests[o].file \in Files
      BY <1>1, <1>2, <1>5, <2>1 DEF SpeechInv, Holding
    <3>2. files'[requests[o].file] = files[requests[o].file]
      BY <1>4, <3>1
    <3>3. path' # 0 => path' = path /\ path \in Files /\ files'[path'] = files[path]
      BY <1>1, <1>2, <1>4 DEF SpeechInv
    <3>4. files[requests[o].file].life # runtime'
      <4>1. files[requests[o].file] \in Lived
        BY <1>2, <3>1
      <4> QED BY <1>2, <4>1 DEF Lived
    <3> QED BY <3>1, <3>2, <3>3, <3>4 DEF OnceInv, Recorded
  <2>2. \A o \in Speakers : requests'[o].pc = "idle" => requests'[o].file = 0
    BY <1>2 DEF OnceInv, Recorded
  <2>3. \A g \in Files :
          g # path' /\ (\A o \in Speakers : requests'[o].file # g) => files'[g].life = 0
    BY <1>2, <1>3, <1>4
  <2> QED BY <2>1, <2>2, <2>3 DEF Recorded
<1>13. Unspoken'
  <2>1. \A c \in Calls : Fresh(c) => Fresh(c)'
    BY <1>8 DEF Fresh
  <2>2. \A c \in Calls : c[1] \in Nat
    BY SpeechAssumption DEF Calls, Lives
  <2>3. \A c \in Calls : c[1] >= runtime' => Fresh(c)'
    <3>1. \A c \in Calls : c[1] >= runtime' => c[1] > runtime
      BY <1>2, <2>2
    <3> QED BY <2>1, <3>1 DEF OnceInv, Unspoken
  <2>4. \A c \in Calls :
          c[1] > runtime' \/ (c[1] = runtime' /\ c[2] > talk'.gen) => Fresh(c)'
    <3>1. \A c \in Calls : c[1] > runtime' \/ c[1] = runtime' => c[1] >= runtime'
      BY <1>2, <2>2
    <3> QED BY <2>3, <3>1
  <2>5. Fresh(<<runtime, talk.gen>>)'
    <3>1. PICK c : c = <<runtime', talk'.gen>>
      OBVIOUS
    <3>2. c \in Calls /\ c[1] >= runtime'
      BY <1>2, <1>3, <3>1 DEF Calls
    <3> QED BY <2>3, <3>1, <3>2
  <2>6. ASSUME NEW g \in Files, Speaks(g)'
        PROVE  ~Had(CallOf(files[g]), files[g].next + 1)'
    <3>1. Speaks(g) /\ files'[g] = files[g]
      BY <1>7, <2>6
    <3>2. PICK d, n : d = CallOf(files[g]) /\ n = files[g].next + 1
      OBVIOUS
    <3>3. d = CallOf(files[g])' /\ n = (files[g].next + 1)'
      BY <3>1, <3>2 DEF CallOf
    <3>4. ~Had(d, n)
      BY <3>1, <3>2 DEF OnceInv, Unspoken
    <3> QED BY <1>8, <3>3, <3>4
  <2> HIDE DEF Fresh
  <2> QED BY <2>4, <2>5, <2>6 DEF Unspoken
<1> QED BY <1>1, <1>10, <1>11, <1>12, <1>13 DEF OnceInv

LEMMA InitOnce == SpeechInit => OnceInv
<1> SUFFICES ASSUME SpeechInit PROVE OnceInv
  OBVIOUS
<1>1. SpeechInv
  BY InitHolds
<1>2. /\ runtime = 1 /\ talk.gen = 0 /\ socket = <<>> /\ path = 0
      /\ again = 0 /\ slips = 0 /\ 0 \in Talks
      /\ \A f \in Files : files[f] = Empty
      /\ \A p \in Speakers : requests[p] = Idle
  BY SpeechAssumption DEF SpeechInit, Off, Talks
<1>3. spoken = [c \in Calls |-> 0]
  BY DEF SpeechInit, Calls
<1>4. Empty.life = 0 /\ Empty.gen = 0 /\ Empty.next = 0 /\ Idle.pc = "idle" /\ Idle.file = 0
  BY DEF Empty, Record, Idle
<1>5. Counts
  <2>1. socket \in Seq(FrameTypes)
    BY <1>2
  <2> QED BY <1>2, <1>3, <1>4, <2>1 DEF Counts
<1>6. \A p \in Speakers : ~Holding(p)
  BY <1>2, <1>4 DEF Holding
<1>7. Recorded
  BY <1>2, <1>4, <1>6 DEF Recorded
<1>8. \A f \in Files : ~Speaks(f)
  BY <1>2, <1>4 DEF Speaks
<1>9. \A c \in Calls : Fresh(c)
  BY <1>2, <1>3 DEF Fresh, Had
<1>10. <<runtime, talk.gen>> \in Calls
  BY <1>1, <1>2 DEF SpeechInv, Calls
<1>11. Unspoken
  BY <1>2, <1>8, <1>9, <1>10 DEF Unspoken
<1>12. Repeats = {} /\ Owing = {}
  BY <1>2, <1>8 DEF Repeats, Owing, Owes
<1>13. again + Cardinality(Repeats) + Cardinality(Owing) <= slips
  BY <1>2, <1>12, FS_EmptySet
<1> QED BY <1>1, <1>5, <1>7, <1>11, <1>13 DEF OnceInv

\* Each frame that is sent again, is waiting to be sent again or will be
\* submitted again is one that a request died with, between handing it over
\* and recording it: nothing else has a frame that was submitted for a call
\* spoken twice or out of order, to that call or, after a restart, to the one
\* it strays into (pcm_http.c:144, pcm_http.c:223, gvs_pcm_pump.c:41).
THEOREM EachFrameOnce == SpeechSpec => []SpokenOnce
<1>1. ASSUME OnceInv, [SpeechNext]_speechVars PROVE OnceInv'
  <2>1. CASE \E p \in Speakers :
               \/ Arrive(p) \/ OpenSession(p) \/ EndSession(p) \/ Submit(p)
               \/ HandOver(p) \/ Note(p) \/ Leave(p)
    BY <1>1, <2>1, ArriveOnce, OpenOnce, EndOnce, SubmitOnce, HandOnce, NoteOnce,
       LeaveOnce
  <2>2. CASE Expire \/ Move \/ Respawn
    BY <1>1, <2>2, ExpireOnce, MoveOnce, RespawnOnce
  <2>3. CASE SpeechTurn \/ UNCHANGED speechVars
    BY <1>1, <2>3, TurnOnce
  <2> QED BY <1>1, <2>1, <2>2, <2>3 DEF SpeechNext
<1>2. OnceInv => SpokenOnce
  BY CountsFinite DEF SpokenOnce
<1> QED BY <1>1, <1>2, InitOnce, PTL DEF SpeechSpec

-----------------------------------------------------------------------------
(* Watching the door: the circle of picture numbers.                       *)

LEMMA Remainder ==
  ASSUME NEW n \in Nat \ {0}, NEW a \in Int
  PROVE  /\ a % n \in 0 .. (n - 1)
         /\ a \div n \in Int
         /\ a = n * (a \div n) + (a % n)
OBVIOUS

LEMMA Half == /\ HalfRound \in Nat \ {0} /\ Numbers = HalfRound + HalfRound
BY VideoAssumption DEF HalfRound

\* Numbers of pictures less than the whole circle apart are different.
LEMMA Together ==
  ASSUME NEW p \in Int, NEW o \in Int, NEW n \in Nat \ {0}, p % n = o % n, p - o < n, o - p < n
  PROVE  p = o
<1> DEFINE a == p \div n
           b == o \div n
           r == p % n
<1>1. a \in Int /\ b \in Int /\ r \in Int /\ p = n * a + r /\ o = n * b + r
  BY Remainder
<1> HIDE DEF a, b, r
<1>2. n * a - n * b < n /\ n * b - n * a < n
  BY <1>1
<1>3. n * (a - b) < n /\ n * (b - a) < n
  BY <1>1, <1>2
<1>4. a - b < 1 /\ b - a < 1
  BY <1>1, <1>3
<1> QED BY <1>1, <1>4

\* Of two pictures no further apart than half the circle, the number of the later
\* one is the one less than half the circle ahead.
LEMMA Ahead ==
  ASSUME NEW p \in Int, NEW o \in Int, p - o <= HalfRound, o - p <= HalfRound,
         ((o % Numbers) - (p % Numbers)) % Numbers \in 1 .. (HalfRound - 1)
  PROVE  o > p
<1> DEFINE n == Numbers
           a == p \div n
           b == o \div n
           r == p % n
           s == o % n
           d == (s - r) % n
           e == (s - r) \div n
<1>0. n \in Nat \ {0} /\ HalfRound \in Nat \ {0} /\ n = HalfRound + HalfRound
  BY Half
<1>1. /\ a \in Int /\ b \in Int /\ r \in 0 .. (n - 1) /\ s \in 0 .. (n - 1)
      /\ p = n * a + r /\ o = n * b + s
  BY <1>0, Remainder
<1>2. e \in Int /\ d \in 1 .. (HalfRound - 1) /\ s - r = n * e + d
  <2>1. s - r \in Int
    BY <1>1
  <2> QED BY <1>0, <2>1, Remainder
<1> HIDE DEF a, b, r, s, d, e, n
<1>3. o - p = n * (b - a + e) + d
  <2>1. o - p = n * b - n * a + n * e + d
    BY <1>0, <1>1, <1>2
  <2> QED BY <1>0, <1>1, <1>2, <2>1
<1> DEFINE k == b - a + e
<1>4. k \in Int
  BY <1>1, <1>2
<1> HIDE DEF k
<1>5. o - p = n * k + d
  BY <1>3 DEF k
<1>6. k >= 0
  <2>1. n * k >= 0 - HalfRound - d
    BY <1>0, <1>2, <1>4, <1>5
  <2>2. n * k > 0 - n
    BY <1>0, <1>2, <1>4, <2>1
  <2> QED BY <1>0, <1>4, <2>2
<1>7. n * k >= 0
  BY <1>0, <1>4, <1>6
<1> QED BY <1>0, <1>2, <1>4, <1>5, <1>7

-----------------------------------------------------------------------------
(* The picture under way.                                                  *)

Frames == [on : BOOLEAN, no : 0..(Numbers - 1), chunks : Int, got : SUBSET Fragments]

\* Fragments of the present call, no further back than the network reaches.
Recent(fs) ==
    \A f \in fs :
       f.call = view.gen /\ f.pic <= filmed /\ filmed - f.pic <= HalfRound

\* A picture under way is made of different fragments of one picture of the
\* call, as old as the newest shown or newer; before the first one, none has
\* been shown.
OnePicture(p) ==
    /\ p \in Frames
    /\ Recent(p.got)
    /\ p.on => p.got # {} /\ view.on
    /\ ~p.on => p.got = {} /\ newest = 0
    /\ \A f \in p.got :
          f.chunks = p.chunks /\ Number(f) = p.no /\ f.pic >= newest
    /\ \A f, g \in p.got : f.pic = g.pic /\ (f.index = g.index => f = g)

VideoInv ==
    /\ VideoTypeOK
    /\ view.on => view.gen # 0
    /\ Recent(flight)
    /\ OnePicture(frame)
    /\ PictureTrue

LEMMA Bounds ==
  ASSUME VideoInv
  PROVE  /\ view.gen \in Nat /\ filmed \in Nat /\ newest \in Nat
         /\ flight \subseteq Fragments /\ frame \in Frames
BY VideoAssumption DEF VideoInv, VideoTypeOK, OnePicture

LEMMA FragmentType ==
  ASSUME NEW f \in Fragments
  PROVE  /\ f.pic \in Nat /\ f.chunks \in 1 .. MaxChunks /\ f.index \in 1 .. f.chunks
         /\ f = [call |-> f.call, pic |-> f.pic, chunks |-> f.chunks, index |-> f.index]
BY VideoAssumption DEF Fragments

\* As many different fragments as the picture has are all of them.
LEMMA WholeIsAll ==
  ASSUME NEW p, OnePicture(p), p.on, Whole(p)
  PROVE  \E n \in Nat, chunks \in 1 .. MaxChunks :
            /\ p.got = {[call |-> view.gen, pic |-> n, chunks |-> chunks, index |-> i] :
                           i \in 1 .. chunks}
            /\ {f.pic : f \in p.got} = {n}
            /\ n >= newest
<1>1. PICK f \in p.got : TRUE
  BY DEF OnePicture
<1> DEFINE n == f.pic
           c == p.chunks
           at == [g \in p.got |-> g.index]
<1>2. ASSUME NEW g \in p.got
      PROVE  /\ g.pic = n /\ g.chunks = c /\ g.call = view.gen
             /\ g.pic \in Nat /\ g.index \in 1 .. c /\ c \in 1 .. MaxChunks
             /\ g = [call |-> view.gen, pic |-> n, chunks |-> c, index |-> g.index]
  <2>1. g \in Fragments /\ g.pic = n /\ g.chunks = c /\ g.call = view.gen
    BY DEF OnePicture, Frames, Recent
  <2> QED BY <2>1, FragmentType
<1>3. n \in Nat /\ c \in 1 .. MaxChunks /\ c \in Nat /\ n >= newest
  BY <1>1, <1>2, VideoAssumption DEF OnePicture
<1>4. at \in Injection(p.got, 1 .. c)
  BY <1>2 DEF Injection, IsInjective, OnePicture
<1>5. IsFiniteSet(1 .. c) /\ Cardinality(1 .. c) = c
  <2>1. c \in Int /\ 1 \in Int /\ c >= 1
    BY <1>3
  <2> HIDE DEF c
  <2>2. IsFiniteSet(1 .. c) /\ Cardinality(1 .. c) = IF 1 > c THEN 0 ELSE c - 1 + 1
    BY <2>1, FS_Interval, Zenon
  <2> QED BY <2>1, <2>2
<1>6. at \in Surjection(p.got, 1 .. c)
  BY <1>4, <1>5, FS_Injection DEF Whole
<1>7. \A i \in 1 .. c : \E g \in p.got : g.index = i
  BY <1>6 DEF Surjection
<1>8. p.got = {[call |-> view.gen, pic |-> n, chunks |-> c, index |-> i] : i \in 1 .. c}
  <2>1. \A g \in p.got : g = [call |-> view.gen, pic |-> n, chunks |-> c, index |-> g.index]
    BY <1>2
  <2>2. \A i \in 1 .. c : [call |-> view.gen, pic |-> n, chunks |-> c, index |-> i] \in p.got
    BY <1>7, <2>1
  <2>3. \A g \in p.got : g.index \in 1 .. c
    BY <1>2
  <2> HIDE DEF n, c
  <2> QED BY <2>1, <2>2, <2>3
<1>9. {g.pic : g \in p.got} = {n}
  BY <1>1, <1>2
<1> HIDE DEF n, c
<1> QED BY <1>3, <1>8, <1>9

\* The picture number of a fragment decides its picture.
LEMMA SamePicture ==
  ASSUME VideoInv, NEW f \in flight, NEW g \in frame.got, Number(f) = frame.no
  PROVE  f.pic = g.pic
<1>1. f \in Fragments /\ g \in Fragments /\ Number(g) = frame.no
  BY Bounds DEF VideoInv, OnePicture, Frames
<1>2. /\ f.pic <= filmed /\ filmed - f.pic <= HalfRound
      /\ g.pic <= filmed /\ filmed - g.pic <= HalfRound /\ filmed \in Nat
  BY Bounds DEF VideoInv, OnePicture, Recent
<1>3. f.pic \in Nat /\ g.pic \in Nat
  BY <1>1, FragmentType
<1>4. f.pic - g.pic < Numbers /\ g.pic - f.pic < Numbers
  BY <1>2, <1>3, Half
<1>5. f.pic % Numbers = g.pic % Numbers
  BY <1>1 DEF Number
<1> QED BY <1>3, <1>4, <1>5, Together, VideoAssumption

\* A picture that is begun over another one is a later one.
LEMMA LaterPicture ==
  ASSUME VideoInv, NEW f \in flight, NEW g \in frame.got, frame.on, Newer(f)
  PROVE  f.pic > g.pic
<1>1. f \in Fragments /\ g \in Fragments /\ Number(g) = frame.no
  BY Bounds DEF VideoInv, OnePicture, Frames
<1>2. /\ f.pic <= filmed /\ filmed - f.pic <= HalfRound
      /\ g.pic <= filmed /\ filmed - g.pic <= HalfRound /\ filmed \in Nat
  BY Bounds DEF VideoInv, OnePicture, Recent
<1>3. f.pic \in Nat /\ g.pic \in Nat
  BY <1>1, FragmentType
<1>4. f.pic - g.pic <= HalfRound /\ g.pic - f.pic <= HalfRound
  BY <1>2, <1>3, Half
<1>5. ((f.pic % Numbers) - (g.pic % Numbers)) % Numbers \in 1 .. (HalfRound - 1)
  BY <1>1 DEF Newer, Number
<1> QED BY <1>3, <1>4, <1>5, Ahead

LEMMA BegunOne ==
  ASSUME VideoInv, NEW f \in flight, view.on, Newer(f)
  PROVE  OnePicture(Begun(f)) /\ Begun(f).on
<1> DEFINE p == Begun(f)
<1>1. /\ f \in Fragments /\ f.call = view.gen
      /\ f.pic <= filmed /\ filmed - f.pic <= HalfRound
      /\ filmed \in Nat /\ newest \in Nat
  BY Bounds DEF VideoInv, Recent
<1>2. f.pic \in Nat /\ f.chunks \in Int
  BY <1>1, FragmentType
<1>3. f.pic >= newest
  <2>1. CASE frame.on
    <3>1. PICK g \in frame.got : g.pic >= newest /\ g \in Fragments
      BY <2>1 DEF VideoInv, OnePicture, Frames
    <3>2. f.pic > g.pic /\ g.pic \in Nat
      BY <2>1, <3>1, LaterPicture, FragmentType
    <3> QED BY <1>1, <1>2, <3>1, <3>2
  <2>2. CASE ~frame.on
    BY Bounds, <1>2, <2>2 DEF VideoInv, OnePicture
  <2> QED BY <2>1, <2>2
<1>4. Number(f) \in 0..(Numbers - 1)
  <2>1. f.pic \in Int /\ Numbers \in Nat \ {0}
    BY <1>2, VideoAssumption
  <2>2. f.pic % Numbers \in 0..(Numbers - 1)
    BY <2>1, Remainder, Zenon
  <2> QED BY <2>2 DEF Number
<1>5. p.on /\ p.no = Number(f) /\ p.chunks = f.chunks /\ p.got = {f}
  BY DEF Begun
<1>6. p \in Frames
  BY <1>1, <1>2, <1>4 DEF Begun, Frames
<1> HIDE DEF p
<1>7. OnePicture(p)
  BY <1>1, <1>3, <1>5, <1>6 DEF OnePicture, Recent
<1> QED BY <1>5, <1>7 DEF p

LEMMA GrownOne ==
  ASSUME VideoInv, NEW f \in flight, view.on, Newer(f) \/ Wanting(f)
  PROVE  OnePicture(Grown(f)) /\ Grown(f).on
<1>1. CASE Newer(f)
  BY <1>1, BegunOne DEF Grown
<1>2. CASE ~Newer(f) /\ Wanting(f)
  <2> DEFINE p == [frame EXCEPT !.got = @ \cup {f}]
  <2>1. /\ frame.on /\ Number(f) = frame.no /\ f.chunks = frame.chunks
        /\ \A g \in frame.got : g.index # f.index
    BY <1>2 DEF Wanting
  <2>2. OnePicture(frame) /\ frame \in Frames
    BY DEF VideoInv, OnePicture
  <2>3. /\ f \in Fragments /\ f.call = view.gen
        /\ f.pic <= filmed /\ filmed - f.pic <= HalfRound
    BY Bounds DEF VideoInv, Recent
  <2>4. p \in Frames
    BY <2>2, <2>3 DEF Frames
  <2>5. /\ p.on = frame.on /\ p.no = frame.no /\ p.chunks = frame.chunks
        /\ p.got = frame.got \cup {f}
    BY <2>2 DEF Frames
  <2>6. \A g \in frame.got : f.pic = g.pic
    BY <2>1, SamePicture
  <2>7. f.pic >= newest
    BY <2>1, <2>2, <2>6 DEF OnePicture
  <2> HIDE DEF p
  <2>8. OnePicture(p)
    <3>1. \A g \in p.got : g \in frame.got \/ g = f
      BY <2>5
    <3>2. Recent(p.got)
      BY <2>2, <2>3, <3>1 DEF OnePicture, Recent
    <3>3. \A g \in p.got : g.chunks = p.chunks /\ Number(g) = p.no /\ g.pic >= newest
      BY <2>1, <2>2, <2>5, <2>7, <3>1 DEF OnePicture
    <3>4. \A g, h \in p.got : g.pic = h.pic /\ (g.index = h.index => g = h)
      BY <2>1, <2>2, <2>6, <3>1 DEF OnePicture
    <3>5. p.on /\ p.got # {} /\ view.on
      BY <2>1, <2>5
    <3> QED BY <2>4, <3>2, <3>3, <3>4, <3>5 DEF OnePicture
  <2>9. Grown(f) = p
    BY <1>2 DEF Grown, p
  <2> QED BY <2>1, <2>5, <2>8, <2>9
<1> QED BY <1>1, <1>2

LEMMA WatchInv == ASSUME VideoInv, Watch PROVE VideoInv'
<1>1. view.on /\ UNCHANGED <<view, filmed>>
  BY DEF Watch
<1>2. PICK f \in flight :
        /\ flight' \in {flight, flight \ {f}}
        /\ IF ~(Newer(f) \/ Wanting(f))
           THEN UNCHANGED <<frame, cache, snapshot, newest>>
           ELSE /\ frame' = Grown(f)
                /\ IF Whole(frame') THEN Show(frame')
                   ELSE UNCHANGED <<cache, snapshot, newest>>
  BY DEF Watch
<1>3. /\ flight' \subseteq Fragments /\ Recent(flight)'
      /\ newest \in Nat /\ (view'.on => view'.gen # 0)
  BY <1>1, <1>2, Bounds DEF VideoInv, Recent
<1>t. ASSUME frame' \in Frames, cache' \in [ready : BOOLEAN, gen : 0..MaxViews],
             snapshot' \subseteq Fragments, newest' \in 0..MaxPictures
      PROVE  VideoTypeOK'
  BY <1>1, <1>3, <1>t DEF VideoInv, VideoTypeOK, Frames
<1>4. CASE UNCHANGED <<frame, cache, snapshot, newest>>
  <2>1. OnePicture(frame)' /\ PictureTrue'
    BY <1>1, <1>4 DEF VideoInv, OnePicture, Recent, PictureTrue
  <2>2. VideoTypeOK'
    BY <1>t, <1>4, Bounds DEF VideoInv, VideoTypeOK
  <2> QED BY <1>3, <2>1, <2>2 DEF VideoInv
<1>5. CASE frame' = Grown(f) /\ (Newer(f) \/ Wanting(f))
  <2>1. OnePicture(frame') /\ frame'.on
    BY <1>1, <1>5, GrownOne
  <2>2. ASSUME UNCHANGED newest, cache' \in {cache, Invalid},
               snapshot' \in {{}, snapshot},
               cache'.ready => UNCHANGED <<cache, snapshot>>
        PROVE  VideoInv'
    <3>1. OnePicture(frame)'
      BY <1>1, <2>1, <2>2 DEF OnePicture, Recent
    <3>2. PictureTrue'
      BY <1>1, <2>2 DEF VideoInv, PictureTrue
    <3>3. frame' \in Frames
      BY <2>1 DEF OnePicture
    <3>4. VideoTypeOK'
      <4>1. Invalid \in [ready : BOOLEAN, gen : 0..MaxViews]
        BY VideoAssumption DEF Invalid
      <4> QED BY <1>t, <2>2, <3>3, <4>1 DEF VideoInv, VideoTypeOK
    <3> QED BY <1>3, <3>1, <3>2, <3>4 DEF VideoInv
  <2>3. CASE Whole(frame') /\ Shown(frame')
    <3>1. PICK n \in Nat, chunks \in 1 .. MaxChunks :
            /\ frame'.got = {[call |-> view.gen, pic |-> n, chunks |-> chunks, index |-> i] :
                                i \in 1 .. chunks}
            /\ {g.pic : g \in frame'.got} = {n}
            /\ n >= newest
      BY <2>1, <2>3, WholeIsAll
    <3>2. (CHOOSE m \in {g.pic : g \in frame'.got} : TRUE) = n
      BY <3>1
    <3>3. /\ cache' = [ready |-> TRUE, gen |-> view.gen]
          /\ snapshot' = frame'.got
          /\ newest' = n
      BY <1>3, <2>3, <3>1, <3>2 DEF Shown
    <3>4. PictureTrue'
      BY <1>1, <3>1, <3>3 DEF PictureTrue
    <3>5. \A g \in frame'.got : g.pic = n
      BY <3>1
    <3>6. OnePicture(frame)'
      BY <1>1, <2>1, <3>3, <3>5 DEF OnePicture, Recent
    <3>7. frame' \in Frames /\ frame'.got \subseteq Fragments /\ frame'.got # {}
      BY <2>1 DEF OnePicture, Frames
    <3>8. n \in 0..MaxPictures
      <4>1. PICK g \in frame'.got : g \in Fragments /\ g.pic = n
        BY <3>5, <3>7
      <4> QED BY <4>1, VideoAssumption DEF Fragments
    <3>9. VideoTypeOK'
      <4>1. [ready |-> TRUE, gen |-> view.gen] \in [ready : BOOLEAN, gen : 0..MaxViews]
        BY DEF VideoInv, VideoTypeOK
      <4> QED BY <1>t, <3>3, <3>7, <3>8, <4>1
    <3> QED BY <1>3, <3>4, <3>6, <3>9 DEF VideoInv
  <2>4. CASE ~Whole(frame') \/ ~Shown(frame')
    <3>1. /\ UNCHANGED newest /\ cache' \in {cache, Invalid} /\ snapshot' \in {{}, snapshot}
          /\ cache'.ready => UNCHANGED <<cache, snapshot>>
      BY <1>2, <1>5, <2>4 DEF Show, Invalid
    <3> QED BY <2>2, <3>1
  <2> QED BY <2>3, <2>4
<1> QED BY <1>2, <1>4, <1>5

LEMMA FilmInv == ASSUME VideoInv, Film PROVE VideoInv'
<1>1. /\ view.on /\ filmed < MaxPictures /\ filmed' = filmed + 1
      /\ \A f \in frame.got : filmed + 1 - f.pic < HalfRound
      /\ UNCHANGED <<view, frame, cache, snapshot, newest>>
  BY DEF Film
<1>2a. PICK chunks \in 1 .. MaxChunks :
         \E arriving \in SUBSET (1 .. chunks) :
            flight' = {f \in flight : filmed' - f.pic <= HalfRound} \cup
                      {[call |-> view.gen, pic |-> filmed', chunks |-> chunks,
                        index |-> i] : i \in arriving}
  BY DEF Film
<1>2. PICK arriving \in SUBSET (1 .. chunks) :
        flight' = {f \in flight : filmed' - f.pic <= HalfRound} \cup
                  {[call |-> view.gen, pic |-> filmed', chunks |-> chunks, index |-> i] :
                     i \in arriving}
  BY <1>2a
<1>3. filmed \in Nat /\ filmed' \in Nat /\ filmed' \in 1 .. MaxPictures
  BY <1>1, Bounds, VideoAssumption
<1>4. ASSUME NEW f \in flight'
      PROVE  /\ f \in Fragments /\ f.call = view.gen
             /\ f.pic <= filmed' /\ filmed' - f.pic <= HalfRound
  <2>1. CASE f \in flight /\ filmed' - f.pic <= HalfRound
    <3>1. f \in Fragments /\ f.pic \in Nat
      BY <2>1, FragmentType, Bounds
    <3> QED BY <1>1, <1>3, <2>1, <3>1 DEF VideoInv, Recent
  <2>2. ASSUME NEW i \in arriving,
               f = [call |-> view.gen, pic |-> filmed', chunks |-> chunks, index |-> i]
        PROVE  /\ f \in Fragments /\ f.call = view.gen
               /\ f.pic <= filmed' /\ filmed' - f.pic <= HalfRound
    <3>1. i \in 1 .. chunks /\ i \in 1 .. MaxChunks /\ i <= chunks
      BY VideoAssumption
    <3>2. view.gen \in 1 .. MaxViews
      BY <1>1, VideoAssumption DEF VideoInv, VideoTypeOK
    <3>3. f \in Fragments
      BY <1>3, <2>2, <3>1, <3>2 DEF Fragments
    <3>4. f.pic = filmed' /\ f.call = view.gen
      BY <2>2
    <3>5. filmed' <= filmed' /\ filmed' - filmed' <= HalfRound
      <4>1. \A n \in Nat : n <= n /\ n - n <= HalfRound
        BY Half
      <4> QED BY <1>3, <4>1
    <3> QED BY <3>3, <3>4, <3>5
  <2> QED BY <1>2, <2>1, <2>2
<1>5. flight' \subseteq Fragments /\ Recent(flight)'
  BY <1>1, <1>4 DEF Recent
<1>6. Recent(frame.got)'
  <2>1. ASSUME NEW f \in frame.got
        PROVE  f.call = view.gen /\ f.pic <= filmed' /\ filmed' - f.pic <= HalfRound
    <3>1. f \in Fragments /\ f.call = view.gen /\ f.pic <= filmed
      BY Bounds DEF VideoInv, OnePicture, Frames, Recent
    <3>2. f.pic \in Nat
      BY <3>1, FragmentType
    <3> QED BY <1>1, <1>3, <3>1, <3>2, Half
  <2> QED BY <1>1, <2>1 DEF Recent
<1>7. OnePicture(frame)'
  BY <1>1, <1>6 DEF VideoInv, OnePicture
<1>8. PictureTrue'
  BY <1>1 DEF VideoInv, PictureTrue
<1>9. VideoTypeOK'
  BY <1>1, <1>3, <1>5 DEF VideoInv, VideoTypeOK
<1> QED BY <1>1, <1>5, <1>7, <1>8, <1>9 DEF VideoInv

LEMMA ClearedInv ==
  ASSUME VideoInv, ClearVideo, view' \in [on : BOOLEAN, gen : 0..MaxViews],
         view'.on => view'.gen # 0
  PROVE  VideoInv'
<1>1. /\ frame' = NoFrame /\ cache' = Invalid /\ snapshot' \in {{}, snapshot}
      /\ filmed' = 0 /\ flight' = {} /\ newest' = 0
  BY DEF ClearVideo
<1>2. 0 \in 0..(Numbers - 1) /\ 0 \in 0..MaxViews /\ 0 \in 0..MaxPictures
  BY VideoAssumption
<1>3. OnePicture(frame)'
  BY <1>1, <1>2 DEF NoFrame, OnePicture, Frames, Recent
<1>4. PictureTrue'
  BY <1>1 DEF PictureTrue, Invalid
<1>5. VideoTypeOK'
  BY <1>1, <1>2 DEF VideoInv, VideoTypeOK, NoFrame, Invalid
<1> QED BY <1>1, <1>3, <1>4, <1>5 DEF VideoInv, Recent

LEMMA VideoNextInv == ASSUME VideoInv, [VideoNext]_videoVars PROVE VideoInv'
<1>1. CASE Film
  BY <1>1, FilmInv
<1>2. CASE Watch
  BY <1>2, WatchInv
<1>3. CASE ViewMoves
  <2>1. view \in [on : BOOLEAN, gen : 0..MaxViews]
    BY DEF VideoInv, VideoTypeOK
  <2>2. /\ view' = [view EXCEPT !.on = FALSE] \/ view' = [on |-> TRUE, gen |-> view.gen + 1]
        /\ view'.gen <= MaxViews /\ ClearVideo
    BY <1>3 DEF ViewMoves
  <2>3. view' \in [on : BOOLEAN, gen : 0..MaxViews] /\ (view'.on => view'.gen # 0)
    <3>1. CASE view' = [view EXCEPT !.on = FALSE]
      BY <2>1, <3>1
    <3>2. CASE view' = [on |-> TRUE, gen |-> view.gen + 1]
      <4>1. view.gen \in Nat /\ view.gen + 1 <= MaxViews
        BY <2>1, <2>2, <3>2
      <4>2. view.gen + 1 \in 0..MaxViews /\ view.gen + 1 # 0
        BY <4>1, VideoAssumption
      <4> QED BY <3>2, <4>2
    <3> QED BY <2>2, <3>1, <3>2
  <2> QED BY <2>2, <2>3, ClearedInv
<1>4. CASE ViewRestart
  <2>1. view' = [on |-> FALSE, gen |-> 0] /\ ClearVideo
    BY <1>4 DEF ViewRestart
  <2> QED BY <2>1, VideoAssumption, ClearedInv
<1>5. CASE UNCHANGED videoVars
  BY <1>5 DEF videoVars, VideoInv, VideoTypeOK, OnePicture, Recent, PictureTrue
<1> QED BY <1>1, <1>2, <1>3, <1>4, <1>5 DEF VideoNext

LEMMA VideoInitInv == ASSUME VideoInit PROVE VideoInv
<1>1. 0 \in 0..(Numbers - 1) /\ 0 \in 0..MaxViews /\ 0 \in 0..MaxPictures
  BY VideoAssumption
<1> QED BY <1>1 DEF VideoInit, VideoInv, VideoTypeOK, NoFrame, Invalid, OnePicture,
                    Frames, Recent, PictureTrue

\* The inductive invariant: the picture put together is one picture of the
\* present call, no older than any shown, and the network keeps no fragment
\* that could pass for one of another picture.
THEOREM VideoInvariant == VideoSpec => []VideoInv
BY VideoInitInv, VideoNextInv, PTL DEF VideoSpec

\* Picture numbers stay on their circle and every fragment kept, shown or under
\* way is one the peer made.
THEOREM VideoTypes == VideoSpec => []VideoTypeOK
<1>1. VideoInv => VideoTypeOK
  BY DEF VideoInv
<1> QED BY VideoInvariant, <1>1, PTL

\* For every number of picture numbers, fragments, pictures and calls: a client
\* that is told of a picture finds one whole picture of the call it is told of,
\* the newest shown (gvs_video_reassembly.c:146, runtime_service.c:902).
THEOREM PicturesTrue == VideoSpec => []PictureTrue
<1>1. VideoInv => PictureTrue
  BY DEF VideoInv
<1> QED BY VideoInvariant, <1>1, PTL

-----------------------------------------------------------------------------
(* The way of an event *)

\* Half a line.  The halves of all lines are numbered in their order: those of
\* the event e are 2e - 1 and 2e.
HalfOf(h) == [event |-> (h + 1) \div 2, end |-> h % 2 = 0]

\* The halves that come after the half h.
Run(s, h) == s = [i \in 1..Len(s) |-> HalfOf(h + i)]

\* All halves up to x have been parsed by the relay; what is in its buffer, in
\* the socket and in the queue of the client follows without a gap, up to the
\* last event made if the daemon still knows the client.  What waits for the
\* service, and what it was told, has been parsed.
InStep(x) ==
    LET sent == x + Len(buf) + Len(wire)
    IN  /\ x \in Nat /\ x % 2 = 0 /\ x <= 2 * made
        /\ Run(buf, x) /\ Run(wire, x + Len(buf))
        /\ sent <= 2 * made
        /\ slot = "client" => sent + 2 * Len(q) - off = 2 * made
        /\ got # <<>> => 2 * got[Len(got)] = x
        /\ 2 * told <= x /\ \A i \in DOMAIN rq : 2 * rq[i] <= x

\* A connection the daemon has not taken has carried nothing.
Connected ==
    /\ Len(buf) <= 1
    /\ ~conn => slot = "none" /\ buf = <<>> /\ wire = <<>>
    /\ slot # "client" => q = <<>>
    /\ q = <<>> => off = 0
    /\ slot = "waiting" => buf = <<>> /\ wire = <<>> /\ got = <<>>
    /\ eof => slot = "none"
    /\ others + (IF slot = "client" THEN 1 ELSE 0) <= MaxClients

Rising(s) == \A i, j \in DOMAIN s : i < j => s[i] < s[j]

\* The queues in order.
Ordered ==
    /\ \A i \in DOMAIN q : q[i] = made - Len(q) + i
    /\ \A i \in 1..(Len(got) - 1) : got[i + 1] = got[i] + 1
    /\ Rising(rq)
    /\ \A i \in DOMAIN rq : told <= rq[i]

StreamInv ==
    /\ EventTypeOK /\ Connected /\ Ordered
    /\ \E x \in Nat : InStep(x)

HalfTypes == [event : 1..MaxEvents, end : BOOLEAN]

LEMMA HalfTyped ==
  ASSUME NEW h \in Nat, h # 0, h <= 2 * MaxEvents
  PROVE  HalfOf(h) \in HalfTypes
<1>1. (h + 1) \div 2 \in 1..MaxEvents
  BY EventsAssumption
<1> QED BY <1>1 DEF HalfOf, HalfTypes

LEMMA RunTyped ==
  ASSUME NEW h \in Nat, NEW n \in Nat, h + n <= 2 * MaxEvents
  PROVE  LET s == [i \in 1..n |-> HalfOf(h + i)]
         IN  s \in Seq(HalfTypes) /\ Len(s) = n
<1>1. \A i \in 1..n : HalfOf(h + i) \in HalfTypes
  BY HalfTyped, EventsAssumption
<1> QED BY <1>1

\* Halves as events.
LEMMA Pair ==
  ASSUME NEW x \in Nat, x % 2 = 0, NEW i \in Nat
  PROVE  /\ (x + i) % 2 = i % 2
         /\ (x + i + 1) \div 2 = (x \div 2) + ((i + 1) \div 2)
OBVIOUS

-----------------------------------------------------------------------------
(* Parsing.                                                                *)

LEMMA CountEvens ==
  ASSUME NEW n \in Nat
  PROVE  LET evens == {j \in 1..n : j % 2 = 0}
         IN  IsFiniteSet(evens) /\ Cardinality(evens) = n \div 2
<1> DEFINE evens == {j \in 1..n : j % 2 = 0}
           m == n \div 2
           double == [k \in 1..m |-> 2 * k]
<1>1. m \in Nat
  OBVIOUS
<1>2. IsFiniteSet(1..m) /\ Cardinality(1..m) = m
  BY <1>1, FS_Interval
<1>3. double \in Bijection(1..m, evens)
  <2>1. \A k \in 1..m : 2 * k \in evens
    OBVIOUS
  <2>2. \A j \in evens : j \div 2 \in 1..m /\ 2 * (j \div 2) = j
    OBVIOUS
  <2>3. double \in [1..m -> evens]
    BY <2>1
  <2>4. \A a, b \in 1..m : double[a] = double[b] => a = b
    OBVIOUS
  <2>5. \A j \in evens : \E k \in 1..m : double[k] = j
    BY <2>2
  <2> QED BY <2>3, <2>4, <2>5 DEF Bijection, Injection, Surjection, IsInjective
<1>4. ExistsBijection(1..m, evens)
  BY <1>3 DEF ExistsBijection
<1> HIDE DEF evens
<1>5. IsFiniteSet(evens) /\ Cardinality(evens) = Cardinality(1..m)
  BY <1>2, <1>4, FS_Bijection
<1> QED BY <1>2, <1>5 DEF evens

\* A run of halves from the start of a line gives the events it completes.
LEMMA ParsedIs ==
  ASSUME NEW x \in Nat, x % 2 = 0, NEW n \in Nat,
         NEW b, b = [i \in 1..n |-> HalfOf(x + i)]
  PROVE  Parsed(b) = [k \in 1..(n \div 2) |-> (x \div 2) + k]
<1> DEFINE whole == {i \in 2..Len(b) :
                       /\ b[i].end /\ ~b[i - 1].end
                       /\ b[i - 1].event = b[i].event
                       /\ i > 2 => b[i - 2].end}
           evens == {j \in 1..n : j % 2 = 0}
           At(k) == CHOOSE i \in whole : Cardinality({j \in whole : j <= i}) = k
<1>1. Len(b) = n /\ \A i \in 1..n : b[i] = HalfOf(x + i)
  OBVIOUS
<1>2. \A i \in 1..n : /\ b[i].end = (i % 2 = 0)
                      /\ b[i].event = (x \div 2) + ((i + 1) \div 2)
  <2> TAKE i \in 1..n
  <2>1. b[i] = [event |-> (x + i + 1) \div 2, end |-> (x + i) % 2 = 0]
    BY <1>1 DEF HalfOf
  <2>2. i \in Nat
    OBVIOUS
  <2>3. (x + i) % 2 = i % 2 /\ (x + i + 1) \div 2 = (x \div 2) + ((i + 1) \div 2)
    BY <2>2, Pair
  <2>4. b[i].end = ((x + i) % 2 = 0) /\ b[i].event = (x + i + 1) \div 2
    BY <2>1
  <2>5. ((x + i) % 2 = 0) = (i % 2 = 0)
    BY <2>3
  <2> QED BY <2>3, <2>4, <2>5
<1>3. whole = evens
  <2>1. \A i \in 2..n : i - 1 \in 1..n /\ (i > 2 => i - 2 \in 1..n)
    OBVIOUS
  <2>2. ASSUME NEW i \in whole PROVE i \in evens
    <3>1. i \in 1..n /\ b[i].end
      BY <1>1
    <3>2. i % 2 = 0
      BY <1>2, <3>1
    <3> QED BY <3>1, <3>2
  <2>3. ASSUME NEW i \in evens PROVE i \in whole
    <3>1. i \in 2..n /\ i % 2 = 0 /\ (i - 1) % 2 # 0
      OBVIOUS
    <3>2. (i + 1) \div 2 = ((i - 1) + 1) \div 2
      BY <3>1
    <3>3. i > 2 => (i - 2) % 2 = 0
      BY <3>1
    <3>4. b[i].end /\ ~b[i - 1].end /\ b[i - 1].event = b[i].event
      <4>1. i - 1 \in 1..n /\ i \in 1..n
        BY <2>1, <3>1
      <4>2. /\ b[i].end = (i % 2 = 0)
            /\ b[i].event = (x \div 2) + ((i + 1) \div 2)
        BY <1>2, <4>1, Zenon
      <4>3. /\ b[i - 1].end = ((i - 1) % 2 = 0)
            /\ b[i - 1].event = (x \div 2) + (((i - 1) + 1) \div 2)
        BY <1>2, <4>1, Zenon
      <4> QED BY <3>1, <3>2, <4>2, <4>3, Zenon
    <3>5. i > 2 => b[i - 2].end
      BY <1>2, <2>1, <3>1, <3>3
    <3> QED BY <1>1, <3>1, <3>4, <3>5
  <2> QED BY <2>2, <2>3
<1> HIDE DEF whole
<1>4. Cardinality(whole) = n \div 2
  BY <1>3, CountEvens
<1>5. \A i \in whole : Cardinality({j \in whole : j <= i}) = i \div 2
  <2> TAKE i \in whole
  <2>1. i \in Nat /\ i <= n
    BY <1>3
  <2>2. {j \in whole : j <= i} = {j \in 1..i : j % 2 = 0}
    BY <1>3, <2>1
  <2> QED BY <2>1, <2>2, CountEvens
<1>6. \A k \in 1..(n \div 2) : At(k) = 2 * k
  <2> TAKE k \in 1..(n \div 2)
  <2>1. 2 * k \in whole /\ (2 * k) \div 2 = k
    BY <1>3
  <2>2. \A i \in whole : i \div 2 = k => i = 2 * k
    BY <1>3
  <2>3. \A i \in whole : Cardinality({j \in whole : j <= i}) = k <=> i = 2 * k
    BY <1>5, <2>1, <2>2
  <2> QED BY <2>1, <2>3
<1>7. \A k \in 1..(n \div 2) : b[At(k)].event = (x \div 2) + k
  <2> TAKE k \in 1..(n \div 2)
  <2>1. 2 * k \in 1..n /\ (2 * k + 1) \div 2 = k
    OBVIOUS
  <2>2. b[2 * k].event = (x \div 2) + k
    BY <1>2, <2>1
  <2> QED BY <1>6, <2>2
<1>8. Parsed(b) = [k \in 1..Cardinality(whole) |-> b[At(k)].event]
  BY DEF Parsed, whole
<1> HIDE DEF At
<1> QED BY <1>4, <1>7, <1>8

-----------------------------------------------------------------------------
(* Runs of halves.                                                         *)

LEMMA RunIs ==
  ASSUME made \in 0..MaxEvents, NEW h \in Nat, NEW n \in Nat,
         h + n <= 2 * made, NEW s, s = [i \in 1..n |-> HalfOf(h + i)]
  PROVE  s \in Seq(HalfTypes) /\ Len(s) = n /\ Run(s, h)
<1>1. h + n <= 2 * MaxEvents
  BY EventsAssumption
<1>2. s \in Seq(HalfTypes) /\ Len(s) = n
  BY <1>1, RunTyped
<1> QED BY <1>2 DEF Run

LEMMA Spelled ==
  ASSUME NEW S, NEW s \in Seq(S)
  PROVE  s = [i \in 1..Len(s) |-> s[i]]
<1>1. s \in [1..Len(s) -> S]
  BY LenProperties
<1> QED BY <1>1

LEMMA RunJoins ==
  ASSUME NEW h \in Nat, NEW s \in Seq(HalfTypes), Run(s, h),
         NEW t \in Seq(HalfTypes), Run(t, h + Len(s))
  PROVE  s \o t = [i \in 1..(Len(s) + Len(t)) |-> HalfOf(h + i)]
<1> DEFINE m == Len(s)
           n == Len(t)
<1>1. m \in Nat /\ n \in Nat
  OBVIOUS
<1>2. \A i \in 1..m : s[i] = HalfOf(h + i)
  BY DEF Run
<1>3. \A i \in 1..n : t[i] = HalfOf((h + m) + i)
  BY DEF Run
<1>4. /\ s \o t \in Seq(HalfTypes) /\ Len(s \o t) = m + n
      /\ \A i \in 1..(m + n) : (s \o t)[i] = IF i <= m THEN s[i] ELSE t[i - m]
  BY ConcatProperties
<1>5. \A i \in 1..(m + n) : (IF i <= m THEN s[i] ELSE t[i - m]) = HalfOf(h + i)
  <2> TAKE i \in 1..(m + n)
  <2>1. CASE i <= m
    BY <1>1, <1>2, <2>1
  <2>2. CASE ~(i <= m)
    <3>1. i - m \in 1..n /\ (h + m) + (i - m) = h + i
      BY <1>1, <2>2
    <3> QED BY <1>3, <2>2, <3>1
  <2> QED BY <2>1, <2>2
<1>6. s \o t = [i \in 1..Len(s \o t) |-> (s \o t)[i]]
  BY <1>4, Spelled, Zenon
<1> QED BY <1>4, <1>5, <1>6

LEMMA RunPart ==
  ASSUME NEW h \in Nat, NEW s \in Seq(HalfTypes), Run(s, h),
         NEW a \in Nat, NEW b \in Nat, a <= b, b <= Len(s)
  PROVE  LET t == SubSeq(s, a + 1, b)
         IN  t \in Seq(HalfTypes) /\ Len(t) = b - a /\ Run(t, h + a)
<1> DEFINE t == SubSeq(s, a + 1, b)
<1>1. Len(s) \in Nat /\ a + 1 \in Int
  OBVIOUS
<1>2. \A i \in 1..Len(s) : s[i] \in HalfTypes
  BY ElementOfSeq
<1>3. \A i \in (a + 1)..b : s[i] \in HalfTypes
  BY <1>1, <1>2
<1>4. /\ t \in Seq(HalfTypes)
      /\ Len(t) = IF a + 1 <= b THEN b - (a + 1) + 1 ELSE 0
      /\ \A i \in 1..(b - (a + 1) + 1) : t[i] = s[(a + 1) + i - 1]
  BY <1>1, <1>3, SubSeqProperties
<1> HIDE DEF t
<1>5. Len(t) = b - a
  BY <1>4
<1>6. \A i \in 1..Len(s) : s[i] = HalfOf(h + i)
  BY DEF Run
<1>7. \A i \in 1..(b - a) : t[i] = HalfOf((h + a) + i)
  <2> TAKE i \in 1..(b - a)
  <2>1. t[i] = s[(a + 1) + i - 1] /\ (a + 1) + i - 1 = a + i
    BY <1>4
  <2>2. a + i \in 1..Len(s) /\ h + (a + i) = (h + a) + i
    BY <1>1
  <2> QED BY <1>6, <2>1, <2>2
<1>8. t = [i \in 1..Len(t) |-> t[i]]
  BY <1>4, Spelled, Zenon
<1>9. Run(t, h + a)
  BY <1>5, <1>7, <1>8 DEF Run
<1> QED BY <1>4, <1>5, <1>9 DEF t

-----------------------------------------------------------------------------
(* The relay's queue.                                                      *)

LEMMA PushedIs ==
  ASSUME NEW queue \in Seq(1..MaxEvents), NEW new \in Seq(1..MaxEvents),
         Len(queue) <= RelayCapacity, Rising(queue), Rising(new),
         \A i \in DOMAIN queue, j \in DOMAIN new : queue[i] < new[j]
  PROVE  LET p == Pushed(queue, new)
         IN  /\ p \in Seq(1..MaxEvents) /\ Len(p) <= RelayCapacity
             /\ Rising(p)
             /\ \A i \in DOMAIN p : \/ \E j \in DOMAIN queue : p[i] = queue[j]
                                    \/ \E j \in DOMAIN new : p[i] = new[j]
<1> DEFINE all == queue \o new
           m == Len(queue)
           n == Len(new)
<1>1. m \in Nat /\ n \in Nat /\ RelayCapacity \in Nat
  BY EventsAssumption
<1>2. all \in Seq(1..MaxEvents) /\ Len(all) = m + n
  OBVIOUS
<1>3. \A i \in 1..(m + n) : all[i] = IF i <= m THEN queue[i] ELSE new[i - m]
  OBVIOUS
<1>4. \A i \in 1..(m + n) : \/ i <= m /\ i \in DOMAIN queue /\ all[i] = queue[i]
                            \/ i > m /\ i - m \in DOMAIN new /\ all[i] = new[i - m]
  BY <1>1, <1>3
<1> HIDE DEF all
<1>5. ASSUME NEW i \in 1..(m + n), NEW j \in 1..(m + n), i < j
      PROVE  all[i] < all[j]
  <2>1. CASE j <= m
    <3>1. i \in DOMAIN queue /\ all[i] = queue[i]
      BY <1>1, <1>4, <1>5, <2>1
    <3>2. j \in DOMAIN queue /\ all[j] = queue[j]
      BY <1>1, <1>4, <2>1
    <3> QED BY <1>5, <3>1, <3>2 DEF Rising
  <2>2. CASE i <= m /\ j > m
    <3>1. i \in DOMAIN queue /\ all[i] = queue[i]
      BY <1>1, <1>4, <2>2
    <3>2. j - m \in DOMAIN new /\ all[j] = new[j - m]
      BY <1>1, <1>4, <2>2
    <3> QED BY <3>1, <3>2
  <2>3. CASE i > m
    <3>1. i - m \in DOMAIN new /\ all[i] = new[i - m]
      BY <1>1, <1>4, <2>3
    <3>2. j - m \in DOMAIN new /\ all[j] = new[j - m] /\ i - m < j - m
      BY <1>1, <1>4, <1>5, <2>3
    <3> QED BY <3>1, <3>2 DEF Rising
  <2> QED BY <1>1, <1>5, <2>1, <2>2, <2>3
<1>6. CASE Len(all) > RelayCapacity
  <2> DEFINE d == Len(all) - RelayCapacity
             p == SubSeq(all, d + 1, Len(all))
  <2>1. Pushed(queue, new) = p
    BY <1>6 DEF Pushed, all
  <2>2. d \in Nat /\ d <= m + n /\ Len(all) - d = RelayCapacity
    BY <1>1, <1>2, <1>6
  <2> HIDE DEF d
  <2>3. \A i \in (d + 1)..Len(all) : all[i] \in 1..MaxEvents
    <3>1. \A i \in 1..Len(all) : all[i] \in 1..MaxEvents
      BY <1>2, ElementOfSeq
    <3>2. Len(all) \in Nat
      BY <1>1, <1>2
    <3> QED BY <2>2, <3>1, <3>2
  <2>4. /\ p \in Seq(1..MaxEvents) /\ Len(p) = RelayCapacity
        /\ \A i \in 1..RelayCapacity : p[i] = all[d + i] /\ d + i \in 1..(m + n)
    <3>1. d + 1 \in Int /\ Len(all) \in Int
      BY <1>1, <1>2, <2>2
    <3>2. /\ p \in Seq(1..MaxEvents)
          /\ Len(p) = IF d + 1 <= Len(all) THEN Len(all) - (d + 1) + 1 ELSE 0
          /\ \A i \in 1..(Len(all) - (d + 1) + 1) : p[i] = all[(d + 1) + i - 1]
      BY <2>3, <3>1, SubSeqProperties
    <3>3. Len(all) - (d + 1) + 1 = RelayCapacity /\ d + 1 <= Len(all)
      BY <1>1, <1>2, <2>2, EventsAssumption
    <3>4. \A i \in 1..RelayCapacity : (d + 1) + i - 1 = d + i /\ d + i \in 1..(m + n)
      BY <1>1, <1>2, <2>2
    <3> QED BY <3>2, <3>3, <3>4
  <2> HIDE DEF p
  <2>5. DOMAIN p = 1..RelayCapacity
    BY <2>4
  <2>6. Rising(p)
    BY <1>1, <1>5, <2>2, <2>4, <2>5 DEF Rising
  <2>7. \A i \in DOMAIN p : \/ \E j \in DOMAIN queue : p[i] = queue[j]
                            \/ \E j \in DOMAIN new : p[i] = new[j]
    BY <1>4, <2>4, <2>5
  <2> QED BY <1>1, <2>1, <2>4, <2>6, <2>7
<1>7. CASE ~(Len(all) > RelayCapacity)
  <2>1. Pushed(queue, new) = all
    BY <1>7 DEF Pushed, all
  <2>2. DOMAIN all = 1..(m + n)
    BY <1>2
  <2>3. Rising(all)
    BY <1>5, <2>2 DEF Rising
  <2>4. \A i \in DOMAIN all : \/ \E j \in DOMAIN queue : all[i] = queue[j]
                              \/ \E j \in DOMAIN new : all[i] = new[j]
    BY <1>4, <2>2
  <2> QED BY <1>1, <1>2, <1>7, <2>1, <2>3, <2>4
<1> QED BY <1>6, <1>7

LEMMA PostIs ==
  ASSUME NEW p \in Seq(1..MaxEvents), Len(p) <= RelayCapacity, Rising(p),
         told \in 0..MaxEvents, \A i \in DOMAIN p : told <= p[i], Post(p)
  PROVE  /\ rq' \in Seq(1..MaxEvents) /\ Len(rq') <= RelayCapacity
         /\ Rising(rq')
         /\ told' \in 0..MaxEvents /\ told' >= told
         /\ \A i \in DOMAIN rq' : told' <= rq'[i]
         /\ \A i \in DOMAIN rq' : \E j \in DOMAIN p : rq'[i] = p[j]
         /\ told' = told \/ \E j \in DOMAIN p : told' = p[j]
<1>1. CASE p = <<>> /\ rq' = p /\ told' = told
  BY <1>1
<1>2. CASE p # <<>>
  <2> DEFINE n == Len(p)
  <2>1. n \in Nat /\ n # 0 /\ DOMAIN p = 1..n /\ Head(p) = p[1]
    BY <1>2
  <2>2. \A i \in 1..n : p[i] \in 1..MaxEvents /\ p[1] <= p[i]
    <3>1. \A i \in 1..n : p[i] \in 1..MaxEvents
      BY ElementOfSeq
    <3>2. \A i \in 1..n : i # 1 => p[1] < p[i]
      BY <2>1 DEF Rising
    <3>3. 1 \in 1..n
      BY <2>1
    <3> QED BY <3>1, <3>2, <3>3
  <2>3. told' = told \/ told' = p[1]
    BY <1>2, <2>1 DEF Post
  <2>4. told' \in 0..MaxEvents /\ told' >= told /\ \A i \in 1..n : told' <= p[i]
    <3>1. CASE told' = told
      BY <2>1, <3>1
    <3>2. CASE told' = p[1]
      BY <2>1, <2>2, <3>2
    <3> QED BY <2>3, <3>1, <3>2
  <2>5. rq' = p \/ rq' = Tail(p)
    BY <1>2 DEF Post
  <2>6. CASE rq' = p
    BY <2>1, <2>3, <2>4, <2>6
  <2>7. CASE rq' = Tail(p)
    <3> DEFINE t == Tail(p)
    <3>1. t \in Seq(1..MaxEvents) /\ Len(t) = n - 1
      BY <1>2
    <3>2. \A i \in 1..(n - 1) : t[i] = p[i + 1] /\ i + 1 \in 1..n
      BY <1>2, <2>1
    <3>3. DOMAIN t = 1..(n - 1)
      BY <3>1
    <3> HIDE DEF t
    <3>4. Rising(t)
      BY <2>1, <3>2, <3>3 DEF Rising
    <3>5. \A i \in DOMAIN t : \E j \in DOMAIN p : t[i] = p[j]
      BY <2>1, <3>2, <3>3
    <3>6. \A i \in DOMAIN t : told' <= t[i]
      BY <2>4, <3>2, <3>3
    <3>7. Len(t) <= RelayCapacity
      BY <2>1, <3>1, EventsAssumption
    <3>8. rq' = t
      BY <2>7 DEF t
    <3>9. told' = told \/ \E j \in DOMAIN p : told' = p[j]
      BY <2>1, <2>3
    <3> QED BY <2>4, <3>1, <3>4, <3>5, <3>6, <3>7, <3>8, <3>9
  <2> QED BY <2>5, <2>6, <2>7
<1> QED BY <1>1, <1>2 DEF Post

-----------------------------------------------------------------------------
(* The daemon's socket.                                                    *)

LEMMA EventInitKeeps == EventInit => StreamInv
<1> SUFFICES ASSUME EventInit PROVE StreamInv
  OBVIOUS
<1> USE DEF EventInit
<1>1. EventTypeOK
  <2>1. 0 \in 0..MaxEvents /\ 0 \in 0..MaxClients /\ 0 \in 0..1
    BY EventsAssumption
  <2>2. \A S : <<>> \in Seq(S)
    BY EmptySeq
  <2>3. Len(<<>>) = 0 /\ 0 <= QueueCapacity /\ 0 <= WireRoom /\ 0 <= RelayCapacity
    BY EventsAssumption
  <2> QED BY <2>1, <2>2, <2>3 DEF EventTypeOK
<1>2. Connected
  BY EventsAssumption DEF Connected
<1>3. Ordered
  BY DEF Ordered, Rising
<1>4. InStep(0)
  BY DEF InStep, Run
<1> QED BY <1>1, <1>2, <1>3, <1>4 DEF StreamInv

\* What the places of a stream are worth.
LEMMA StepIs ==
  ASSUME EventTypeOK, NEW x \in Nat, InStep(x)
  PROVE  /\ made \in Nat /\ Len(buf) \in Nat /\ Len(wire) \in Nat
         /\ Len(q) \in Nat /\ off \in 0..1
         /\ x % 2 = 0 /\ x <= 2 * made
         /\ Run(buf, x) /\ Run(wire, x + Len(buf))
         /\ x + Len(buf) + Len(wire) <= 2 * made
         /\ slot = "client" =>
               x + Len(buf) + Len(wire) + 2 * Len(q) - off = 2 * made
         /\ got # <<>> => 2 * got[Len(got)] = x
         /\ told \in Nat /\ 2 * told <= x
         /\ \A i \in DOMAIN rq : rq[i] \in 1..MaxEvents /\ 2 * rq[i] <= x
<1>1. /\ made \in Nat /\ Len(buf) \in Nat /\ Len(wire) \in Nat
      /\ Len(q) \in Nat /\ off \in 0..1 /\ told \in Nat
  BY EventsAssumption DEF EventTypeOK
<1>2. \A i \in DOMAIN rq : rq[i] \in 1..MaxEvents
  <2>1. rq \in Seq(1..MaxEvents)
    BY DEF EventTypeOK
  <2> QED BY <2>1, LenProperties, ElementOfSeq
<1> QED BY <1>1, <1>2, Zenon DEF InStep

LEMMA Farther ==
  \A a, m, n \in Nat : m <= n /\ a <= 2 * m => a <= 2 * n
OBVIOUS

\* Whenever the daemon closes the connection, what was sent may be read.
LEMMA Dropped ==
  ASSUME StreamInv, DropClient, UNCHANGED <<wire, relayVars>>,
         made' \in {made, made + 1}, made' <= MaxEvents,
         others' \in 0..MaxClients
  PROVE  StreamInv'
<1> USE DEF relayVars, DropClient
<1>0. EventTypeOK /\ Connected /\ Ordered
  BY DEF StreamInv
<1>1. PICK x \in Nat : InStep(x)
  BY DEF StreamInv
<1>2. made \in Nat /\ made' \in 0..MaxEvents /\ made' \in Nat /\ made <= made'
  BY <1>0, EventsAssumption DEF EventTypeOK
<1>3. EventTypeOK'
  BY <1>0, <1>2, EventsAssumption DEF EventTypeOK
<1>4. Connected'
  BY <1>0, EventsAssumption DEF Connected, EventTypeOK
<1>5. Ordered'
  BY <1>0 DEF Ordered, Rising
<1>6. InStep(x)'
  <2>1. Run(buf, x)' /\ Run(wire, x + Len(buf))'
    BY <1>1 DEF InStep, Run
  <2>2. x + Len(buf) + Len(wire) <= 2 * made' /\ x <= 2 * made'
    <3> DEFINE sent == x + Len(buf) + Len(wire)
    <3>1. sent \in Nat /\ sent <= 2 * made /\ x <= 2 * made
      BY <1>0, <1>1, StepIs
    <3> HIDE DEF sent
    <3>2. sent <= 2 * made' /\ x <= 2 * made'
      BY <1>2, <3>1, Farther
    <3> QED BY <3>2 DEF sent
  <2>3. /\ got # <<>> => 2 * got[Len(got)] = x
        /\ 2 * told <= x /\ \A i \in DOMAIN rq : 2 * rq[i] <= x
        /\ x % 2 = 0
    BY <1>1 DEF InStep
  <2> QED BY <2>1, <2>2, <2>3 DEF InStep
<1> QED BY <1>3, <1>4, <1>5, <1>6 DEF StreamInv

LEMMA PublishKeeps == ASSUME StreamInv, Publish PROVE StreamInv'
<1> USE DEF relayVars
<1>0. EventTypeOK /\ Connected /\ Ordered
  BY DEF StreamInv
<1>1. PICK x \in Nat : InStep(x)
  BY DEF StreamInv
<1>2. /\ made \in Nat /\ made' = made + 1 /\ made' \in 0..MaxEvents
      /\ made' \in 1..MaxEvents
      /\ UNCHANGED <<others, wire, conn, buf, rq, told, got>>
  BY <1>0, EventsAssumption DEF EventTypeOK, Publish
<1>3. Len(buf) \in Nat /\ Len(wire) \in Nat /\ Len(q) \in Nat /\ off \in 0..1
  BY <1>0 DEF EventTypeOK
<1>4. CASE slot # "client" /\ UNCHANGED <<slot, q, off, eof>>
  <2>1. EventTypeOK'
    BY <1>0, <1>2, <1>4 DEF EventTypeOK
  <2>2. Connected'
    BY <1>0, <1>2, <1>4 DEF Connected
  <2>3. Ordered'
    <3>1. q = <<>>
      BY <1>0, <1>4 DEF Connected
    <3> QED BY <1>0, <1>2, <1>4, <3>1 DEF Ordered, Rising
  <2>4. InStep(x)'
    <3>1. Run(buf, x)' /\ Run(wire, x + Len(buf))'
      BY <1>1, <1>2 DEF InStep, Run
    <3>2. x + Len(buf) + Len(wire) <= 2 * made' /\ x <= 2 * made' /\ x % 2 = 0
      <4> DEFINE sent == x + Len(buf) + Len(wire)
      <4>1. sent \in Nat /\ sent <= 2 * made /\ x <= 2 * made /\ x % 2 = 0
        BY <1>0, <1>1, StepIs
      <4> HIDE DEF sent
      <4>2. sent <= 2 * made' /\ x <= 2 * made'
        BY <1>2, <4>1
      <4> QED BY <4>1, <4>2 DEF sent
    <3>3. /\ got # <<>> => 2 * got[Len(got)] = x
          /\ 2 * told <= x /\ \A i \in DOMAIN rq : 2 * rq[i] <= x
      BY <1>1 DEF InStep
    <3> QED BY <1>2, <1>4, <3>1, <3>2, <3>3 DEF InStep
  <2> QED BY <2>1, <2>2, <2>3, <2>4 DEF StreamInv
<1>5. CASE slot = "client" /\ DropClient
  <2>1. others' \in 0..MaxClients
    BY <1>0, <1>2 DEF EventTypeOK
  <2> QED BY <1>2, <1>5, <2>1, Dropped DEF relayVars
<1>6. CASE /\ slot = "client" /\ Len(q) < QueueCapacity
           /\ q' = Append(q, made + 1) /\ UNCHANGED <<slot, off, eof>>
  <2>1. /\ q' \in Seq(1..MaxEvents) /\ Len(q') = Len(q) + 1
        /\ \A i \in 1..(Len(q) + 1) : q'[i] = IF i <= Len(q) THEN q[i] ELSE made + 1
    <3>1. q \in Seq(1..MaxEvents) /\ made + 1 \in 1..MaxEvents
      BY <1>0, <1>2 DEF EventTypeOK
    <3> QED BY <1>6, <3>1, AppendProperties
  <2>2. EventTypeOK'
    BY <1>0, <1>2, <1>3, <1>6, <2>1, EventsAssumption DEF EventTypeOK
  <2>3. Connected'
    BY <1>0, <1>2, <1>3, <1>6, <2>1 DEF Connected
  <2>4. Ordered'
    <3>1. DOMAIN q = 1..Len(q) /\ DOMAIN q' = 1..(Len(q) + 1)
      BY <1>0, <2>1 DEF EventTypeOK
    <3>2. \A i \in 1..Len(q) : q[i] = made - Len(q) + i
      BY <1>0, <3>1 DEF Ordered
    <3>3. \A i \in 1..(Len(q) + 1) : q'[i] = (made + 1) - (Len(q) + 1) + i
      BY <1>2, <1>3, <2>1, <3>2
    <3>4. \A i \in DOMAIN q' : q'[i] = made' - Len(q') + i
      BY <1>2, <2>1, <3>1, <3>3
    <3> QED BY <1>0, <1>2, <3>4 DEF Ordered, Rising
  <2>5. InStep(x)'
    <3>1. Run(buf, x)' /\ Run(wire, x + Len(buf))'
      BY <1>1, <1>2 DEF InStep, Run
    <3>2. /\ x + Len(buf) + Len(wire) <= 2 * made' /\ x <= 2 * made' /\ x % 2 = 0
          /\ x + Len(buf) + Len(wire) + 2 * Len(q') - off = 2 * made'
      <4> DEFINE sent == x + Len(buf) + Len(wire)
      <4>1. /\ sent \in Nat /\ sent <= 2 * made /\ x <= 2 * made /\ x % 2 = 0
            /\ sent + 2 * Len(q) - off = 2 * made
        BY <1>0, <1>1, <1>6, StepIs
      <4> HIDE DEF sent
      <4>2. sent + 2 * (Len(q) + 1) - off = 2 * (made + 1)
        BY <1>2, <1>3, <4>1
      <4>3. sent + 2 * Len(q') - off = 2 * made'
        BY <1>2, <2>1, <4>2
      <4> QED BY <1>2, <4>1, <4>3 DEF sent
    <3>3. /\ got # <<>> => 2 * got[Len(got)] = x
          /\ 2 * told <= x /\ \A i \in DOMAIN rq : 2 * rq[i] <= x
      BY <1>1 DEF InStep
    <3> QED BY <1>2, <1>6, <3>1, <3>2, <3>3 DEF InStep
  <2> QED BY <2>2, <2>3, <2>4, <2>5 DEF StreamInv
<1> QED BY <1>4, <1>5, <1>6 DEF Publish, Enqueue

LEMMA AcceptKeeps == ASSUME StreamInv, Accept PROVE StreamInv'
<1> USE DEF relayVars
<1>0. EventTypeOK /\ Connected /\ Ordered
  BY DEF StreamInv
<1>1. PICK x \in Nat : InStep(x)
  BY DEF StreamInv
<1>2. /\ slot = "waiting" /\ q = <<>> /\ off = 0 /\ buf = <<>> /\ wire = <<>>
      /\ got = <<>> /\ ~eof /\ made \in Nat
  BY <1>0, EventsAssumption DEF Accept, Connected, EventTypeOK
<1>3. UNCHANGED <<made, others, wire, conn, buf, rq, told, got>>
  BY DEF Accept
<1>4. CASE others < MaxClients /\ slot' = "client" /\ UNCHANGED <<q, off, eof>>
  <2>1. EventTypeOK'
    BY <1>0, <1>3, <1>4 DEF EventTypeOK
  <2>2. Connected'
    BY <1>0, <1>2, <1>3, <1>4, EventsAssumption DEF Connected, EventTypeOK
  <2>3. Ordered'
    BY <1>0, <1>3, <1>4 DEF Ordered, Rising
  <2>4. PICK n \in Nat : n = 2 * made
    BY <1>2
  <2>5. InStep(n)'
    <3>1. n \in Nat /\ n % 2 = 0 /\ x <= n
      BY <1>1, <1>2, <2>4 DEF InStep
    <3>2. Run(<<>>, n) /\ Run(<<>>, n + 0)
      BY DEF Run
    <3>3. /\ told \in Nat /\ 2 * told <= x
          /\ \A i \in DOMAIN rq : rq[i] \in 1..MaxEvents /\ 2 * rq[i] <= x
      BY <1>0, <1>1, StepIs
    <3>4. 2 * told <= n /\ \A i \in DOMAIN rq : 2 * rq[i] <= n
      BY <1>2, <3>1, <3>3
    <3>5. Len(<<>>) = 0 /\ n + 0 + 0 <= 2 * made /\ n <= 2 * made
          /\ n + 0 + 0 + 2 * 0 - 0 = 2 * made
      BY <1>2, <2>4
    <3>6. /\ buf' = <<>> /\ wire' = <<>> /\ q' = <<>> /\ off' = 0 /\ got' = <<>>
          /\ made' = made /\ told' = told /\ rq' = rq
      BY <1>2, <1>3, <1>4
    <3> QED BY <3>1, <3>2, <3>4, <3>5, <3>6 DEF InStep
  <2> QED BY <2>1, <2>2, <2>3, <2>5 DEF StreamInv
<1>5. CASE others = MaxClients /\ DropClient
  <2>1. others' \in 0..MaxClients /\ made' <= MaxEvents
    BY <1>0, <1>3, EventsAssumption DEF EventTypeOK
  <2> QED BY <1>3, <1>5, <2>1, Dropped DEF relayVars
<1> QED BY <1>4, <1>5 DEF Accept

LEMMA OtherClientKeeps == ASSUME StreamInv, OtherClient PROVE StreamInv'
<1> USE DEF relayVars
<1>0. EventTypeOK /\ Connected /\ Ordered
  BY DEF StreamInv
<1>1. PICK x \in Nat : InStep(x)
  BY DEF StreamInv
<1>2. UNCHANGED <<made, slot, q, off, wire, eof, conn, buf, rq, told, got>>
  BY DEF OtherClient
<1>3. /\ others' \in 0..MaxClients
      /\ others' + (IF slot = "client" THEN 1 ELSE 0) <= MaxClients
  <2> DEFINE c == IF slot = "client" THEN 1 ELSE 0
  <2>1. c \in 0..1 /\ MaxClients \in Nat /\ others \in 0..MaxClients
    BY <1>0, EventsAssumption DEF EventTypeOK
  <2>2. others + c <= MaxClients
    BY <1>0 DEF Connected
  <2>3. \/ others + c < MaxClients /\ others' = others + 1
        \/ others > 0 /\ others' = others - 1
    BY DEF OtherClient
  <2> HIDE DEF c
  <2>4. others' \in 0..MaxClients /\ others' + c <= MaxClients
    BY <2>1, <2>2, <2>3
  <2> QED BY <2>4 DEF c
<1>4. EventTypeOK'
  BY <1>0, <1>2, <1>3 DEF EventTypeOK
<1>5. Connected'
  BY <1>0, <1>2, <1>3 DEF Connected
<1>6. Ordered'
  BY <1>0, <1>2 DEF Ordered, Rising
<1>7. InStep(x)'
  BY <1>1, <1>2 DEF InStep, Run
<1> QED BY <1>4, <1>5, <1>6, <1>7 DEF StreamInv

LEMMA DaemonRestartKeeps == ASSUME StreamInv, DaemonRestart PROVE StreamInv'
<1> USE DEF relayVars
<1>0. EventTypeOK /\ Connected /\ Ordered
  BY DEF StreamInv
<1>1. UNCHANGED <<made, wire, conn, buf, rq, told, got>> /\ others' = 0
  BY DEF DaemonRestart
<1>2. 0 \in 0..MaxClients /\ made <= MaxEvents
  BY <1>0, EventsAssumption DEF EventTypeOK
<1>3. CASE DropClient
  BY <1>1, <1>2, <1>3, Dropped DEF relayVars
<1>4. CASE slot = "none" /\ UNCHANGED <<slot, q, off, eof>>
  <2>1. PICK x \in Nat : InStep(x)
    BY DEF StreamInv
  <2>2. EventTypeOK'
    BY <1>0, <1>1, <1>2, <1>4 DEF EventTypeOK
  <2>3. Connected'
    BY <1>0, <1>1, <1>4, EventsAssumption DEF Connected
  <2>4. Ordered'
    BY <1>0, <1>1, <1>4 DEF Ordered, Rising
  <2>5. InStep(x)'
    BY <1>1, <1>4, <2>1 DEF InStep, Run
  <2> QED BY <2>2, <2>3, <2>4, <2>5 DEF StreamInv
<1> QED BY <1>3, <1>4 DEF DaemonRestart

LEMMA HalvesRun ==
  ASSUME StreamInv, slot = "client", NEW x \in Nat, InStep(x)
  PROVE  /\ (x + Len(buf) + Len(wire)) - off \in Nat
         /\ Run(Halves(q), (x + Len(buf) + Len(wire)) - off)
         /\ Halves(q) \in Seq(HalfTypes) /\ Len(Halves(q)) = 2 * Len(q)
<1> DEFINE n == Len(q)
           base == (x + Len(buf) + Len(wire)) - off
<1>0. EventTypeOK /\ Connected /\ Ordered
  BY DEF StreamInv
<1>1. /\ made \in Nat /\ n \in Nat /\ off \in 0..1
      /\ x + Len(buf) + Len(wire) \in Nat
      /\ x + Len(buf) + Len(wire) + 2 * n - off = 2 * made
  BY <1>0, StepIs
<1> DEFINE sent == x + Len(buf) + Len(wire)
<1> HIDE DEF sent
<1>2. base = sent - off /\ sent \in Nat /\ sent + 2 * n - off = 2 * made
  BY <1>1 DEF sent
<1> HIDE DEF base
<1>3. base \in Nat /\ base = 2 * (made - n) /\ base + 2 * n = 2 * made
  BY <1>1, <1>2
<1>4. base % 2 = 0 /\ base \div 2 = made - n
  BY <1>1, <1>3
<1>5. \A i \in 1..n : q[i] = made - n + i
  <2>1. DOMAIN q = 1..n
    BY <1>0 DEF EventTypeOK
  <2> QED BY <1>0, <2>1 DEF Ordered
<1>6. \A i \in 1..(2 * n) :
         [event |-> q[(i + 1) \div 2], end |-> i % 2 = 0] = HalfOf(base + i)
  <2> TAKE i \in 1..(2 * n)
  <2>1. i \in Nat /\ (i + 1) \div 2 \in 1..n
    BY <1>1
  <2>2. q[(i + 1) \div 2] = made - n + ((i + 1) \div 2)
    BY <1>5, <2>1
  <2>3. (base + i) % 2 = i % 2 /\ (base + i + 1) \div 2 = (made - n) + ((i + 1) \div 2)
    BY <1>3, <1>4, <2>1, Pair
  <2>4. q[(i + 1) \div 2] = (base + i + 1) \div 2
    BY <2>2, <2>3
  <2> QED BY <2>3, <2>4 DEF HalfOf
<1>7. Halves(q) = [i \in 1..(2 * n) |-> HalfOf(base + i)]
  BY <1>6 DEF Halves
<1>8. made \in 0..MaxEvents /\ 2 * n \in Nat
  BY <1>0, <1>1 DEF EventTypeOK
<1>9. /\ Halves(q) \in Seq(HalfTypes) /\ Len(Halves(q)) = 2 * n
      /\ Run(Halves(q), base)
  BY <1>3, <1>7, <1>8, RunIs
<1> QED BY <1>3, <1>9 DEF base

LEMMA FlushKeeps == ASSUME StreamInv, Flush PROVE StreamInv'
<1> USE DEF relayVars
<1> DEFINE room == WireRoom - Len(wire)
           left == 2 * Len(q) - off
           n    == IF left < room THEN left ELSE room
           d    == (off + n) \div 2
           part == SubSeq(Halves(q), off + 1, off + n)
<1>0. EventTypeOK /\ Connected /\ Ordered
  BY DEF StreamInv
<1>1. PICK x \in Nat : InStep(x)
  BY DEF StreamInv
<1> DEFINE sent == x + Len(buf) + Len(wire)
<1>2. /\ slot = "client" /\ q # <<>> /\ n > 0
      /\ wire' = wire \o part
      /\ q' = SubSeq(q, d + 1, Len(q)) /\ off' = (off + n) % 2
      /\ UNCHANGED <<made, slot, others, eof, conn, buf, rq, told, got>>
  BY DEF Flush
<1>3. /\ made \in Nat /\ Len(buf) \in Nat /\ Len(wire) \in Nat
      /\ Len(q) \in Nat /\ off \in 0..1 /\ WireRoom \in Nat
      /\ made \in 0..MaxEvents
  BY <1>0, EventsAssumption DEF EventTypeOK
<1>4. /\ n \in Nat /\ off + n <= 2 * Len(q) /\ Len(wire) + n <= WireRoom
  BY <1>2, <1>3
<1> HIDE DEF n
<1>5. d \in Nat /\ d <= Len(q) /\ off' \in 0..1 /\ off + n = 2 * d + off'
  <2>1. off + n \in Nat /\ off' = (off + n) % 2
    BY <1>2, <1>3, <1>4
  <2> QED BY <1>3, <1>4, <2>1
<1>6. sent \in Nat /\ sent + 2 * Len(q) - off = 2 * made /\ x <= 2 * made
  BY <1>0, <1>1, <1>2, StepIs
<1>7. part \in Seq(HalfTypes) /\ Len(part) = n /\ Run(part, sent)
  <2> DEFINE base == sent - off
  <2>1. /\ base \in Nat /\ Run(Halves(q), base)
        /\ Halves(q) \in Seq(HalfTypes) /\ Len(Halves(q)) = 2 * Len(q)
    <3>1. slot = "client"
      BY <1>2
    <3>2. StreamInv /\ InStep(x) /\ x \in Nat
      BY <1>1
    <3>3. /\ (x + Len(buf) + Len(wire)) - off \in Nat
          /\ Run(Halves(q), (x + Len(buf) + Len(wire)) - off)
          /\ Halves(q) \in Seq(HalfTypes) /\ Len(Halves(q)) = 2 * Len(q)
      BY <3>1, <3>2, HalvesRun
    <3> QED BY <3>3
  <2>2. off \in Nat /\ off + n \in Nat /\ off <= off + n
        /\ (off + n) - off = n /\ base + off = sent
    BY <1>3, <1>4, <1>6
  <2> HIDE DEF base, sent
  <2>3. /\ part \in Seq(HalfTypes) /\ Len(part) = (off + n) - off
        /\ Run(part, base + off)
    BY <1>4, <2>1, <2>2, RunPart
  <2> QED BY <2>2, <2>3
<1>8. /\ wire' \in Seq(HalfTypes) /\ Len(wire') = Len(wire) + n
      /\ Run(wire', x + Len(buf))
  <2> DEFINE h == x + Len(buf)
  <2>1. wire \in Seq(HalfTypes) /\ Run(wire, h) /\ h \in Nat
    BY <1>0, <1>1, <1>3 DEF InStep, EventTypeOK, HalfTypes
  <2>2. sent = h + Len(wire) /\ h + (Len(wire) + n) <= 2 * made
    BY <1>3, <1>4, <1>6
  <2> HIDE DEF sent, h, part
  <2>3. wire \o part = [i \in 1..(Len(wire) + Len(part)) |-> HalfOf(h + i)]
    BY <1>7, <2>1, <2>2, RunJoins
  <2>4. wire' = [i \in 1..(Len(wire) + n) |-> HalfOf(h + i)]
    BY <1>2, <1>7, <2>3
  <2>5. Len(wire) + n \in Nat
    BY <1>3, <1>4
  <2>6. /\ wire' \in Seq(HalfTypes) /\ Len(wire') = Len(wire) + n
        /\ Run(wire', h)
    BY <1>3, <2>1, <2>2, <2>4, <2>5, RunIs
  <2> QED BY <2>6 DEF h
<1> HIDE DEF part, sent, d
<1>9. /\ q' \in Seq(1..MaxEvents) /\ Len(q') = Len(q) - d
      /\ \A i \in 1..Len(q') : q'[i] = made - Len(q') + i
  <2>1. \A i \in 1..Len(q) : q[i] \in 1..MaxEvents
    <3>1. q \in Seq(1..MaxEvents)
      BY <1>0 DEF EventTypeOK
    <3> QED BY <3>1, ElementOfSeq
  <2>2. \A i \in 1..Len(q) : q[i] = made - Len(q) + i
    <3>1. DOMAIN q = 1..Len(q)
      BY <1>0 DEF EventTypeOK
    <3> QED BY <1>0, <3>1 DEF Ordered
  <2>3. d + 1 \in Int /\ Len(q) \in Int /\ \A i \in (d + 1)..Len(q) : q[i] \in 1..MaxEvents
    BY <1>3, <1>5, <2>1
  <2> DEFINE t == SubSeq(q, d + 1, Len(q))
  <2>4. /\ t \in Seq(1..MaxEvents)
        /\ Len(t) = IF d + 1 <= Len(q) THEN Len(q) - (d + 1) + 1 ELSE 0
        /\ \A i \in 1..(Len(q) - (d + 1) + 1) : t[i] = q[(d + 1) + i - 1]
    BY <2>3, SubSeqProperties
  <2> HIDE DEF t
  <2>5. Len(t) = Len(q) - d
    BY <1>3, <1>5, <2>4
  <2>6. \A i \in 1..(Len(q) - d) : t[i] = made - (Len(q) - d) + i
    <3> TAKE i \in 1..(Len(q) - d)
    <3>1. (d + 1) + i - 1 = d + i /\ d + i \in 1..Len(q)
      BY <1>3, <1>5
    <3>2. t[i] = made - Len(q) + (d + i)
      BY <1>3, <1>5, <2>2, <2>4, <3>1
    <3> QED BY <1>3, <1>5, <3>2
  <2>7. q' = t
    BY <1>2 DEF t
  <2> QED BY <2>4, <2>5, <2>6, <2>7
<1>10. EventTypeOK'
  <2>1. Len(q') <= QueueCapacity
    <3>1. Len(q) <= QueueCapacity /\ QueueCapacity \in Nat
      BY <1>0, EventsAssumption DEF EventTypeOK
    <3> QED BY <1>3, <1>5, <1>9, <3>1
  <2>2. Len(wire') <= WireRoom
    BY <1>4, <1>8
  <2> QED BY <1>0, <1>2, <1>5, <1>8, <1>9, <2>1, <2>2 DEF EventTypeOK, HalfTypes
<1>11. Connected'
  <2>1. q' = <<>> => off' = 0
    <3>1. q' = <<>> => Len(q) - d = 0
      BY <1>9
    <3>2. Len(q) - d = 0 => off' = 0
      <4>1. PICK p \in 0..1 : p = off'
        BY <1>5
      <4>2. off + n = 2 * d + p
        BY <1>5, <4>1
      <4>3. Len(q) - d = 0 => p = 0
        BY <1>3, <1>4, <1>5, <4>2
      <4> QED BY <4>1, <4>3
    <3> QED BY <3>1, <3>2
  <2> QED BY <1>0, <1>2, <2>1 DEF Connected
<1>12. Ordered'
  <2>1. DOMAIN q' = 1..Len(q')
    BY <1>9
  <2> QED BY <1>0, <1>2, <1>9, <2>1 DEF Ordered, Rising
<1>13. InStep(x)'
  <2>1. /\ sent + n <= 2 * made
        /\ sent + n + 2 * (Len(q) - d) - off' = 2 * made
    <3>1. PICK p \in 0..1 : p = off'
      BY <1>5
    <3>2. off + n = 2 * d + p
      BY <1>5, <3>1
    <3>3. sent + n <= 2 * made /\ sent + n + 2 * (Len(q) - d) - p = 2 * made
      BY <1>3, <1>4, <1>5, <1>6, <3>2
    <3> QED BY <3>1, <3>3
  <2>2. x + Len(buf) + Len(wire') = sent + n
    BY <1>3, <1>4, <1>8 DEF sent
  <2>3. /\ x + Len(buf) + Len(wire') <= 2 * made
        /\ x + Len(buf) + Len(wire') + 2 * Len(q') - off' = 2 * made
    BY <1>9, <2>1, <2>2
  <2>4. Run(buf, x)' /\ Run(wire, x + Len(buf))'
    <3>1. Run(buf, x) /\ buf' = buf
      BY <1>1, <1>2 DEF InStep
    <3> QED BY <1>8, <3>1 DEF Run
  <2>5. /\ got # <<>> => 2 * got[Len(got)] = x
        /\ 2 * told <= x /\ \A i \in DOMAIN rq : 2 * rq[i] <= x
        /\ x % 2 = 0
    BY <1>1 DEF InStep
  <2> QED BY <1>2, <1>6, <2>3, <2>4, <2>5 DEF InStep
<1> QED BY <1>10, <1>11, <1>12, <1>13 DEF StreamInv

-----------------------------------------------------------------------------
(* The relay.                                                              *)

LEMMA ConnectKeeps == ASSUME StreamInv, Connect PROVE StreamInv'
<1> USE DEF relayVars
<1>0. EventTypeOK /\ Connected /\ Ordered
  BY DEF StreamInv
<1>1. PICK x \in Nat : InStep(x)
  BY DEF StreamInv
<1>2. /\ ~conn /\ slot = "none" /\ buf = <<>> /\ wire = <<>> /\ q = <<>>
      /\ off = 0 /\ conn' = TRUE /\ slot' = "waiting" /\ wire' = <<>>
      /\ eof' = FALSE /\ got' = <<>>
      /\ UNCHANGED <<made, others, q, off, buf, rq, told>>
  BY <1>0 DEF Connect, Connected
<1>3. EventTypeOK'
  <2>1. \A S : <<>> \in Seq(S)
    BY EmptySeq
  <2> QED BY <1>0, <1>2, <2>1 DEF EventTypeOK
<1>4. Connected'
  BY <1>0, <1>2 DEF Connected
<1>5. Ordered'
  BY <1>0, <1>2 DEF Ordered, Rising
<1>6. InStep(x)'
  <2>1. Run(buf, x) /\ Run(wire, x + Len(buf)) /\ buf' = buf /\ wire' = wire
    BY <1>1, <1>2 DEF InStep
  <2>2. Run(buf, x)' /\ Run(wire, x + Len(buf))'
    BY <2>1 DEF Run
  <2>3. /\ x % 2 = 0 /\ x <= 2 * made /\ x + Len(buf) + Len(wire) <= 2 * made
        /\ 2 * told <= x /\ \A i \in DOMAIN rq : 2 * rq[i] <= x
    BY <1>1 DEF InStep
  <2> QED BY <1>2, <2>1, <2>2, <2>3 DEF InStep
<1> QED BY <1>3, <1>4, <1>5, <1>6 DEF StreamInv

LEMMA DisconnectKeeps == ASSUME StreamInv, Disconnect PROVE StreamInv'
<1> USE DEF streamVars
<1>0. EventTypeOK /\ Connected /\ Ordered
  BY DEF StreamInv
<1>1. PICK x \in Nat : InStep(x)
  BY DEF StreamInv
<1>2. /\ conn /\ wire = <<>> /\ eof /\ slot = "none"
      /\ conn' = FALSE /\ buf' = <<>> /\ eof' = FALSE
      /\ UNCHANGED <<made, slot, others, q, off, wire, rq, told, got>>
  BY <1>0 DEF Disconnect, Connected
<1>3. EventTypeOK'
  <2>1. \A S : <<>> \in Seq(S)
    BY EmptySeq
  <2> QED BY <1>0, <1>2, <2>1 DEF EventTypeOK
<1>4. Connected'
  BY <1>0, <1>2 DEF Connected
<1>5. Ordered'
  BY <1>0, <1>2 DEF Ordered, Rising
<1>6. InStep(x)'
  <2>1. Run(<<>>, x) /\ Run(<<>>, x + Len(<<>>)) /\ buf' = <<>> /\ wire' = <<>>
    BY <1>2 DEF Run
  <2>2. /\ x % 2 = 0 /\ x <= 2 * made
        /\ got # <<>> => 2 * got[Len(got)] = x
        /\ 2 * told <= x /\ \A i \in DOMAIN rq : 2 * rq[i] <= x
    BY <1>1 DEF InStep
  <2>3. x + Len(<<>>) + Len(<<>>) <= 2 * made
    <3>1. made \in Nat /\ Len(<<>>) = 0
      BY <1>0, <1>1, StepIs
    <3>2. x <= 2 * made
      BY <2>2
    <3> QED BY <3>1, <3>2
  <2>4. /\ Run(buf, x)' /\ Run(wire, x + Len(buf))'
        /\ x + Len(buf') + Len(wire') <= 2 * made' /\ slot' # "client"
    BY <1>2, <2>1, <2>3 DEF Run
  <2>5. /\ x <= 2 * made'
        /\ got' # <<>> => 2 * got'[Len(got')] = x
        /\ 2 * told' <= x /\ \A i \in DOMAIN rq' : 2 * rq'[i] <= x
    BY <1>2, <2>2
  <2> QED BY <2>2, <2>4, <2>5, Zenon DEF InStep
<1> QED BY <1>3, <1>4, <1>5, <1>6 DEF StreamInv

LEMMA RelayRestartKeeps == ASSUME StreamInv, RelayRestart PROVE StreamInv'
<1>0. EventTypeOK /\ Connected /\ Ordered
  BY DEF StreamInv
<1>1. PICK x \in Nat : InStep(x)
  BY DEF StreamInv
<1>2. /\ conn' = FALSE /\ buf' = <<>> /\ rq' = <<>> /\ got' = <<>>
      /\ wire' = <<>> /\ eof' = FALSE /\ slot' = "none" /\ q' = <<>>
      /\ off' = 0 /\ UNCHANGED <<made, told>>
  BY DEF RelayRestart
<1>3. others' \in 0..MaxClients
  <2> DEFINE c == IF slot = "client" THEN 1 ELSE 0
  <2>1. c \in 0..1 /\ MaxClients \in Nat /\ others \in 0..MaxClients
    BY <1>0, EventsAssumption DEF EventTypeOK
  <2>2. others + c <= MaxClients
    BY <1>0 DEF Connected
  <2>3. others' = others + c
    BY <2>1 DEF RelayRestart
  <2> HIDE DEF c
  <2> QED BY <2>1, <2>2, <2>3
<1>4. EventTypeOK'
  <2>1. \A S : <<>> \in Seq(S)
    BY EmptySeq
  <2>2. Len(<<>>) = 0 /\ 0 <= QueueCapacity /\ 0 <= WireRoom /\ 0 <= RelayCapacity
    BY EventsAssumption
  <2>3. /\ made' \in 0..MaxEvents /\ told' \in 0..MaxEvents
        /\ off' \in 0..1
    BY <1>0, <1>2 DEF EventTypeOK
  <2>4. conn' \in BOOLEAN /\ eof' \in BOOLEAN /\ slot' \in {"none", "waiting", "client"}
    BY <1>2
  <2> QED BY <1>2, <1>3, <2>1, <2>2, <2>3, <2>4 DEF EventTypeOK
<1>5. Connected'
  <2>1. PICK n \in 0..MaxClients : n = others'
    BY <1>3
  <2>2. n + 0 <= MaxClients
    BY <2>1, EventsAssumption
  <2> QED BY <1>2, <2>1, <2>2 DEF Connected
<1>6. Ordered'
  BY <1>2 DEF Ordered, Rising
<1>7. InStep(x)'
  <2>1. Run(<<>>, x) /\ Run(<<>>, x + Len(<<>>))
    BY DEF Run
  <2>2. x % 2 = 0 /\ x <= 2 * made /\ 2 * told <= x
    BY <1>1 DEF InStep
  <2>3. x + Len(<<>>) + Len(<<>>) <= 2 * made
    BY <2>2
  <2> QED BY <1>2, <2>1, <2>2, <2>3 DEF InStep
<1> QED BY <1>4, <1>5, <1>6, <1>7 DEF StreamInv

LEMMA Listed ==
  ASSUME NEW S, NEW n \in Nat, NEW f \in [1..n -> S]
  PROVE  f \in Seq(S) /\ Len(f) = n
OBVIOUS

\* "m" more events, "e", are parsed behind the events "g", x halves of a line.
Completes(g, x, m, e, h) ==
  /\ m \in Nat /\ x \in Nat /\ g \in Seq(1..MaxEvents)
  /\ x % 2 = 0
  /\ x + 2 * m <= 2 * MaxEvents
  /\ e = [k \in 1..m |-> (x \div 2) + k]
  /\ \A i \in 1..(Len(g) - 1) : g[i + 1] = g[i] + 1
  /\ g # <<>> => 2 * g[Len(g)] = x
  /\ h = g \o e

Completed(g, x, m, e, h) ==
  /\ e \in Seq(1..MaxEvents) /\ Len(e) = m
  /\ h \in Seq(1..MaxEvents) /\ Len(h) = Len(g) + m
  /\ \A i \in 1..(Len(h) - 1) : h[i + 1] = h[i] + 1
  /\ h # <<>> => 2 * h[Len(h)] = x + 2 * m

\* What the relay is handed grows by the events that are completed.
LEMMA GotGrows ==
  ASSUME NEW g, NEW x, NEW m, NEW new, NEW h, Completes(g, x, m, new, h)
  PROVE  Completed(g, x, m, new, h)
<1>0. m \in Nat /\ x \in Nat /\ g \in Seq(1..MaxEvents)
  BY DEF Completes
<1>a. x % 2 = 0 /\ x + 2 * m <= 2 * MaxEvents
  BY DEF Completes
<1>b. new = [k \in 1..m |-> (x \div 2) + k] /\ h = g \o new
  BY DEF Completes
<1>c. \A i \in 1..(Len(g) - 1) : g[i + 1] = g[i] + 1
  BY DEF Completes
<1>d. g # <<>> => 2 * g[Len(g)] = x
  BY DEF Completes
<1> DEFINE l == Len(g)
           y == x \div 2
<1>1. y \in Nat /\ x = 2 * y /\ y + m <= MaxEvents /\ MaxEvents \in Nat /\ l \in Nat
  BY <1>0, <1>a, EventsAssumption
<1> HIDE DEF y
<1>2. \A k \in 1..m : y + k \in 1..MaxEvents
  BY <1>0, <1>1
<1>3. new = [k \in 1..m |-> y + k]
  BY <1>b DEF y
<1>4. new \in Seq(1..MaxEvents) /\ Len(new) = m
  <2>1. new \in [1..m -> 1..MaxEvents]
    BY <1>0, <1>2, <1>3
  <2> QED BY <1>0, <2>1, Listed
<1>5. /\ h \in Seq(1..MaxEvents) /\ Len(h) = l + m
      /\ \A i \in 1..(l + m) : h[i] = IF i <= l THEN g[i] ELSE new[i - l]
  BY <1>0, <1>b, <1>4, ConcatProperties
<1>6. \A i \in 1..l : h[i] = g[i]
  <2>1. \A i \in 1..l : i \in 1..(l + m) /\ i <= l
    BY <1>0, <1>1
  <2> QED BY <1>0, <1>5, <2>1
<1>7. \A i \in (l + 1)..(l + m) : h[i] = y + (i - l)
  <2> TAKE i \in (l + 1)..(l + m)
  <2>1. i \in 1..(l + m) /\ ~(i <= l) /\ i - l \in 1..m
    BY <1>0, <1>1
  <2> QED BY <1>0, <1>3, <1>5, <2>1
<1>8. l # 0 => g[l] = y
  <2>1. l # 0 => g # <<>> /\ g[l] \in 1..MaxEvents
    BY <1>0, <1>1, ElementOfSeq
  <2> QED BY <1>1, <1>d, <2>1
<1>9. \A i \in 1..(Len(h) - 1) : h[i + 1] = h[i] + 1
  <2> TAKE i \in 1..(Len(h) - 1)
  <2>0. i \in Nat /\ i >= 1 /\ i + 1 <= l + m
    BY <1>0, <1>1, <1>5
  <2>1. CASE i < l
    <3>1. i \in 1..(l - 1) /\ i \in 1..l /\ i + 1 \in 1..l
      BY <1>0, <1>1, <2>0, <2>1
    <3> QED BY <1>c, <1>6, <3>1
  <2>2. CASE i = l
    <3>1. i \in 1..l /\ i + 1 \in (l + 1)..(l + m) /\ (i + 1) - l = 1
      BY <1>0, <1>1, <2>0, <2>2
    <3>2. h[i] = y /\ h[i + 1] = y + 1
      BY <1>1, <1>6, <1>7, <1>8, <2>0, <2>2, <3>1
    <3> QED BY <3>2
  <2>3. CASE i > l
    <3> HIDE DEF l
    <3>1. i \in (l + 1)..(l + m)
      BY <1>0, <1>1, <2>0, <2>3
    <3>2. i + 1 \in (l + 1)..(l + m)
      BY <1>0, <1>1, <2>0, <2>3
    <3>3. y + ((i + 1) - l) = (y + (i - l)) + 1
      BY <1>0, <1>1, <2>0
    <3> QED BY <1>0, <1>7, <3>1, <3>2, <3>3
  <2> QED BY <1>0, <1>1, <2>0, <2>1, <2>2, <2>3
<1>10. h # <<>> => 2 * h[Len(h)] = x + 2 * m
  <2>1. CASE m # 0
    <3>1. l + m \in (l + 1)..(l + m) /\ y + ((l + m) - l) = y + m
      BY <1>0, <1>1, <2>1
    <3>2. h[l + m] = y + m
      BY <1>0, <1>7, <3>1
    <3> QED BY <1>0, <1>1, <1>5, <3>2
  <2>2. CASE m = 0
    <3>1. l + m = l /\ x + 2 * m = 2 * y
      BY <1>0, <1>1, <2>2
    <3>2. h # <<>> => l # 0
      BY <1>0, <1>1, <1>5, <2>2
    <3>3. l # 0 => h[l] = y
      <4>1. l # 0 => l \in 1..l
        BY <1>0, <1>1
      <4> QED BY <1>0, <1>6, <1>8, <4>1
    <3> QED BY <1>0, <1>5, <3>1, <3>2, <3>3
  <2> QED BY <2>1, <2>2
<1> QED BY <1>4, <1>5, <1>9, <1>10 DEF Completed

\* What the relay keeps of a run after taking out the whole lines.
LEMMA UnfinishedIs ==
  ASSUME NEW x \in Nat, x % 2 = 0, NEW l \in Nat, x + l <= 2 * MaxEvents,
         NEW b, b = [i \in 1..l |-> HalfOf(x + i)]
  PROVE  LET u == Unfinished(b)
         IN  /\ u \in Seq(HalfTypes) /\ Len(u) = l % 2
             /\ Run(u, x + 2 * (l \div 2))
<1>1. Len(b) = l
  OBVIOUS
<1>2. CASE l % 2 = 0
  <2>1. Unfinished(b) = <<>>
    <3>1. CASE l = 0
      BY <1>1, <3>1 DEF Unfinished
    <3>2. CASE l # 0
      <4>1. b[l] = HalfOf(x + l) /\ (x + l) % 2 = 0
        BY <1>2, <3>2
      <4>2. HalfOf(x + l).end = ((x + l) % 2 = 0)
        BY DEF HalfOf
      <4>3. b[Len(b)].end
        BY <1>1, <4>1, <4>2
      <4> QED BY <4>3 DEF Unfinished
    <3> QED BY <3>1, <3>2
  <2>2. <<>> \in Seq(HalfTypes) /\ Len(<<>>) = 0 /\ Run(<<>>, x + 2 * (l \div 2))
    BY EmptySeq DEF Run
  <2> QED BY <1>2, <2>1, <2>2
<1>3. CASE l % 2 # 0
  <2>1. /\ l \in 1..l /\ l % 2 = 1 /\ (x + l) % 2 # 0
        /\ (x + 2 * (l \div 2)) + 1 = x + l /\ x + l # 0 /\ x + l \in Nat
    BY <1>3
  <2>2. b[l] = HalfOf(x + l) /\ b # <<>>
    BY <1>1, <2>1
  <2>3. ~b[Len(b)].end
    <3>1. HalfOf(x + l).end = ((x + l) % 2 = 0)
      BY DEF HalfOf
    <3> QED BY <1>1, <2>1, <2>2, <3>1
  <2>4. Unfinished(b) = <<HalfOf(x + l)>>
    BY <1>1, <2>2, <2>3 DEF Unfinished
  <2>5. HalfOf(x + l) \in HalfTypes
    BY <2>1, HalfTyped
  <2>6. <<HalfOf(x + l)>> \in Seq(HalfTypes) /\ Len(<<HalfOf(x + l)>>) = 1
    BY <2>5
  <2>7. <<HalfOf(x + l)>> = [i \in 1..1 |-> HalfOf((x + 2 * (l \div 2)) + i)]
    <3>1. <<HalfOf(x + l)>> = [i \in 1..1 |-> HalfOf(x + l)]
      OBVIOUS
    <3>2. \A i \in 1..1 : (x + 2 * (l \div 2)) + i = x + l
      BY <2>1
    <3> QED BY <3>1, <3>2
  <2>8. Run(<<HalfOf(x + l)>>, x + 2 * (l \div 2))
    BY <2>6, <2>7 DEF Run
  <2> QED BY <2>1, <2>4, <2>6, <2>8
<1> QED BY <1>2, <1>3

LEMMA RelayTurnKeeps ==
  ASSUME StreamInv, RelayTurn PROVE StreamInv' /\ told' >= told
<1> USE DEF streamVars
<1>0. EventTypeOK /\ Connected /\ Ordered
  BY DEF StreamInv
<1>1. PICK x \in Nat : InStep(x)
  BY DEF StreamInv
<1>2. PICK n \in 0..Len(wire) :
         LET all == buf \o SubSeq(wire, 1, n)
         IN  /\ buf' = Unfinished(all)
             /\ got' = got \o Parsed(all)
             /\ Post(Pushed(rq, Parsed(all)))
             /\ wire' = SubSeq(wire, n + 1, Len(wire))
  BY DEF RelayTurn
<1> DEFINE all == buf \o SubSeq(wire, 1, n)
           l   == Len(buf) + n
           m   == l \div 2
           new == Parsed(all)
           y   == x \div 2
           p   == Pushed(rq, new)
<1>3. conn /\ UNCHANGED <<made, slot, others, q, off, eof, conn>>
  BY DEF RelayTurn
<1>4. /\ made \in Nat /\ Len(buf) \in Nat /\ Len(wire) \in Nat /\ n \in Nat
      /\ n <= Len(wire) /\ x % 2 = 0 /\ x <= 2 * made /\ Run(buf, x)
      /\ Run(wire, x + Len(buf)) /\ x + Len(buf) + Len(wire) <= 2 * made
      /\ got # <<>> => 2 * got[Len(got)] = x
      /\ told \in Nat /\ 2 * told <= x
      /\ \A i \in DOMAIN rq : rq[i] \in 1..MaxEvents /\ 2 * rq[i] <= x
  BY <1>0, <1>1, StepIs
<1>5. buf \in Seq(HalfTypes) /\ wire \in Seq(HalfTypes) /\ made <= MaxEvents
  BY <1>0, EventsAssumption DEF EventTypeOK, HalfTypes
<1>6. /\ l \in Nat /\ m \in Nat /\ l = 2 * m + (l % 2) /\ l % 2 \in 0..1
      /\ y \in Nat /\ x = 2 * y /\ x + l <= 2 * made
      /\ x + l <= 2 * MaxEvents /\ x + 2 * m <= 2 * made
      /\ x + 2 * m <= 2 * MaxEvents /\ (x + 2 * m) % 2 = 0
  <2>1. l \in Nat /\ x + l <= 2 * made
    BY <1>4
  <2> HIDE DEF l
  <2> QED BY <1>4, <1>5, <2>1, EventsAssumption
<1> DEFINE z == x + 2 * m
<1>7. all = [i \in 1..l |-> HalfOf(x + i)]
  <2> DEFINE t == SubSeq(wire, 1, n)
             h == x + Len(buf)
  <2>1. t \in Seq(HalfTypes) /\ Len(t) = n /\ Run(t, h)
    <3>1. h \in Nat /\ 0 + 1 = 1 /\ 0 \in Nat /\ 0 <= n /\ n - 0 = n /\ h + 0 = h
      BY <1>4
    <3> HIDE DEF h, t
    <3>2. Run(wire, h)
      BY <1>4 DEF h
    <3>3. /\ SubSeq(wire, 0 + 1, n) \in Seq(HalfTypes)
          /\ Len(SubSeq(wire, 0 + 1, n)) = n - 0
          /\ Run(SubSeq(wire, 0 + 1, n), h + 0)
      BY <1>4, <1>5, <3>1, <3>2, RunPart
    <3> QED BY <3>1, <3>3 DEF t
  <2> HIDE DEF t
  <2>2. buf \o t = [i \in 1..(Len(buf) + Len(t)) |-> HalfOf(x + i)]
    BY <1>4, <1>5, <2>1, RunJoins
  <2> QED BY <2>1, <2>2 DEF t
<1> HIDE DEF all
<1>8. new = [k \in 1..m |-> y + k]
  BY <1>4, <1>6, <1>7, ParsedIs
<1>9. buf' \in Seq(HalfTypes) /\ Len(buf') = l % 2 /\ Run(buf', z)
  <2>1. buf' = Unfinished(all)
    BY <1>2 DEF all
  <2> HIDE DEF l
  <2> QED BY <1>4, <1>6, <1>7, <2>1, UnfinishedIs
<1>10. /\ wire' \in Seq(HalfTypes) /\ Len(wire') = Len(wire) - n
       /\ Run(wire', x + l)
  <2> DEFINE h == x + Len(buf)
  <2>1. h \in Nat /\ h + n = x + l /\ Len(wire) <= Len(wire)
    BY <1>4
  <2>2. Run(wire, h)
    BY <1>4
  <2> HIDE DEF h, l
  <2>3. wire' = SubSeq(wire, n + 1, Len(wire))
    BY <1>2
  <2>4. /\ SubSeq(wire, n + 1, Len(wire)) \in Seq(HalfTypes)
        /\ Len(SubSeq(wire, n + 1, Len(wire))) = Len(wire) - n
        /\ Run(SubSeq(wire, n + 1, Len(wire)), h + n)
    BY <1>4, <1>5, <2>1, <2>2, RunPart
  <2> QED BY <2>1, <2>3, <2>4
<1>11. /\ new \in Seq(1..MaxEvents) /\ Len(new) = m
       /\ got' \in Seq(1..MaxEvents) /\ Len(got') = Len(got) + m
       /\ \A i \in 1..(Len(got') - 1) : got'[i + 1] = got'[i] + 1
       /\ got' # <<>> => 2 * got'[Len(got')] = z
  <2>1. got \in Seq(1..MaxEvents) /\ \A i \in 1..(Len(got) - 1) : got[i + 1] = got[i] + 1
    BY <1>0 DEF EventTypeOK, Ordered
  <2>2. got' = got \o new
    BY <1>2 DEF all
  <2>3. new = [k \in 1..m |-> (x \div 2) + k]
    BY <1>8
  <2>4. x + 2 * m <= 2 * MaxEvents /\ m \in Nat
    BY <1>6
  <2>5. got # <<>> => 2 * got[Len(got)] = x
    BY <1>4
  <2> HIDE DEF new, m
  <2>6. PICK g \in Seq(1..MaxEvents) : g = got
    BY <2>1
  <2>7. PICK h : h = got'
    OBVIOUS
  <2>8. PICK e : e = new
    OBVIOUS
  <2>9. PICK c \in Nat : c = m
    BY <2>4
  <2>10. Completes(g, x, c, e, h)
    <3>1. x % 2 = 0 /\ x \in Nat
      BY <1>1, <1>4
    <3>2. c \in Nat /\ g \in Seq(1..MaxEvents) /\ x + 2 * c <= 2 * MaxEvents
      BY <2>4, <2>6, <2>9
    <3>3. e = [k \in 1..c |-> (x \div 2) + k]
      BY <2>3, <2>8, <2>9, Zenon
    <3>4. \A i \in 1..(Len(g) - 1) : g[i + 1] = g[i] + 1
      BY <2>1, <2>6, Zenon
    <3>5. (g # <<>> => 2 * g[Len(g)] = x) /\ h = g \o e
      BY <2>2, <2>5, <2>6, <2>7, <2>8, Zenon
    <3> QED BY <3>1, <3>2, <3>3, <3>4, <3>5, Zenon DEF Completes
  <2>11. Completed(g, x, c, e, h)
    BY <2>10, GotGrows, Zenon
  <2> QED BY <2>6, <2>7, <2>8, <2>9, <2>11 DEF Completed
<1> HIDE DEF new, m, l, y
<1>12. /\ p \in Seq(1..MaxEvents) /\ Len(p) <= RelayCapacity /\ Rising(p)
       /\ \A i \in DOMAIN p : /\ told <= p[i] /\ 2 * p[i] <= z
                              /\ p[i] \in 1..MaxEvents
  <2>1. /\ rq \in Seq(1..MaxEvents) /\ Len(rq) <= RelayCapacity /\ Rising(rq)
        /\ \A i \in DOMAIN rq : told <= rq[i]
    BY <1>0 DEF EventTypeOK, Ordered
  <2>2. DOMAIN new = 1..m /\ \A k \in 1..m : new[k] = y + k
    BY <1>8
  <2>3. Rising(new)
    BY <1>6, <2>2 DEF Rising
  <2>4. \A i \in DOMAIN rq, j \in DOMAIN new : rq[i] < new[j]
    <3> TAKE i \in DOMAIN rq, j \in DOMAIN new
    <3>1. rq[i] \in Nat /\ 2 * rq[i] <= x
      BY <1>4
    <3>2. j \in 1..m /\ new[j] = y + j
      BY <2>2
    <3> QED BY <1>6, <3>1, <3>2
  <2>5. /\ p \in Seq(1..MaxEvents) /\ Len(p) <= RelayCapacity /\ Rising(p)
        /\ \A i \in DOMAIN p : \/ \E j \in DOMAIN rq : p[i] = rq[j]
                               \/ \E j \in DOMAIN new : p[i] = new[j]
    BY <1>11, <2>1, <2>3, <2>4, PushedIs
  <2> HIDE DEF p
  <2>6. \A j \in DOMAIN rq : told <= rq[j] /\ 2 * rq[j] <= z
    BY <1>4, <1>6, <2>1
  <2>7. \A j \in DOMAIN new : told <= new[j] /\ 2 * new[j] <= z
    BY <1>4, <1>6, <2>2
  <2>8. \A i \in DOMAIN p : p[i] \in 1..MaxEvents
    BY <2>5, LenProperties, ElementOfSeq
  <2> QED BY <2>5, <2>6, <2>7, <2>8
<1>13. Post(p) /\ told \in 0..MaxEvents
  BY <1>0, <1>2 DEF all, new, EventTypeOK
<1> HIDE DEF p
<1>14. /\ rq' \in Seq(1..MaxEvents) /\ Len(rq') <= RelayCapacity
       /\ Rising(rq')
       /\ told' \in 0..MaxEvents /\ told' >= told
       /\ \A i \in DOMAIN rq' : told' <= rq'[i]
       /\ \A i \in DOMAIN rq' : \E j \in DOMAIN p : rq'[i] = p[j]
       /\ told' = told \/ \E j \in DOMAIN p : told' = p[j]
  BY <1>12, <1>13, PostIs
<1>15. 2 * told' <= z /\ \A i \in DOMAIN rq' : 2 * rq'[i] <= z
  <2>1. 2 * told <= z
    BY <1>4, <1>6
  <2> QED BY <1>12, <1>14, <2>1
<1>16. EventTypeOK'
  <2>1. Len(wire') <= WireRoom
    <3>1. Len(wire) <= WireRoom /\ WireRoom \in Nat
      BY <1>0, EventsAssumption DEF EventTypeOK
    <3>2. Len(wire) - n <= WireRoom
      BY <1>4, <3>1
    <3> QED BY <1>10, <3>2
  <2> QED BY <1>0, <1>3, <1>9, <1>10, <1>11, <1>14, <2>1 DEF EventTypeOK, HalfTypes
<1>17. Connected'
  <2>1. Len(buf') <= 1
    <3>1. l % 2 <= 1
      BY <1>6
    <3> QED BY <1>9, <3>1
  <2>2. ASSUME slot = "waiting" PROVE buf' = <<>> /\ wire' = <<>> /\ got' = <<>>
    <3>1. buf = <<>> /\ wire = <<>> /\ got = <<>>
      BY <1>0, <2>2 DEF Connected
    <3>2. Len(buf) = 0 /\ Len(wire) = 0 /\ Len(got) = 0
      BY <3>1
    <3>3. n = 0 /\ l = 0
      BY <1>4, <3>2 DEF l
    <3>4. m = 0 /\ l % 2 = 0
      BY <1>6, <3>3
    <3>5. Len(buf') = 0 /\ Len(wire') = 0 /\ Len(got') = 0
      BY <1>9, <1>10, <1>11, <3>2, <3>3, <3>4
    <3> QED BY <1>9, <1>10, <1>11, <3>5, EmptySeq
  <2> QED BY <1>0, <1>3, <2>1, <2>2 DEF Connected
<1>18. Ordered'
  BY <1>0, <1>3, <1>11, <1>14 DEF Ordered
<1>19. PICK w \in Nat : w = z
  BY <1>6
<1>20. InStep(w)'
  <2>1. w % 2 = 0 /\ w <= 2 * made
    BY <1>6, <1>19
  <2>2. PICK a \in 0..1 : a = Len(buf')
    BY <1>6, <1>9
  <2>3. a = l % 2
    BY <1>9, <2>2
  <2>4. w + a = x + l
    <3>1. l = 2 * m + a /\ w = x + 2 * m
      BY <1>6, <1>19, <2>3
    <3> QED BY <1>1, <1>6, <3>1
  <2>5. PICK c \in Nat : c = Len(wire')
    <3>1. Len(wire') \in Nat
      BY <1>10, LenProperties
    <3> QED BY <3>1, Zenon
  <2>6. c = Len(wire) - n
    BY <1>10, <2>5
  <2>7. w + a + c = x + Len(buf) + Len(wire)
    <3>1. x + l = x + Len(buf) + n
      BY <1>4 DEF l
    <3> QED BY <1>4, <2>4, <2>6, <3>1
  <2>8. Run(buf', w) /\ Run(wire', w + a)
    BY <1>9, <1>10, <1>19, <2>4
  <2>9. w + Len(buf') + Len(wire') = x + Len(buf) + Len(wire)
    BY <2>2, <2>5, <2>7
  <2>10. /\ Run(wire', w + Len(buf'))
         /\ w + Len(buf') + Len(wire') <= 2 * made
         /\ slot = "client" =>
               w + Len(buf') + Len(wire') + 2 * Len(q) - off = 2 * made
    <3>1. slot = "client" =>
             x + Len(buf) + Len(wire) + 2 * Len(q) - off = 2 * made
      BY <1>0, <1>1, StepIs
    <3> QED BY <1>4, <2>2, <2>8, <2>9, <3>1
  <2>11. /\ got' # <<>> => 2 * got'[Len(got')] = w
         /\ 2 * told' <= w /\ \A i \in DOMAIN rq' : 2 * rq'[i] <= w
    BY <1>11, <1>15, <1>19
  <2> QED BY <1>3, <2>1, <2>8, <2>10, <2>11 DEF InStep
<1> QED BY <1>14, <1>16, <1>17, <1>18, <1>20 DEF StreamInv

-----------------------------------------------------------------------------
\* The relay's stream holds what its places promise, whoever closes it and
\* whatever is read, sent or answered in between.
THEOREM StreamInvariant == EventSpec => []StreamInv
<1>1. EventInit => StreamInv
  BY EventInitKeeps
<1>2. StreamInv /\ [EventNext]_eventVars => StreamInv'
  <2> SUFFICES ASSUME StreamInv, [EventNext]_eventVars PROVE StreamInv'
    OBVIOUS
  <2>1. CASE EventNext
    BY <2>1, PublishKeeps, AcceptKeeps, FlushKeeps, OtherClientKeeps,
       DaemonRestartKeeps, ConnectKeeps, DisconnectKeeps, RelayTurnKeeps,
       RelayRestartKeeps DEF EventNext
  <2>2. CASE UNCHANGED eventVars
    <3>1. UNCHANGED <<made, slot, others, q, off, wire, eof, conn, buf, rq, told, got>>
      BY <2>2 DEF eventVars, streamVars, relayVars
    <3>2. EventTypeOK' /\ Connected' /\ Ordered'
      BY <3>1 DEF StreamInv, EventTypeOK, Connected, Ordered, Rising
    <3>3. PICK x \in Nat : InStep(x)
      BY DEF StreamInv
    <3>4. InStep(x)'
      BY <3>1, <3>3 DEF InStep, Run
    <3> QED BY <3>2, <3>4 DEF StreamInv
  <2> QED BY <2>1, <2>2
<1> QED BY <1>1, <1>2, PTL DEF EventSpec

\* Queues, socket and buffers stay within their room.
THEOREM EventTypes == EventSpec => []EventTypeOK
<1>1. StreamInv => EventTypeOK
  BY DEF StreamInv
<1> QED BY <1>1, StreamInvariant, PTL

\* What one connection hands the relay is a run of consecutive events, and the
\* service never gets an older event after a younger one, for queues and
\* sockets of any size and whatever is retried, dropped or restarted
\* (event_stream.c:191, event_relay.c:81, event_relay_main.c:162).
THEOREM StreamStaysUnbroken == EventSpec => StreamUnbroken
<1>1. StreamInv => \A i \in 1..(Len(got) - 1) : got[i + 1] = got[i] + 1
  BY DEF StreamInv, Ordered
<1>2. StreamInv /\ [EventNext]_eventVars => [told' >= told]_eventVars
  <2> SUFFICES ASSUME StreamInv, EventNext PROVE told' >= told
    OBVIOUS
  <2>1. told \in Nat
    BY EventsAssumption DEF StreamInv, EventTypeOK
  <2>2. CASE RelayTurn
    BY <2>2, RelayTurnKeeps
  <2>3. CASE ~RelayTurn
    <3>1. told' = told
      BY <2>3 DEF EventNext, Publish, Accept, Flush, OtherClient, DaemonRestart,
                  Connect, Disconnect, RelayRestart, relayVars
    <3> QED BY <2>1, <3>1
  <2> QED BY <2>2, <2>3
<1> QED BY <1>1, <1>2, StreamInvariant, PTL DEF EventSpec, StreamUnbroken
=============================================================================
