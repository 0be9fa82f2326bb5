------------------------------- MODULE Unlock -------------------------------
(***************************************************************************)
(* Opening a door: runtime_unlock.c and the automatic unlock of              *)
(* runtime_ubus.c, between the media sessions, the call and the access        *)
(* request.  A station only obeys while it is being watched or has called, so *)
(* an unlock first needs a media session of its station: the one that is      *)
(* there, or a preparation of its own that must be gone afterwards unless     *)
(* somebody adopted it.  A call can be answered by an unlock that nobody      *)
(* asked for, after a delay, which also hangs up.                            *)
(*                                                                         *)
(* Handlers are operators on a record x of the daemon's state: `op` the       *)
(* operation and the record of the preview it began, `auto` the automatic     *)
(* unlock, `access` and `session` the request and its session, `media` the    *)
(* sessions as their status shows them.                                     *)
(* `late` stands for the deadline of the step that the operation is in.       *)
(***************************************************************************)
EXTENDS Access, FiniteSets

CONSTANTS
  Capacity,         \* media sessions that fit
  MaxMedia,         \* stands for UINT64_MAX in the media module
  MaxCalls,         \* calls the daemon can be in
  Lightweight,      \* the media module offers the preparation without encoder
  Automatic         \* auto_unlock of the configuration

ASSUME UnlockAssumption ==
  /\ IsFiniteSet(Stations)
  /\ Capacity \in Nat \ {0}
  /\ MaxMedia \in Nat \ {0}
  /\ MaxCalls \in Nat \ {0}
  /\ Lightweight \in BOOLEAN
  /\ Automatic \in BOOLEAN

Sessions == 0 .. MaxMedia
Calls == 0 .. MaxCalls
Anywhere == Stations \cup {NoStation}

Ends == Answers \cup {"timeout", "cancelled", "send_failed"}
Stages == {"idle", "preparing", "waiting"} \cup Ends

\* `mine` is the preview that manual_unlock_owns_preview speaks of, `cleanup` is
\* cleanup_pending.  The pending and inflight flags of a manual unlock are ManualBusy.
Previews == [station : Anywhere, gen : Sessions]
NoPreview == [station |-> NoStation, gen |-> 0]

Operations ==
  [stage : Stages, station : Anywhere, gen : Sessions, access : AccessGenerations,
   requests : 0 .. MaxRequests, automatic : BOOLEAN, light : BOOLEAN,
   cleanup : BOOLEAN, mine : Previews]

\* The auto_unlock_* fields.  A peer is its station.
Autos ==
  [pending : BOOLEAN, inflight : BOOLEAN, due : BOOLEAN, station : Anywhere,
   call : Calls, access : AccessGenerations]

\* A session is "asking" its station, "acked" by it, "live" with pictures of the
\* current attempt.  `prep` is preparation_only.
Entries ==
  [gen : Sessions, purpose : {"preview", "call"}, viewer : BOOLEAN, prep : BOOLEAN,
   state : {"asking", "acked", "live", "failed", "stopping"}]

NoEntry == [gen |-> 0, purpose |-> "preview", viewer |-> FALSE, prep |-> FALSE,
            state |-> "asking"]

NewEntry(gen, purpose, prep) ==
  [NoEntry EXCEPT !.gen = gen, !.purpose = purpose, !.prep = prep]

\* What a handler meets: a status that can be read, a stop that works, material for
\* the station in the credentials, read each time, and a request that can be sent.
\* A stop only comes up for an own preview, a request while none is out.
Met(x) ==
  [seen : BOOLEAN, stops : {TRUE, (x.op.mine = NoPreview)},
   known : {TRUE, Waiting(x.access)}, sends : {TRUE, Waiting(x.access)}]

Used(media) == {p \in Stations : media[p].gen # 0}

Active(x) == x.op.stage \in {"preparing", "waiting"}
ManualBusy(x) == Active(x) /\ ~x.op.automatic
Owns(x) == x.op.mine # NoPreview

\* The session the operation began or found, and whether it is still there.
There(x) == x.op.gen # 0 /\ x.media[x.op.station].gen = x.op.gen
Entry(x) == x.media[x.op.station]

(***************************************************************************)
(* Beginning and ending an operation                                        *)
(***************************************************************************)
Beginnable(x, e) ==
  /\ e.known
  /\ x.op.requests < MaxRequests
  /\ ~Active(x)
  /\ ~x.op.cleanup

\* The record is made anew; what is known of the preview is kept.
Begun(x, p, automatic, gen) ==
  [x EXCEPT !.op = [stage |-> "preparing", station |-> p, gen |-> gen, access |-> 0,
                    requests |-> x.op.requests + 1, automatic |-> automatic,
                    light |-> FALSE, cleanup |-> FALSE, mine |-> x.op.mine],
            !.late = FALSE]

Finished(x, stage) ==
  IF ~Active(x) THEN x
  ELSE [x EXCEPT !.op.stage = stage,
                 !.auto.inflight = @ /\ ~(/\ x.op.automatic
                                          /\ stage = "cancelled"
                                          /\ x.auto.access = x.op.access)]

\* The session belongs to somebody else by now.
Adopted(m) == m.viewer \/ m.purpose = "call"

\* DF_MEDIA_MODULE_COMMAND_STOP, for a preparation through its own entry: first the
\* station is told, a session that is stopping already goes.
StoppedEntry(m, stops) ==
  IF m.state \notin {"stopping", "failed"} THEN [m EXCEPT !.state = "stopping", !.viewer = FALSE]
  ELSE IF stops THEN NoEntry ELSE m

Stoppable(x) == There(x) /\ (x.op.light => Entry(x).prep)

NoLongerMine(x) == [x EXCEPT !.op.mine = NoPreview, !.op.cleanup = FALSE]

\* Broken on purpose: a stop that failed is not tried again.
CleanupOnce(x, e) ==
  IF ~Owns(x) \/ x.op.automatic THEN [x EXCEPT !.op.cleanup = FALSE]
  ELSE IF e.seen /\ (~There(x) \/ Adopted(Entry(x))) THEN NoLongerMine(x)
  ELSE IF ~Stoppable(x) THEN NoLongerMine(x)
  ELSE NoLongerMine([x EXCEPT !.media[x.op.station] = StoppedEntry(@, e.stops)])

\* The preview that the operation began is stopped, unless it has another owner;
\* every tick tries again.
Cleanup(x, e) ==
  IF ~Owns(x) \/ x.op.automatic THEN [x EXCEPT !.op.cleanup = FALSE]
  ELSE IF e.seen /\ (~There(x) \/ Adopted(Entry(x))) THEN NoLongerMine(x)
  ELSE IF ~Stoppable(x) THEN [x EXCEPT !.op.cleanup = TRUE]
  ELSE LET y == [x EXCEPT !.media[x.op.station] = StoppedEntry(@, e.stops)]
       IN IF e.stops THEN NoLongerMine(y) ELSE [y EXCEPT !.op.cleanup = TRUE]

Ended(x, stage, e) == Cleanup(Finished(x, stage), e)

(***************************************************************************)
(* The request                                                             *)
(***************************************************************************)
Outcome(ok, x) == [ok |-> ok, x |-> x]

\* A new generation of the access session for each request.
NextAccess(x) == [gen |-> x.session.gen + 1, peer |-> x.op.station]

Asked(x, s, sends) ==
  [x EXCEPT !.session = s, !.op.access = s.gen, !.access = Submitted(@, s, sends)]

RequestOut(x) == [x EXCEPT !.op.stage = "waiting", !.late = FALSE]

\* df_runtime_unlock_send.
Send(x, e) ==
  LET s == NextAccess(x)
      y == Asked(x, s, e.sends)
  IN IF \/ Waiting(x.access)
        \/ x.session.gen = MaxRequests
        \/ x.op.stage # "preparing"
     THEN Outcome(FALSE, x)
     ELSE IF ~e.known \/ ~Submittable(x.access, s)
     THEN Outcome(FALSE, Finished(x, "send_failed"))
     ELSE IF e.sends THEN Outcome(TRUE, RequestOut(y))
     ELSE Outcome(FALSE, Finished(y, "send_failed"))

\* What the request came to, in the words of the operation.
Reported(x) ==
  CASE x.access.state \in Answers       -> x.access.state
    [] x.access.state = "expired"       -> "timeout"
    [] x.access.state \in {"cancelled", "send_failed"} -> x.access.state
    [] OTHER                            -> IF x.late THEN "timeout" ELSE "waiting"

\* df_runtime_unlock_observe_result: an answer only counts while the session that
\* the request was made with is still there.
Observed(x, seen) ==
  IF x.op.stage # "waiting" THEN x
  ELSE IF ~seen THEN IF x.late THEN Finished(x, "cancelled") ELSE x
  ELSE IF ~There(x) \/ x.access.gen # x.op.access \/ x.access.to # x.op.station
  THEN Finished(x, "cancelled")
  ELSE IF Reported(x) = "waiting" THEN x
  ELSE Finished(x, Reported(x))

(***************************************************************************)
(* The manual unlock                                                       *)
(***************************************************************************)
\* The own preparation may use the acknowledgement or the picture of its current
\* attempt; a session of somebody else must really be publishing.
Ready(x) ==
  LET m == Entry(x)
  IN IF x.op.light /\ (m.prep \/ Owns(x))
     THEN m.prep /\ (m.state = "live" \/ (Owns(x) /\ m.state = "acked"))
     ELSE m.state = "live"

Sent(x, e) ==
  LET d == Send(x, e) IN IF d.ok THEN d.x ELSE Cleanup(d.x, e)

\* The part of df_runtime_ubus_tick_manual_unlock for an operation that prepares.
Prepared(x, e) ==
  IF x.late THEN Ended(x, "timeout", e)
  ELSE IF ~e.seen THEN x
  ELSE IF ~There(x) \/ Entry(x).state = "failed" THEN Ended(x, "cancelled", e)
  ELSE LET y == [x EXCEPT !.op.mine = IF Adopted(Entry(x)) THEN NoPreview ELSE @]
       IN IF Ready(y) THEN Sent(y, e) ELSE y

TickManual(x, e) ==
  LET y == Observed(x, e.seen)
  IN IF y.op.automatic THEN y
     ELSE IF ~Active(y) THEN Cleanup(y, e)
     ELSE IF y.op.stage = "waiting" THEN y
     ELSE IF y.auto.pending THEN Ended(y, "cancelled", e)
     ELSE Prepared(y, e)

\* Broken on purpose: the request of an ended operation may still be out.
UnlockableEarly(x, call, p, e) ==
  /\ e.seen
  /\ ~x.auto.pending /\ ~x.auto.inflight
  /\ Beginnable(x, e)
  /\ IF x.media[p].gen # 0 THEN x.media[p].state \notin {"failed", "stopping"}
     ELSE call.state \notin {"ringing", "talking"}

\* df_runtime_media_module_unlock_prepare_start and _request_start.
Room(x) == Cardinality(Used(x.media)) < Capacity /\ x.last < MaxMedia

Unlockable(x, call, p, e) ==
  /\ e.seen
  /\ ~x.auto.pending /\ ~x.auto.inflight
  /\ ~Waiting(x.access)
  /\ Beginnable(x, e)
  /\ IF x.media[p].gen # 0 THEN x.media[p].state \notin {"failed", "stopping"}
     ELSE call.state \notin {"ringing", "talking"}

\* The operation takes the session as its own, and its first tick comes at once.
Taken(x, gen, mine, e) ==
  TickManual([x EXCEPT !.op = [@ EXCEPT !.gen = gen, !.mine = mine]], e)

\* df_runtime_ubus_unlock_station.
UnlockStation(x, p, starts, e) ==
  LET y == Begun(x, p, FALSE, 0)
      n == x.last + 1
      z == [y EXCEPT !.media[p] = NewEntry(n, "preview", Lightweight), !.last = n,
                     !.op.light = Lightweight]
  IN IF x.media[p].gen # 0 THEN Taken(y, x.media[p].gen, NoPreview, e)
     ELSE IF starts /\ Room(x) THEN Taken(z, n, [station |-> p, gen |-> n], e)
     ELSE Finished([y EXCEPT !.op.light = Lightweight], "cancelled")

(***************************************************************************)
(* The automatic unlock                                                    *)
(***************************************************************************)
Due(x) == x.auto.pending \/ x.auto.inflight

\* Broken on purpose: whatever call there is.
AnyCall(x, call) == call.gen # 0

\* The call is still the one the unlock was made for.
SameCall(x, call) ==
  /\ call.gen = x.auto.call
  /\ call.peer = x.auto.station
  /\ call.state \in {"ringing", "talking"}

\* df_runtime_ubus_schedule_auto_unlock, for a call that rings.
Scheduled(x, p, gen) ==
  IF Due(x) /\ x.auto.call = gen /\ x.auto.station = p THEN x
  ELSE [x EXCEPT !.auto = [@ EXCEPT !.pending = TRUE, !.inflight = FALSE, !.due = FALSE,
                                    !.station = p, !.call = gen]]

\* The request for the call: a failure is not repeated.
SentForCall(x, e) ==
  LET p == x.auto.station
      y == [x EXCEPT !.auto.pending = FALSE]
      d == Send(Begun(y, p, TRUE, x.media[p].gen), e)
  IN IF ~Beginnable(y, e) THEN y
     ELSE IF ~d.ok THEN d.x
     ELSE [d.x EXCEPT !.auto.inflight = TRUE, !.auto.access = d.x.access.gen]

CallIsWatched(x) ==
  LET m == x.media[x.auto.station] IN m.gen # 0 /\ m.purpose = "call" /\ m.state = "live"

\* df_runtime_ubus_tick_auto_unlock, which runs while there is something to do.
TickAuto(x, call, e) ==
  LET y == Observed(x, e.seen)
      z == [y EXCEPT !.auto.pending = FALSE, !.auto.inflight = FALSE]
  IN IF ~Due(x) \/ ~e.seen THEN x
     ELSE IF ~Due(y) THEN y
     ELSE IF ~SameCall(y, call)
     THEN IF y.op.automatic THEN Ended(z, "cancelled", e) ELSE z
     ELSE IF y.auto.inflight
     THEN [y EXCEPT !.auto.inflight = /\ y.access.gen = y.auto.access
                                      /\ y.access.state \notin {"expired", "cancelled"}]
     ELSE IF y.auto.due /\ CallIsWatched(y) /\ ~ManualBusy(y) /\ ~Waiting(y.access)
     THEN SentForCall(y, e)
     ELSE y

\* df_runtime_ubus_handle_auto_unlock_result: whether the call is to be hung up.
HandleAuto(x, call, e) ==
  LET y == Observed(x, e.seen)
      z == [y EXCEPT !.auto.inflight = FALSE]
  IN IF ~x.auto.inflight THEN Outcome(FALSE, x)
     ELSE IF \/ y.op.automatic /\ y.op.stage \notin Answers
             \/ y.access.gen # y.auto.access
             \/ y.access.state \notin Answers
     THEN Outcome(FALSE, y)
     ELSE Outcome(SameCall(z, call), z)

(***************************************************************************)
(* The machine                                                             *)
(***************************************************************************)
VARIABLES op, auto, access, session, media, last, late, call

vars == <<op, auto, access, session, media, last, late, call>>

World == [op |-> op, auto |-> auto, access |-> access, session |-> session,
          media |-> media, last |-> last, late |-> late]

\* The deadline is gone with what it was set for.
Become(x) ==
  \E y \in {x} :
    /\ op' = y.op
    /\ auto' = y.auto
    /\ access' = y.access
    /\ session' = y.session
    /\ media' = y.media
    /\ last' = y.last
    /\ late' = (y.late /\ (Active(y) \/ Waiting(y.access)))

NoCall == [state |-> "idle", gen |-> 0, peer |-> NoStation, hangup |-> FALSE]

\* `hangup` is the command that the automatic unlock left for the call.
CallRecords == [state : {"idle", "ringing", "talking"}, gen : Calls, peer : Anywhere,
                hangup : BOOLEAN]

Init ==
  /\ op = [stage |-> "idle", station |-> NoStation, gen |-> 0, access |-> 0,
           requests |-> 0, automatic |-> FALSE, light |-> FALSE, cleanup |-> FALSE,
           mine |-> NoPreview]
  /\ auto = [pending |-> FALSE, inflight |-> FALSE, due |-> FALSE, station |-> NoStation,
             call |-> 0, access |-> 0]
  /\ access = NoAccess
  /\ session = NoAccessSession
  /\ media = [p \in Stations |-> NoEntry]
  /\ last = 0
  /\ late = FALSE
  /\ call = NoCall

\* One turn of the main loop: the automatic unlock, the request, the manual unlock.
Turned(x, e) ==
  LET y == TickAuto(x, call, e)
  IN TickManual([y EXCEPT !.access = AccessTicked(@, y.session, y.late)], e)

Tick(e) == Become(Turned(World, e)) /\ UNCHANGED call

\* A client asks for the door of a station.
Unlock(p, starts, e) ==
  /\ Unlockable(World, call, p, e)
  /\ Become(UnlockStation(World, p, starts, e))
  /\ UNCHANGED call

\* A station answers, asked or not; the hangup may find the queue of commands full.
Reply(p, answer, queued, e) ==
  /\ Answerable(access, session, p, late)
  /\ LET d == HandleAuto([World EXCEPT !.access = Answered(@, answer)], call, e)
     IN /\ Become(d.x)
        /\ call' = [call EXCEPT !.hangup = @ \/ (d.ok /\ queued)]

\* The material of a station is set or cleared: an operation that prepares with the
\* old one is cancelled first.
ChangeMaterial(p, e) ==
  /\ op.stage = "preparing"
  /\ op.station = p
  /\ Become(Ended(World, "cancelled", e))
  /\ UNCHANGED call

(***************************************************************************)
(* The other users of the media sessions                                    *)
(***************************************************************************)
Media(p, m) ==
  /\ media' = [media EXCEPT ![p] = m]
  /\ UNCHANGED <<op, auto, access, session, last, late, call>>

\* What belongs to an unlock belongs to somebody else now.
Disowned(x, p) == [x EXCEPT !.op.mine = IF @ = [station |-> p, gen |-> x.media[p].gen]
                                         THEN NoPreview ELSE @]

\* A preview is started, by a client or for an outbound call; one that is only
\* prepared becomes a whole one.
MonitorStart(p) ==
  /\ call.state \notin {"ringing", "talking"}
  /\ media[p].gen # 0 \/ Room(World)
  /\ LET joined == Disowned([World EXCEPT !.media[p].prep = FALSE], p)
         begun == [World EXCEPT !.media[p] = NewEntry(last + 1, "preview", FALSE),
                                !.last = @ + 1]
     IN Become(IF media[p].gen # 0 THEN joined ELSE begun)
  /\ UNCHANGED call

\* A viewer comes, which also revives a session that ended, or goes.
Watched(m, watching) ==
  [m EXCEPT !.viewer = watching, !.prep = @ /\ ~watching,
            !.state = IF watching /\ @ \in {"stopping", "failed"} THEN "asking" ELSE @]

Viewer(p, watching) ==
  /\ media[p].gen # 0
  /\ LET y == [World EXCEPT !.media[p] = Watched(@, watching)]
     IN Become(IF watching THEN Disowned(y, p) ELSE y)
  /\ UNCHANGED call

MonitorStop(p, stops) ==
  /\ media[p].gen # 0
  /\ media[p].purpose = "preview"
  /\ Media(p, StoppedEntry(media[p], stops))

\* The station answers, sends its pictures, is asked again, or fails.
Progress(p, state) ==
  /\ media[p].gen # 0
  /\ media[p].state # "stopping"
  /\ state = "acked" => media[p].purpose = "preview" /\ media[p].state = "asking"
  /\ Media(p, [media[p] EXCEPT !.state = state, !.viewer = @ /\ state # "failed"])

\* A session that is stopping goes, one whose station hung up does too.
Gone(p) ==
  /\ media[p].gen # 0
  /\ Media(p, NoEntry)

(***************************************************************************)
(* The call                                                                *)
(***************************************************************************)
\* An incoming call takes the session of its station or a free one, or ends the
\* preview in its way, unless another call has one.
CallRoom(p) ==
  /\ last < MaxMedia
  /\ \A q \in Stations \ {p} : media[q].gen # 0 => media[q].purpose # "call"

Displaced(p) == IF media[p].gen = 0 /\ Cardinality(Used(media)) >= Capacity
                THEN Used(media) ELSE {}

\* A call is accepted, alone or over another one; the media that it finds may fail.
Incoming(p, works) ==
  /\ call.gen < MaxCalls
  /\ call' = [state |-> "ringing", gen |-> call.gen + 1, peer |-> p, hangup |-> FALSE]
  /\ \E gone \in SUBSET Displaced(p) :
       /\ Displaced(p) # {} => Cardinality(gone) = 1
       /\ LET y == [World EXCEPT
                      !.media = [q \in Stations |->
                                   IF q = p THEN NewEntry(last + 1, "call", FALSE)
                                   ELSE IF q \in gone THEN NoEntry ELSE media[q]],
                      !.last = @ + 1]
          IN Become(IF ~works \/ ~CallRoom(p) THEN World
                    ELSE IF Automatic THEN Scheduled(y, p, call'.gen) ELSE y)

Answer ==
  /\ call.state = "ringing"
  /\ call' = [call EXCEPT !.state = "talking"]
  /\ UNCHANGED <<op, auto, access, session, media, last, late>>

\* The call ends, and the session that it had with it.
HangUp ==
  /\ call.state # "idle"
  /\ call' = [call EXCEPT !.state = "idle", !.hangup = FALSE]
  /\ media' = [p \in Stations |-> IF p = call.peer /\ media[p].purpose = "call"
                                  THEN NoEntry ELSE media[p]]
  /\ UNCHANGED <<op, auto, access, session, last, late>>

(***************************************************************************)
(* Time                                                                    *)
(***************************************************************************)
\* The deadline of the preparation or of the answer passes.
Pass ==
  /\ Active(World) \/ Waiting(access)
  /\ ~late
  /\ late' = TRUE
  /\ UNCHANGED <<op, auto, access, session, media, last, call>>

\* The delay of the automatic unlock passes.
Delay ==
  /\ auto.pending
  /\ ~auto.due
  /\ auto' = [auto EXCEPT !.due = TRUE]
  /\ UNCHANGED <<op, access, session, media, last, late, call>>

Next ==
  \/ \E e \in Met(World) : Tick(e)
  \/ \E p \in Stations, starts \in BOOLEAN, e \in Met(World) : Unlock(p, starts, e)
  \/ \E p \in Stations, a \in Answers, queued \in BOOLEAN, e \in Met(World) : Reply(p, a, queued, e)
  \/ \E p \in Stations, e \in Met(World) : ChangeMaterial(p, e)
  \/ \E p \in Stations : MonitorStart(p)
  \/ \E p \in Stations, watching \in BOOLEAN : Viewer(p, watching)
  \/ \E p \in Stations, stops \in BOOLEAN : MonitorStop(p, stops)
  \/ \E p \in Stations, s \in {"asking", "acked", "live", "failed"} : Progress(p, s)
  \/ \E p \in Stations : Gone(p)
  \/ \E p \in Stations, works \in BOOLEAN : Incoming(p, works)
  \/ Answer
  \/ HangUp
  \/ Pass
  \/ Delay

Spec == Init /\ [][Next]_vars

(***************************************************************************)
(* Properties                                                              *)
(***************************************************************************)
UnlockTypeOK ==
  /\ op \in Operations
  /\ auto \in Autos
  /\ access \in AccessControls
  /\ session \in AccessSessions
  /\ media \in [Stations -> Entries]
  /\ last \in Sessions
  /\ late \in BOOLEAN
  /\ call \in CallRecords

\* A preparation that somebody has to stop, and the operation whose clean-up does:
\* each turn of the loop looks at the preview of the manual unlock it has a record of.
Unstopped(p) == media[p].gen # 0 /\ media[p].prep /\ media[p].state # "stopping"

Owned(p) ==
  /\ op.mine = [station |-> p, gen |-> media[p].gen]
  /\ op.station = p /\ op.gen = media[p].gen /\ ~op.automatic

Orphaned(p) == Unstopped(p) /\ ~Owned(p)

\* README.md:282 says that the clean-up of an unlock's own preview is tried again
\* until it works and keeps a new operation from replacing it: so a preview that an
\* unlock began, and nobody else took, has the unlock to stop it.  With room for two
\* sessions it is not so: when the answer to a manual unlock has come and the call of
\* another station is due to be let in, the automatic unlock begins before the
\* clean-up of the manual one, and no unlock stops that preview any more.
PreparationOwned == \A p \in Stations : Unstopped(p) => Owned(p)

\* An automatic unlock has begun over the record of a manual one, whose request is
\* not out any more.
TakenOver ==
  /\ op.stage = "waiting" /\ ~Waiting(access)
  /\ op'.automatic /\ op'.requests # op.requests

\* However many sessions fit, that is the only way to lose a preparation: no other
\* unlock, failed stop, timeout, answer, change of material, viewer, call or late turn
\* of the loop leaves behind one that nobody will stop (runtime_unlock.c:140 and :160).
PreparationHandedOn ==
  [][\A p \in Stations :
       Orphaned(p)' => \/ Orphaned(p) /\ media'[p].gen = media[p].gen
                       \/ Owned(p) /\ TakenOver]_vars

\* The automatic unlock hangs up the call it opened the door for and no other,
\* however the calls changed between the request, its answer and the hangup.
HangsUpItsCall ==
  [][~call.hangup /\ call'.hangup
       => /\ auto.inflight
          /\ call.gen = auto.call /\ call.peer = op.station
          /\ call.state \in {"ringing", "talking"}
          /\ op.automatic /\ op'.stage \in Answers]_vars

\* The answer that comes next can only be for the operation that waits: an answer
\* carries no key, so nothing begins while the request of an ended operation is
\* out.  An automatic unlock never rests before its request: no tick ends it there.
RequestIsItsOwn ==
  /\ op.stage = "waiting" => access.gen = op.access /\ access.to = op.station
  /\ op.stage = "preparing" => ~op.automatic /\ ~Waiting(access)
  /\ auto.inflight => op.automatic /\ access.gen = auto.access
=============================================================================
