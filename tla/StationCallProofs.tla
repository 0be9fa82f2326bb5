------------------------- MODULE StationCallProofs -------------------------
(***************************************************************************)
(* Proofs about the calls the household places, for every set of stations, *)
(* every number of sessions that fit and every timeout.  The lemmas of the *)
(* first parts say what the media sessions and call control do to what an  *)
(* operation holds; the handlers of the coordinator are put together from  *)
(* them, and the actions from the handlers.                                *)
(***************************************************************************)
EXTENDS StationCall, CallControlProofs

Worlds == [session : Sessions, deadline : Deadlines, dispatch : Dispatches,
           ack : Acks, handshake : Handshakes, slot : Dispatches,
           control : Controls, op : Operations,
           media : [Registered -> MediaSessions], last : MediaGenerations]

\* A session that was handed over to a placed call and that nobody released.
Handed(m) == m.handoff /\ m.pending = "none"

\* What was handed over is a call.
Proper(m) == m.handoff => m.active /\ m.purpose = "call"

\* The session is the one that operation o promoted, bound to its call, and
\* was told that the call was sent only if the operation knows.
Mine(o, p, m) ==
  /\ OpActive(o)
  /\ o.promoted
  /\ o.station = p
  /\ o.media = m.generation
  /\ o.call = m.call
  /\ m.sent => o.sent

\* The four parts of the inductive invariant.  The operation's call is its
\* station's and no later than the session's.
Numbered(y) ==
  /\ y.op.stage # "none" => y.op.station \in Registered
  /\ y.op.stage \in {"none", "preparing"} => y.op.call = 0
  /\ y.op.call <= y.session.generation
  /\ y.op.call # 0 /\ y.op.call = y.session.generation
       => y.session.peer = y.op.station

\* A placed call that is not answered yet has its operation.
Placed(y) ==
  y.session.state = "preview" =>
    /\ y.op.stage \in {"calling", "ending"}
    /\ OwnerMatches(y)

\* The record of an operation that is over is final and call control's.
Agreed(y) ==
  y.op.stage \in {"ended", "failed"} =>
    /\ y.op.left = 0
    /\ y.op.error <=> y.op.stage = "failed"
    /\ y.op.cleanup => y.op.error
    /\ y.op.call # 0 /\ y.op.call = y.session.generation =>
         /\ ~Active(y.session)
         /\ y.control.terminal.generation = y.op.call
         /\ y.control.terminal.reason = y.op.reason

\* Only the operation that is under way has a session handed over.
Fetched(o, ms) ==
  \A p \in Registered :
    Proper(ms[p]) /\ (Handed(ms[p]) => Mine(o, p, ms[p]))

Kept(y) ==
  /\ Numbered(y)
  /\ Placed(y)
  /\ Agreed(y)
  /\ y.op.stage \notin {"ended", "failed"} => ~y.op.cleanup
  /\ Fetched(y.op, y.media)

StationInv == StationTypeOK /\ Kept(World)

-----------------------------------------------------------------------------
(* The media sessions: their types, and that nothing but the operation hands *)
(* one over                                                                 *)

Medias == [Registered -> MediaSessions]

\* Session n is what became of m without a call being handed over.
Softer(m, n) ==
  /\ Proper(m) => Proper(n)
  /\ Handed(n) => /\ Handed(m)
                  /\ n.generation = m.generation
                  /\ n.call = m.call
                  /\ n.sent => m.sent

Tamer(ms, ns) == \A p \in Registered : Softer(ms[p], ns[p])

\* What an operator of CallMedia returns.
Mild(ms, r) == r.ok \in BOOLEAN /\ r.media \in Medias /\ Tamer(ms, r.media)

Replaced(ms, p, n) == [ms EXCEPT ![p] = n]

LEMMA MediaCounts ==
  /\ 0 \in MediaGenerations
  /\ 0 \in Generations
  /\ Registered \subseteq Stations
  /\ Registered \subseteq Peers
  /\ MediaGenerations \subseteq Nat
  /\ Generations \subseteq Nat
BY MediaAssumption, SessionAssumption DEF MediaGenerations, Generations, Peers

LEMMA NoMediaType ==
  NoMedia \in MediaSessions /\ ~NoMedia.handoff /\ ~NoMedia.active
BY MediaCounts DEF NoMedia, MediaSessions

LEMMA NewMediaType ==
  ASSUME NEW g \in MediaGenerations, NEW purpose \in {"preview", "call"},
         NEW c \in Generations
  PROVE  NewMedia(g, purpose, c) \in MediaSessions /\ ~NewMedia(g, purpose, c).handoff
BY MediaCounts DEF NewMedia, NoMedia, MediaSessions

LEMMA UnhandedSofter ==
  ASSUME NEW m, NEW n, ~n.handoff
  PROVE  Softer(m, n)
BY DEF Softer, Proper, Handed

LEMMA SofterSelf == ASSUME NEW m PROVE Softer(m, m)
BY DEF Softer

LEMMA TamerSelf == ASSUME NEW ms PROVE Tamer(ms, ms)
BY SofterSelf DEF Tamer

LEMMA TamerTwice ==
  ASSUME NEW ms, NEW ns, NEW os, Tamer(ms, ns), Tamer(ns, os)
  PROVE  Tamer(ms, os)
BY DEF Tamer, Softer

LEMMA ReplacedMild ==
  ASSUME NEW ms \in Medias, NEW p, NEW n \in MediaSessions,
         p \in Registered => Softer(ms[p], n)
  PROVE  Replaced(ms, p, n) \in Medias /\ Tamer(ms, Replaced(ms, p, n))
BY SofterSelf DEF Replaced, Medias, Tamer

LEMMA SameMild ==
  ASSUME NEW ms \in Medias, NEW ok \in BOOLEAN
  PROVE  Mild(ms, Done(ok, ms))
BY TamerSelf DEF Mild, Done

\* A session that is not to go yet remembers why it goes.
Leaving(m, reason) == [m EXCEPT !.pending = reason, !.state = "stopping",
                                !.viewer = FALSE]

LEMMA LeavingType ==
  ASSUME NEW m \in MediaSessions, NEW reason \in ReleaseReasons
  PROVE  /\ Leaving(m, reason) \in MediaSessions
         /\ Leaving(m, reason).pending = reason
         /\ Softer(m, Leaving(m, reason))
<1>1. reason # "none"
  BY DEF ReleaseReasons
<1> QED BY <1>1 DEF Leaving, MediaSessions, Softer, Proper, Handed

LEMMA ReleaseIs ==
  ASSUME NEW ms \in Medias, NEW p \in Registered, NEW reason, NEW stops
  PROVE  Release(ms, p, reason, stops) =
           Done(stops, Replaced(ms, p, IF stops THEN NoMedia ELSE Leaving(ms[p], reason)))
BY DEF Release, Replaced, Leaving, Medias

\* A release leaves nothing handed over.
LEMMA ReleaseMild ==
  ASSUME NEW ms \in Medias, NEW p \in Registered, NEW reason \in ReleaseReasons,
         NEW stops \in BOOLEAN
  PROVE  /\ Mild(ms, Release(ms, p, reason, stops))
         /\ ~Handed(Release(ms, p, reason, stops).media[p])
<1> DEFINE n == IF stops THEN NoMedia ELSE Leaving(ms[p], reason)
<1>1. ms[p] \in MediaSessions /\ reason # "none"
  BY DEF Medias, ReleaseReasons
<1>2. n \in MediaSessions /\ Softer(ms[p], n) /\ ~Handed(n)
  BY <1>1, NoMediaType, LeavingType, UnhandedSofter DEF Handed
<1>3. Release(ms, p, reason, stops) = Done(stops, Replaced(ms, p, n))
  BY ReleaseIs
<1> HIDE DEF n
<1>4. Replaced(ms, p, n) \in Medias /\ Tamer(ms, Replaced(ms, p, n))
  BY <1>2, ReplacedMild
<1>5. Replaced(ms, p, n)[p] = n
  BY DEF Replaced, Medias
<1> QED BY <1>2, <1>3, <1>4, <1>5 DEF Mild, Done

LEMMA ReleaseOutboundMild ==
  ASSUME NEW ms \in Medias, NEW p \in Registered, NEW g, NEW c,
         NEW reason \in ReleaseReasons, NEW stops \in BOOLEAN
  PROVE  /\ Mild(ms, ReleaseOutbound(ms, p, g, c, reason, stops))
         /\ ms[p].handoff /\ Releasable(ms, p, g, c, reason)
              => ~Handed(ReleaseOutbound(ms, p, g, c, reason, stops).media[p])
<1> DEFINE no == FALSE
<1>1. no \in BOOLEAN
  OBVIOUS
<1>2. Mild(ms, Release(ms, p, reason, stops)) /\ ~Handed(Release(ms, p, reason, stops).media[p])
  BY ReleaseMild
<1> HIDE DEF no
<1>3. Mild(ms, Done(no, ms))
  BY <1>1, SameMild
<1> QED BY <1>2, <1>3 DEF ReleaseOutbound, no

LEMMA ReleaseIncomingMild ==
  ASSUME NEW ms \in Medias, NEW p \in Registered, NEW c,
         NEW reason \in ReleaseReasons, NEW stops \in BOOLEAN
  PROVE  Mild(ms, ReleaseIncoming(ms, p, c, reason, stops))
<1> DEFINE no == FALSE
<1>1. no \in BOOLEAN
  OBVIOUS
<1>2. Mild(ms, Release(ms, p, reason, stops))
  BY ReleaseMild
<1> HIDE DEF no
<1>3. Mild(ms, Done(no, ms))
  BY <1>1, SameMild
<1> QED BY <1>2, <1>3 DEF ReleaseIncoming, no

\* The session of a call that was never announced is a preview again.
Demoted(m) == [m EXCEPT !.purpose = "preview", !.handoff = FALSE, !.call = 0]

LEMMA RollbackMild ==
  ASSUME NEW ms \in Medias, NEW p \in Registered, NEW g, NEW c
  PROVE  LET r == Rollback(ms, p, g, c)
         IN /\ Mild(ms, r)
            /\ r.ok => ~Handed(r.media[p])
            /\ /\ Keyed(ms, p, g)
               /\ Handed(ms[p])
               /\ ms[p].call = c
               /\ ~ms[p].sent
               => r.ok
<1> DEFINE no == FALSE
           n == Demoted(ms[p])
           may == Keyed(ms, p, g) /\ Handed(ms[p]) /\ ms[p].call = c /\ ~ms[p].sent
           r == Rollback(ms, p, g, c)
           Goal == Mild(ms, r) /\ (r.ok => ~Handed(r.media[p])) /\ (may => r.ok)
<1> SUFFICES Goal
  OBVIOUS
<1>1. no \in BOOLEAN
  OBVIOUS
<1>2. n \in MediaSessions /\ ~n.handoff
  BY MediaCounts DEF Medias, MediaSessions, Demoted
<1>3. r = IF may THEN Done(TRUE, Replaced(ms, p, n)) ELSE Done(no, ms)
  BY DEF Rollback, Replaced, Handed, Medias, Demoted
<1> HIDE DEF no, n, r
<1>4. Mild(ms, Done(no, ms))
  BY <1>1, SameMild
<1>5. Replaced(ms, p, n) \in Medias /\ Tamer(ms, Replaced(ms, p, n))
  BY <1>2, UnhandedSofter, ReplacedMild
<1>6. Replaced(ms, p, n)[p] = n
  BY DEF Replaced, Medias
<1> HIDE DEF may
<1>7. CASE may
  <2>1. r.ok /\ r.media = Replaced(ms, p, n)
    BY <1>3, <1>7 DEF Done
  <2> QED BY <2>1, <1>2, <1>5, <1>6 DEF Mild, Handed
<1>8. CASE ~may
  BY <1>3, <1>4, <1>8 DEF Done, no
<1> QED BY <1>7, <1>8

LEMMA StartPreviewMild ==
  ASSUME NEW ms \in Medias, NEW l \in MediaGenerations, NEW p \in Registered
  PROVE  /\ Mild(ms, StartPreview(ms, l, p))
         /\ LastGeneration(l, StartPreview(ms, l, p).media) \in MediaGenerations
         /\ StartPreview(ms, l, p).media[p].generation \in MediaGenerations
<1> DEFINE no == FALSE
           yes == TRUE
           n == NewMedia(l + 1, "preview", 0)
           fits == Cardinality(Used(ms)) < Capacity
<1>1. no \in BOOLEAN /\ yes \in BOOLEAN
  OBVIOUS
<1>2. l < MaxMedia => n \in MediaSessions /\ ~n.handoff /\ Softer(ms[p], n)
  <2> SUFFICES ASSUME l < MaxMedia PROVE n \in MediaSessions /\ ~n.handoff /\ Softer(ms[p], n)
    OBVIOUS
  <2>1. l + 1 \in MediaGenerations
    BY MediaAssumption DEF MediaGenerations
  <2> QED BY <2>1, NewMediaType, MediaCounts, UnhandedSofter
<1>3. StartPreview(ms, l, p) =
        IF ms[p].active THEN Done(yes, ms)
        ELSE IF fits /\ l < MaxMedia THEN Done(yes, Replaced(ms, p, n))
        ELSE Done(no, ms)
  BY DEF StartPreview, Replaced
<1> HIDE DEF no, yes, n, fits
<1>4. Mild(ms, Done(no, ms)) /\ Mild(ms, Done(yes, ms))
  BY <1>1, SameMild
<1>5. l < MaxMedia => Mild(ms, Done(yes, Replaced(ms, p, n)))
  BY <1>1, <1>2, ReplacedMild DEF Mild, Done
<1>6. Mild(ms, StartPreview(ms, l, p))
  BY <1>3, <1>4, <1>5
<1>7. \A r : Mild(ms, r) =>
        LastGeneration(l, r.media) \in MediaGenerations
        /\ r.media[p].generation \in MediaGenerations
  BY MediaAssumption DEF Mild, LastGeneration, Medias, MediaSessions, MediaGenerations
<1> QED BY <1>6, <1>7

LEMMA LastGenerationType ==
  ASSUME NEW ms \in Medias, NEW l \in MediaGenerations
  PROVE  LastGeneration(l, ms) \in MediaGenerations
BY MediaAssumption DEF LastGeneration, Medias, MediaSessions, MediaGenerations

Halted(m) == [m EXCEPT !.state = "stopping", !.viewer = FALSE, !.confirmed = FALSE]

LEMMA StopPreviewMild ==
  ASSUME NEW ms \in Medias, NEW p \in Registered, NEW g, NEW stops \in BOOLEAN
  PROVE  LET r == StopPreview(ms, p, g, stops)
         IN Mild(ms, r) /\ (~Handed(ms[p]) => ~Handed(r.media[p]))
<1> DEFINE no == FALSE
           n == Halted(ms[p])
           may == Keyed(ms, p, g) /\ ms[p].pending = "none"
           live == ms[p].state = "live"
           r == StopPreview(ms, p, g, stops)
           Goal == Mild(ms, r) /\ (~Handed(ms[p]) => ~Handed(r.media[p]))
<1> SUFFICES Goal
  OBVIOUS
<1>1. no \in BOOLEAN
  OBVIOUS
<1>2. n \in MediaSessions /\ Softer(ms[p], n) /\ (~Handed(ms[p]) => ~Handed(n))
  <2>1. ms[p] \in MediaSessions
    BY DEF Medias
  <2>2. n \in MediaSessions
    BY <2>1 DEF MediaSessions, Halted
  <2>3. /\ n.handoff = ms[p].handoff /\ n.pending = ms[p].pending
        /\ n.active = ms[p].active /\ n.purpose = ms[p].purpose
        /\ n.generation = ms[p].generation /\ n.call = ms[p].call
        /\ n.sent = ms[p].sent
    BY SMT, <2>1 DEF MediaSessions, Halted
  <2> HIDE DEF n
  <2> QED BY <2>2, <2>3 DEF Softer, Proper, Handed
<1>3. r = IF ~may THEN Done(no, ms)
          ELSE IF live THEN Done(stops, Replaced(ms, p, n))
          ELSE Done(stops, IF stops THEN Replaced(ms, p, NoMedia) ELSE ms)
  BY DEF StopPreview, Replaced, Medias, Halted
<1> HIDE DEF no, n, r, may, live
<1>4. Mild(ms, Done(no, ms)) /\ Mild(ms, Done(stops, ms))
  BY <1>1, SameMild
<1>5. Replaced(ms, p, n) \in Medias /\ Tamer(ms, Replaced(ms, p, n))
  BY <1>2, ReplacedMild
<1>6. Replaced(ms, p, NoMedia) \in Medias /\ Tamer(ms, Replaced(ms, p, NoMedia))
  BY NoMediaType, UnhandedSofter, ReplacedMild
<1>7. Replaced(ms, p, n)[p] = n /\ Replaced(ms, p, NoMedia)[p] = NoMedia
  BY DEF Replaced, Medias
<1>8. Mild(ms, r)
  BY <1>3, <1>4, <1>5, <1>6 DEF Mild, Done
<1>9. r.media \in {ms, Replaced(ms, p, n), Replaced(ms, p, NoMedia)}
  BY <1>3 DEF Done
<1>10. ~Handed(NoMedia)
  BY NoMediaType DEF Handed
<1> QED BY <1>2, <1>7, <1>8, <1>9, <1>10

LEMMA IncomingMediaMild ==
  ASSUME NEW ms \in Medias, NEW l \in MediaGenerations, NEW p \in Registered,
         NEW c \in Generations, NEW works \in BOOLEAN
  PROVE  Mild(ms, IncomingMedia(ms, l, p, c, works))
<1> DEFINE no == FALSE
           yes == TRUE
           n == NewMedia(l + 1, "call", c)
           q == OldestPreview(ms)
           i == IncomingMedia(ms, l, p, c, works)
           less == Replaced(ms, q, NoMedia)
<1>1. no \in BOOLEAN /\ yes \in BOOLEAN
  OBVIOUS
<1>2. l # MaxMedia => n \in MediaSessions /\ ~n.handoff
  <2> SUFFICES ASSUME l # MaxMedia PROVE n \in MediaSessions /\ ~n.handoff
    OBVIOUS
  <2>1. l + 1 \in MediaGenerations
    BY MediaAssumption DEF MediaGenerations
  <2> QED BY <2>1, NewMediaType
<1>3. \/ i = Done(yes, ms)
      \/ i = Done(no, ms)
      \/ l # MaxMedia /\ i = Done(yes, Replaced(ms, p, n))
      \/ l # MaxMedia /\ i = Done(yes, Replaced(less, p, n))
  BY DEF IncomingMedia, Replaced
<1> HIDE DEF no, yes, n, q, i
<1>4. Mild(ms, Done(no, ms)) /\ Mild(ms, Done(yes, ms))
  BY <1>1, SameMild
<1>5. \A m : Softer(m, NoMedia) /\ (l # MaxMedia => Softer(m, n))
  BY <1>2, NoMediaType, UnhandedSofter
<1>6. less \in Medias /\ Tamer(ms, less)
  BY <1>5, NoMediaType, ReplacedMild
<1> HIDE DEF less
<1>7. ASSUME l # MaxMedia
      PROVE  /\ Replaced(ms, p, n) \in Medias /\ Tamer(ms, Replaced(ms, p, n))
             /\ Replaced(less, p, n) \in Medias /\ Tamer(less, Replaced(less, p, n))
  BY <1>2, <1>5, <1>6, <1>7, ReplacedMild
<1>8. l # MaxMedia => Tamer(ms, Replaced(less, p, n))
  BY <1>6, <1>7, TamerTwice
<1> QED BY <1>1, <1>3, <1>4, <1>7, <1>8 DEF Mild, Done, i

LEMMA ViewedSofter ==
  ASSUME NEW m \in MediaSessions, NEW watching \in BOOLEAN, NEW n \in Viewed(m, watching)
  PROVE  n \in MediaSessions /\ Softer(m, n)
<1> PICK s \in {m.state, "live"} : n = [m EXCEPT !.viewer = watching, !.state = s]
  BY DEF Viewed
<1> QED BY DEF MediaSessions, Softer, Proper, Handed

LEMMA MediaChangesSofter ==
  ASSUME NEW m \in MediaSessions, NEW n \in MediaChanges(m)
  PROVE  n \in MediaSessions /\ Softer(m, n)
<1>1. CASE n = NoMedia
  BY <1>1, NoMediaType, UnhandedSofter
<1>2. CASE n # NoMedia
  <2> DEFINE ss == {m.state} \cup (MediaFaults \cap {"live", "failed", "stopping"})
  <2>1. n \in Turns(m)
    BY <1>2 DEF MediaChanges
  <2>2. ss \subseteq {"live", "failed", "stopping"}
    BY DEF MediaSessions
  <2>3. Confirmations(m) \subseteq BOOLEAN /\ Watchers(m) \subseteq BOOLEAN
    BY DEF MediaSessions, Confirmations, Watchers
  <2>4. PICK s \in ss, c \in Confirmations(m), v \in Watchers(m) : n = Turned(m, s, c, v)
    BY <2>1 DEF Turns
  <2>5. s \in {"live", "failed", "stopping"} /\ c \in BOOLEAN /\ v \in BOOLEAN
    BY <2>2, <2>3
  <2> QED BY <2>4, <2>5 DEF Turned, MediaSessions, Softer, Proper, Handed
<1> QED BY <1>1, <1>2

\* The operation keeps what it holds, whatever else becomes of the sessions.
LEMMA FetchedTamer ==
  ASSUME NEW o, NEW ms, NEW ns, Fetched(o, ms), Tamer(ms, ns)
  PROVE  Fetched(o, ns)
BY DEF Fetched, Tamer, Softer, Mine

-----------------------------------------------------------------------------
(* What call control does to the session of an operation *)

\* The call goes on or ends, or there was none, and there is none now.
Onward(s, t) ==
  /\ t.generation = s.generation
  /\ t.peer = s.peer
  /\ t.state = "preview" => s.state = "preview"
  /\ Active(t) => Active(s)

Fresh(s, t) == t.state = "ringing" /\ t.generation = s.generation + 1

Later(s, t) == Onward(s, t) \/ Fresh(s, t)

LEMMA OnwardTwice ==
  ASSUME NEW s, NEW t, NEW u, Onward(s, t), Onward(t, u)
  PROVE  Onward(s, u)
BY DEF Onward

LEMMA OnwardSelf == ASSUME NEW s PROVE Onward(s, s) /\ Later(s, s)
BY DEF Onward, Later

LEMMA EndedOnward ==
  ASSUME NEW s \in Sessions
  PROVE  /\ Onward(s, Ended(s)) /\ ~Active(Ended(s))
         /\ Onward(s, Abort(s)) /\ ~Active(Abort(s))
         /\ ~Active(s) => Abort(s) = s
BY DEF Sessions, Ended, Abort, Active, Onward

LEMMA ClassifyQuiet ==
  ASSUME NEW c \in Controls, NEW s, NEW t, ~Active(s), NEW flags, NEW disconnected,
         NEW expired
  PROVE  Classify(c, s, t, flags, disconnected, expired).terminal = c.terminal
<1>1. \A why : [c EXCEPT !.fault = why].terminal = c.terminal
  BY DEF Controls
<1> QED BY <1>1 DEF Classify

LEMMA DeadlineTickOnward ==
  ASSUME NEW d, NEW s \in Sessions
  PROVE  Onward(s, DeadlineTick(d, s).session)
BY EndedOnward, OnwardSelf DEF DeadlineTick

LEMMA HandshakeTickOnward ==
  ASSUME NEW h, NEW s \in Sessions
  PROVE  Onward(s, HandshakeTick(h, s).session)
BY EndedOnward, OnwardSelf DEF HandshakeTick

LEMMA RuntimeTickOnward ==
  ASSUME NEW a, NEW s \in Sessions, NEW d \in Deadlines
  PROVE  Onward(s, RuntimeTick(a, s, d).session)
<1> DEFINE t == DeadlineTick(d, s).session
<1>1. t \in Sessions /\ Onward(s, t)
  BY DeadlineTickType, DeadlineTickOnward
<1> HIDE DEF t
<1>2. Onward(s, Abort(t))
  BY <1>1, EndedOnward, OnwardTwice
<1> QED BY <1>1, <1>2 DEF RuntimeTick, t

LEMMA StepTimersOnward ==
  ASSUME NEW s \in Sessions, NEW d \in Deadlines, NEW a \in Acks,
         NEW h \in Handshakes, NEW c \in Controls
  PROVE  LET t == StepTimers(s, d, a, h, c)
         IN /\ Onward(s, t.session)
            /\ ~Active(s) => t.control.terminal = c.terminal
<1> DEFINE beat == HandshakeTick(h, s)
           d1 == IF beat.disconnected THEN Disarmed ELSE d
           run == RuntimeTick(a, beat.session, d1)
           k == Classify(c, s, run.session, run.flags, beat.disconnected, run.expired)
<1>1. beat.session \in Sessions /\ Onward(s, beat.session)
  BY HandshakeTickType, HandshakeTickOnward
<1>2. d1 \in Deadlines
  BY DisarmedType
<1> HIDE DEF beat, d1
<1>3. Onward(s, run.session)
  BY <1>1, <1>2, RuntimeTickOnward, OnwardTwice
<1> HIDE DEF run
<1>4. ~Active(s) => k.terminal = c.terminal
  BY ClassifyQuiet
<1> HIDE DEF k
<1>5. /\ StepTimers(s, d, a, h, c).session = run.session
      /\ StepTimers(s, d, a, h, c).control = k
  BY DEF StepTimers, TimersAfter, beat, run, k, d1
<1> QED BY <1>3, <1>4, <1>5

LEMMA ReceivePickOnward ==
  ASSUME NEW f, NEW s \in Sessions, NEW d
  PROVE  Onward(s, ReceivePick(f, s, d).session)
<1>1. LET r == ReceivePick(f, s, d)
      IN r.session.state = s.state /\ r.session.peer = s.peer
         /\ r.session.generation = s.generation
  BY ReceivePickKeeps
<1> DEFINE t == ReceivePick(f, s, d).session
<1>2. t.state = s.state /\ t.peer = s.peer /\ t.generation = s.generation
  BY <1>1
<1> HIDE DEF t
<1>3. Onward(s, t)
  BY <1>2 DEF Onward, Active
<1> QED BY <1>3 DEF t

LEMMA StepDispatchOnward ==
  ASSUME NEW t, t.session \in Sessions, t.control \in Controls,
         NEW slot \in Dispatches, NEW before, NEW sent \in BOOLEAN
  PROVE  LET m == StepDispatch(t, slot, before, sent)
         IN /\ Onward(t.session, m.session)
            /\ ~Active(t.session) => m.control.terminal = t.control.terminal
<1> DEFINE next == DispatchStep(slot, t.session, sent)
           left == IF DispatchActive(slot) /\ next.state \in {"failed", "timeout", "cancelled"}
                   THEN DispatchFault(t.control, next, t.session) ELSE t.control.fault
           told == [t.control EXCEPT !.fault = left]
           pick == ReceivePick([src |-> Local, dst |-> next.cmd.peer], t.session, t.deadline)
           echo == IF next.cmd.type \in {"answer", "call"} THEN pick
                   ELSE Received(t.session, t.deadline, NoFlags)
           hung == /\ DispatchActive(slot) /\ next.state \in {"failed", "timeout", "cancelled"}
                   /\ next.state # "cancelled"
                   /\ next.cmd.type = "hangup"
                   /\ next.cmd.generation = t.session.generation
           m == StepDispatch(t, slot, before, sent)
<1>1. hung => CommandCurrent(slot.cmd, t.session) /\ slot.cmd.type = "hangup"
  <2> SUFFICES ASSUME hung
               PROVE  CommandCurrent(slot.cmd, t.session) /\ slot.cmd.type = "hangup"
    OBVIOUS
  <2>1. next.state \in {"failed", "timeout"} => CommandCurrent(slot.cmd, t.session)
    BY DispatchStepLost
  <2>2. next.cmd = slot.cmd
    BY DispatchStepSent
  <2> QED BY <2>1, <2>2
<1>2. hung => Active(t.session)
  BY <1>1, CurrentHangup
<1>3. told.terminal = t.control.terminal
  BY DEF Controls
<1> HIDE DEF left
<1>4. Onward(t.session, pick.session)
  BY ReceivePickOnward
<1> HIDE DEF pick
<1>5. Onward(t.session, echo.session)
  BY <1>4, OnwardSelf DEF Received
<1> HIDE DEF echo, told
<1>6. Onward(t.session, Abort(t.session)) /\ Onward(t.session, t.session)
  BY EndedOnward, OnwardSelf
<1>7. /\ m.session = IF hung THEN Abort(t.session)
                     ELSE IF DispatchActive(slot) /\ next.state = "sent" THEN echo.session
                     ELSE t.session
      /\ m.control = IF hung THEN RecordTerminal(told, "local_hangup", left, before.generation)
                     ELSE told
  BY DEF StepDispatch, next, left, told, echo, pick
<1> HIDE DEF m, hung, next
<1>8. Onward(t.session, m.session)
  BY <1>5, <1>6, <1>7
<1>9. ~Active(t.session) => m.control.terminal = t.control.terminal
  BY <1>2, <1>3, <1>7
<1> QED BY <1>8, <1>9 DEF m

\* The step of call control ends the call or leaves it, and nothing is recorded
\* where there is no call.
LEMMA StepFromOnward ==
  ASSUME NEW x \in Structs,
         NEW sent1 \in BOOLEAN, NEW sent2 \in BOOLEAN, NEW sent3 \in BOOLEAN
  PROVE  LET r == StepFrom(x, sent1, sent2, sent3)
         IN /\ Onward(x.session, r.session)
            /\ ~Active(x.session) => r.control.terminal = x.control.terminal
<1> DEFINE t == StepTimers(x.session, x.deadline, x.ack, x.handshake, x.control)
           m == StepDispatch(t, x.dispatch, x.session, sent3)
           r == StepFrom(x, sent1, sent2, sent3)
<1> Typed(x)
  BY StructsTyped
<1>1. t.session \in Sessions /\ t.control \in Controls
  BY StepTimersType DEF Typed
<1>2. /\ Onward(x.session, t.session)
      /\ ~Active(x.session) => t.control.terminal = x.control.terminal
  BY StepTimersOnward DEF Typed
<1> HIDE DEF t
<1>3. /\ Onward(t.session, m.session)
      /\ ~Active(t.session) => m.control.terminal = t.control.terminal
  BY <1>1, StepDispatchOnward DEF Typed
<1> HIDE DEF m
<1>4. r.session = m.session /\ r.control = m.control
  BY DEF StepFrom, StepSlots, StepDone, t, m
<1>5. Onward(x.session, r.session)
  BY <1>2, <1>3, <1>4, OnwardTwice
<1>6. ~Active(x.session) => ~Active(t.session)
  BY <1>2 DEF Onward
<1>7. ~Active(x.session) => r.control.terminal = x.control.terminal
  BY <1>2, <1>3, <1>4, <1>6
<1> QED BY <1>5, <1>7

LEMMA ReceiveHangupOnward ==
  ASSUME NEW f, NEW s \in Sessions, NEW d
  PROVE  Onward(s, ReceiveHangup(f, s, d).session)
BY EndedOnward, OnwardSelf DEF ReceiveHangup, Received

LEMMA ReceiveTimeSyncOnward ==
  ASSUME NEW f, NEW s \in Sessions, NEW d
  PROVE  Onward(s, ReceiveTimeSync(f, s, d).session)
BY DeadlineTickOnward, OnwardSelf DEF ReceiveTimeSync, Received

LEMMA ReceivePickAckOnward ==
  ASSUME NEW f, NEW s \in Sessions, NEW d
  PROVE  Onward(s, ReceivePickAck(f, s, d).session)
<1> DEFINE talking == [s EXCEPT !.state = "talking", !.pickGen = 0, !.pickLeft = 0]
           closed == [s EXCEPT !.pickGen = 0]
<1>1. CanPick(s) => Onward(s, talking)
  BY DEF Sessions, CanPick, Onward, Active
<1>2. Onward(s, closed) /\ Onward(s, s)
  BY DEF Sessions, Onward, Active
<1> HIDE DEF talking, closed
<1> QED BY <1>1, <1>2 DEF ReceivePickAck, Received, talking, closed

\* A call that is accepted begins unless it is the one that rings.
LEMMA ReceiveCallLater ==
  ASSUME NEW f, NEW s \in Sessions, NEW d
  PROVE  Later(s, ReceiveCall(f, s, d).session)
<1> DEFINE next == Start(s, f.src, "ringing")
<1>1. Fresh(s, next)
  BY DEF Start, Fresh
<1> HIDE DEF next
<1> QED BY <1>1, OnwardSelf DEF ReceiveCall, Received, Refused, Later, next

LEMMA ReceiveDatagramLater ==
  ASSUME NEW f, NEW s \in Sessions, NEW d
  PROVE  Later(s, ReceiveDatagram(f, s, d).session)
<1>1. Later(s, Received(s, d, NoFlags).session)
  BY OnwardSelf DEF Received
<1> QED BY <1>1, ReceiveHangupOnward, ReceiveTimeSyncOnward, ReceivePickOnward,
        ReceivePickAckOnward, ReceiveCallLater DEF ReceiveDatagram, Later

LEMMA RuntimeReceiveLater ==
  ASSUME NEW a \in Acks, NEW f, NEW s \in Sessions, NEW d \in Deadlines
  PROVE  Later(s, RuntimeReceive(a, f, s, d).session)
<1> DEFINE told == AckTick(a, s)
           over == HangupOver(a, told)
           s1 == IF over THEN Abort(s) ELSE s
           d1 == IF over THEN Disarmed ELSE d
           r == ReceiveDatagram(f, s1, d1)
           q == RuntimeReceive(a, f, s, d)
<1>1. s1 \in Sessions /\ Onward(s, s1)
  BY EndedType, EndedOnward, OnwardSelf
<1> HIDE DEF s1, d1
<1>2. Later(s1, r.session)
  BY <1>1, ReceiveDatagramLater
<1>3. Later(s, r.session)
  BY <1>1, <1>2, OnwardTwice DEF Later, Fresh, Onward
<1>4. Later(s, s1) /\ Later(s, s)
  BY <1>1, OnwardSelf DEF Later
<1>5. Later(s, Abort(s1))
  BY <1>1, EndedOnward, OnwardTwice DEF Later
<1> HIDE DEF told, over, r
<1>6. q.session \in {s, s1, Abort(s1), r.session}
  BY DEF RuntimeReceive, told, over, s1, d1, r
<1> HIDE DEF q
<1>7. Later(s, q.session)
  BY <1>3, <1>4, <1>5, <1>6
<1> QED BY <1>7 DEF q

-----------------------------------------------------------------------------
(* Worlds: what call control leaves of them *)

LEMMA WorldParts ==
  ASSUME NEW y \in Worlds
  PROVE  /\ Typed(y)
         /\ y.op \in Operations
         /\ y.media \in Medias
         /\ y.last \in MediaGenerations
BY DEF Worlds, Typed, Medias

Part(y) == [session |-> y.session, deadline |-> y.deadline, dispatch |-> y.dispatch,
            ack |-> y.ack, handshake |-> y.handshake, slot |-> y.slot,
            control |-> y.control]

LEMMA PartStruct ==
  ASSUME NEW y \in Worlds
  PROVE  Part(y) \in Structs
BY DEF Worlds, Part, Structs

\* World z has the operation and the media of y, and what call control made of
\* its call.
Carries(y, z) ==
  /\ z.op = y.op
  /\ z.media = y.media
  /\ z.last = y.last
  /\ Later(y.session, z.session)
  /\ ~Active(y.session) /\ z.session.generation = y.session.generation
       => z.control.terminal = y.control.terminal

LEMMA OperationParts ==
  ASSUME NEW o \in Operations
  PROVE  /\ o.call \in Generations /\ o.call \in Nat
         /\ o.stage \in Stages
         /\ o.station \in Registered \cup {NoPeer}
BY MediaCounts DEF Operations

LEMMA SessionParts ==
  ASSUME NEW s \in Sessions
  PROVE  s.generation \in Generations /\ s.generation \in Nat
BY MediaCounts DEF Sessions

LEMMA CarriesKept ==
  ASSUME NEW y \in Worlds, NEW z \in Worlds, Kept(y), Carries(y, z)
  PROVE  Kept(z)
<1>1. /\ z.op = y.op /\ z.media = y.media
      /\ Later(y.session, z.session)
      /\ ~Active(y.session) /\ z.session.generation = y.session.generation
           => z.control.terminal = y.control.terminal
  BY DEF Carries
<1>2. y.op.call \in Nat /\ y.session.generation \in Nat
  BY WorldParts, OperationParts, SessionParts DEF Typed
<1>3. z.session.state = "preview" => Active(z.session)
  BY DEF Active
<1>4. CASE Onward(y.session, z.session)
  <2>1. Numbered(z)
    BY <1>1, <1>4 DEF Kept, Numbered, Onward
  <2>2. Placed(z)
    BY <1>1, <1>4 DEF Kept, Placed, OwnerMatches, Onward
  <2>3. Agreed(z)
    BY <1>1, <1>4 DEF Kept, Agreed, Onward
  <2> QED BY <1>1, <2>1, <2>2, <2>3 DEF Kept
<1>5. CASE Fresh(y.session, z.session)
  <2>1. y.op.call <= z.session.generation /\ y.op.call # z.session.generation
    BY <1>2, <1>5 DEF Kept, Numbered, Fresh
  <2>2. Numbered(z)
    BY <1>1, <1>2, <2>1 DEF Kept, Numbered
  <2>3. Placed(z)
    BY <1>5 DEF Placed, Fresh
  <2>4. Agreed(z)
    BY <1>1, <1>2, <2>1 DEF Kept, Agreed
  <2> QED BY <1>1, <2>2, <2>3, <2>4 DEF Kept
<1> QED BY <1>1, <1>4, <1>5 DEF Later

LEMMA WithControlIs ==
  ASSUME NEW y \in Worlds, NEW r, Typed(r)
  PROVE  LET z == WithControl(y, r)
         IN /\ z \in Worlds
            /\ z.op = y.op /\ z.media = y.media /\ z.last = y.last
            /\ z.session = r.session /\ z.control = r.control
BY DEF Worlds, WithControl, Typed

LEMMA StepFromWorld ==
  ASSUME NEW y \in Worlds, NEW sent1 \in BOOLEAN, NEW sent2 \in BOOLEAN, NEW sent3 \in BOOLEAN
  PROVE  LET r == StepFrom(y, sent1, sent2, sent3)
         IN /\ Typed(r)
            /\ r.wire \subseteq Commands
            /\ WithControl(y, r) \in Worlds
            /\ Carries(y, WithControl(y, r))
<1> DEFINE r == StepFrom(y, sent1, sent2, sent3)
           x == Part(y)
           Goal == /\ Typed(r)
                   /\ r.wire \subseteq Commands
                   /\ WithControl(y, r) \in Worlds
                   /\ Carries(y, WithControl(y, r))
<1> SUFFICES Goal
  OBVIOUS
<1>1. x \in Structs /\ x.session = y.session /\ x.control = y.control
  BY PartStruct DEF Part
<1>2. r = StepFrom(x, sent1, sent2, sent3)
  BY DEF StepFrom, StepSlots, Part
<1> HIDE DEF x
<1>3. Typed(StepFrom(x, sent1, sent2, sent3))
      /\ StepFrom(x, sent1, sent2, sent3).wire \subseteq Commands
  BY <1>1, StepFromType
<1>4. LET q == StepFrom(x, sent1, sent2, sent3)
      IN /\ Onward(x.session, q.session)
         /\ ~Active(x.session) => q.control.terminal = x.control.terminal
  BY <1>1, StepFromOnward
<1>5. /\ Typed(r) /\ r.wire \subseteq Commands
      /\ Onward(y.session, r.session)
      /\ ~Active(y.session) => r.control.terminal = y.control.terminal
  BY <1>1, <1>2, <1>3, <1>4
<1> HIDE DEF r
<1>6. /\ WithControl(y, r) \in Worlds
      /\ WithControl(y, r).op = y.op /\ WithControl(y, r).media = y.media
      /\ WithControl(y, r).last = y.last
      /\ WithControl(y, r).session = r.session /\ WithControl(y, r).control = r.control
  BY <1>5, WithControlIs
<1> QED BY <1>5, <1>6 DEF Carries, Later

LEMMA ReceiveFromWorld ==
  ASSUME NEW y \in Worlds, NEW f, Framed(f)
  PROVE  LET x == ReceiveFrom(y, f).to
         IN Typed(x) /\ Carries(y, x)
<1> Typed(y)
  BY WorldParts
<1>1. CASE f.kind \in {"ask", "reply"}
  <2> DEFINE r == HandshakeReceive(y.handshake, y.session, f)
             x == [y EXCEPT !.handshake = r.handshake,
                            !.slot = HandshakeEnqueue(@, r.reply)]
  <2>1. r.handshake \in Handshakes /\ r.reply \in Commands
    BY HandshakeReceiveType DEF Typed
  <2> HIDE DEF r
  <2>2. HandshakeEnqueue(y.slot, r.reply) \in Dispatches
    BY <2>1, HandshakeEnqueueType DEF Typed
  <2>3. /\ Typed(x) /\ x.op = y.op /\ x.media = y.media /\ x.last = y.last
        /\ x.session = y.session /\ x.control = y.control
    BY <2>1, <2>2 DEF Worlds, Typed
  <2>4. ReceiveFrom(y, f).to = x
    BY <1>1 DEF ReceiveFrom, ReceiveHeartbeat, r
  <2> HIDE DEF x
  <2> QED BY <2>3, <2>4, OnwardSelf DEF Carries
<1>2. CASE f.kind \notin {"ask", "reply"}
  <2> DEFINE r == RuntimeReceive(y.ack, f, y.session, y.deadline)
             no == FALSE
             c == Classify(y.control, y.session, r.session, r.flags, no, r.expired)
             h == IF Active(r.session) THEN y.handshake ELSE NoHandshake
             x == [y EXCEPT !.session = r.session, !.deadline = r.deadline,
                            !.ack = r.ack, !.handshake = h, !.control = c]
  <2>1. r.session \in Sessions /\ r.deadline \in Deadlines /\ r.ack \in Acks
    BY RuntimeReceiveType DEF Typed
  <2>2. Later(y.session, r.session)
    BY RuntimeReceiveLater DEF Typed
  <2> HIDE DEF no
  <2>3. c \in Controls
    BY ClassifyType DEF Typed
  <2>4. ~Active(y.session) => c.terminal = y.control.terminal
    BY ClassifyQuiet DEF Typed
  <2>5. ReceiveFrom(y, f).to = x
    BY <1>2 DEF ReceiveFrom, ReceiveControl, ControlReceived, Worlds, no
  <2> HIDE DEF r, c
  <2>6. h \in Handshakes
    BY EmptyTypes DEF Typed
  <2> HIDE DEF h
  <2>7. /\ Typed(x) /\ x.op = y.op /\ x.media = y.media /\ x.last = y.last
        /\ x.session = r.session /\ x.control = c
    BY <2>1, <2>3, <2>6 DEF Worlds, Typed
  <2> HIDE DEF x
  <2> QED BY <2>2, <2>4, <2>5, <2>7 DEF Carries
<1> QED BY <1>1, <1>2

LEMMA SupersededType ==
  ASSUME NEW d \in Dispatches, NEW a \in Acks, NEW g
  PROVE  /\ Superseded(d, g) \in Dispatches
         /\ Vacated(Superseded(d, g)) \in Dispatches
         /\ AckSuperseded(a, g) \in Acks
<1>1. d \in Attempted
  BY CountTypes DEF Dispatches, Attempted
<1>2. Superseded(d, g) \in Dispatches
  BY <1>1, FinishType DEF Superseded, DispatchStates
<1>3. AckSuperseded(a, g) \in Acks
  BY AckResolvedType DEF AckSuperseded, AckStates
<1> QED BY <1>2, <1>3, VacatedType

\* Cancelling leaves all but the commands, and hanging up all but call control.
LEMMA CancelIs ==
  ASSUME NEW y \in Worlds, NEW g
  PROVE  LET z == CancelCommands(y, g)
         IN /\ z \in Worlds
            /\ z.op = y.op /\ z.media = y.media /\ z.last = y.last
            /\ z.session = y.session /\ z.control = y.control
<1> Typed(y)
  BY WorldParts
<1> DEFINE d == Superseded(y.dispatch, g)
           a == AckSuperseded(y.ack, g)
           k == Vacated(Superseded(y.slot, g))
           h == IF OwnerMatches(y) THEN NoHandshake ELSE y.handshake
           x == [y EXCEPT !.dispatch = d, !.ack = a, !.slot = k, !.handshake = h]
<1>1. CancelCommands(y, g) = IF g = 0 THEN y ELSE x
  BY DEF CancelCommands, Worlds
<1>2. d \in Dispatches /\ a \in Acks /\ k \in Dispatches
  BY SupersededType DEF Typed
<1>3. h \in Handshakes
  BY EmptyTypes DEF Typed
<1> HIDE DEF d, a, k, h
<1>4. /\ x \in Worlds
      /\ x.op = y.op /\ x.media = y.media /\ x.last = y.last
      /\ x.session = y.session /\ x.control = y.control
  BY <1>2, <1>3 DEF Worlds
<1> HIDE DEF x
<1> QED BY <1>1, <1>4

LEMMA SameCarries ==
  ASSUME NEW y, NEW z, z.op = y.op, z.media = y.media, z.last = y.last,
         z.session = y.session, z.control = y.control
  PROVE  Carries(y, z)
BY OnwardSelf DEF Carries

LEMMA HangupFromWorld ==
  ASSUME NEW y \in Worlds, NEW g \in Generations, Active(y.session)
  PROVE  HangupFrom(y, g) \in Worlds /\ Carries(y, HangupFrom(y, g))
<1> Typed(y)
  BY WorldParts
<1> DEFINE d == Superseded(y.dispatch, g)
           a == AckSuperseded(y.ack, g)
           k == Vacated(Superseded(y.slot, g))
           x == [y EXCEPT !.dispatch = d, !.ack = a, !.slot = k]
           q == Queued(CommandFor("hangup", y.session))
           s == Abort(y.session)
           c == [fault |-> "dispatch_failed",
                 terminal |-> [reason |-> "local_hangup", fault |-> "dispatch_failed",
                               generation |-> g]]
           sent == [x EXCEPT !.dispatch = q]
           over == [x EXCEPT !.session = s, !.deadline = Disarmed,
                             !.handshake = NoHandshake, !.control = c]
<1>1. HangupFrom(y, g) \in {sent, over}
  BY DEF HangupFrom
<1>2. d \in Dispatches /\ a \in Acks /\ k \in Dispatches
  BY SupersededType DEF Typed
<1>3. q \in Dispatches
  BY CommandForType, QueuedType DEF Typed, CommandTypes
<1>4. s \in Sessions /\ Onward(y.session, s)
  BY EndedType, EndedOnward DEF Typed
<1>5. c \in Controls
  BY DEF Controls, Terminals, EndReasons, Faults
<1> HIDE DEF d, a, k, q, s, c
<1>6. /\ sent \in Worlds
      /\ sent.op = y.op /\ sent.media = y.media /\ sent.last = y.last
      /\ sent.session = y.session /\ sent.control = y.control
  BY <1>2, <1>3 DEF Worlds
<1>7. /\ over \in Worlds
      /\ over.op = y.op /\ over.media = y.media /\ over.last = y.last
      /\ over.session = s
  BY <1>2, <1>4, <1>5, EmptyTypes, DisarmedType DEF Worlds
<1> HIDE DEF x, sent, over
<1>8. Carries(y, sent) /\ Carries(y, over)
  BY <1>4, <1>6, <1>7, SameCarries DEF Carries, Later
<1> QED BY <1>1, <1>6, <1>7, <1>8

LEMMA ReleaseControlIs ==
  ASSUME NEW y \in Worlds, NEW reason \in EndReasons, NEW why \in Faults
  PROVE  LET z == ReleaseControl(y, reason, why)
         IN /\ z \in Worlds
            /\ z.op = y.op /\ z.media = y.media /\ z.last = y.last
            /\ z.session = IF OwnerMatches(y) THEN Abort(y.session) ELSE y.session
            /\ OwnerMatches(y) => /\ z.control.terminal.generation = y.op.call
                                  /\ z.control.terminal.reason = reason
            /\ ~OwnerMatches(y) => z.control = y.control
<1> DEFINE c == CancelCommands(y, y.op.call)
           s == Abort(c.session)
           k == [fault |-> why, terminal |-> [reason |-> reason, fault |-> why,
                                              generation |-> y.op.call]]
           x == [c EXCEPT !.session = s, !.deadline = Disarmed, !.control = k]
<1>1. /\ c \in Worlds
      /\ c.op = y.op /\ c.media = y.media /\ c.last = y.last
      /\ c.session = y.session /\ c.control = y.control
  BY CancelIs
<1>2. ReleaseControl(y, reason, why) = IF ~OwnerMatches(y) THEN c ELSE x
  BY DEF ReleaseControl
<1> HIDE DEF c
<1>3. s \in Sessions /\ s = Abort(y.session)
  BY <1>1, EndedType, WorldParts DEF Typed
<1>4. y.op.call \in Generations
  BY WorldParts, OperationParts
<1>5. k \in Controls /\ k.terminal.generation = y.op.call /\ k.terminal.reason = reason
  BY <1>4 DEF Controls, Terminals
<1> HIDE DEF s, k
<1>6. /\ x \in Worlds
      /\ x.op = y.op /\ x.media = y.media /\ x.last = y.last
      /\ x.session = s /\ x.control = k
  BY <1>1, <1>3, <1>5, DisarmedType DEF Worlds
<1> HIDE DEF x
<1> QED BY <1>1, <1>2, <1>3, <1>5, <1>6

-----------------------------------------------------------------------------
(* The end of an operation *)

Whole(y) == y \in Worlds /\ Kept(y)

LEMMA OutboundReasonType ==
  ASSUME NEW reason
  PROVE  OutboundReason(reason) \in ReleaseReasons
BY DEF OutboundReason, ReleaseReasons

LEMMA IncomingReasonType ==
  ASSUME NEW reason
  PROVE  IncomingReason(reason) \in ReleaseReasons
BY DEF IncomingReason, ReleaseReasons

\* What the operation held is released or a preview again.
LEMMA UndoneMild ==
  ASSUME NEW o \in Operations, o.station \in Registered, NEW ms \in Medias,
         Fetched(o, ms), Keyed(ms, o.station, o.media),
         NEW reason, NEW stops \in BOOLEAN
  PROVE  /\ Mild(ms, Undone(o, ms, reason, stops))
         /\ ~Handed(Undone(o, ms, reason, stops).media[o.station])
<1> DEFINE p == o.station
           m == ms[o.station]
           yes == TRUE
           why == OutboundReason(reason)
           out == ReleaseOutbound(ms, p, o.media, o.call, why, stops)
           back == Rollback(ms, p, o.media, o.call)
<1>1. why \in ReleaseReasons /\ yes \in BOOLEAN
  BY OutboundReasonType
<1>2. Handed(m) => /\ o.promoted
                   /\ o.call = m.call
                   /\ m.sent => o.sent
                   /\ m.handoff /\ m.pending = "none"
  BY DEF Fetched, Mine, Handed
<1>3. Undone(o, ms, reason, stops) = IF ~o.promoted THEN Done(yes, ms)
                                     ELSE IF o.sent THEN out ELSE back
  BY DEF Undone
<1> HIDE DEF yes, why
<1>4. Mild(ms, Done(yes, ms)) /\ Done(yes, ms).media = ms
  BY <1>1, SameMild DEF Done
<1>5. /\ Mild(ms, out)
      /\ m.handoff /\ Releasable(ms, p, o.media, o.call, why) => ~Handed(out.media[p])
  BY <1>1, ReleaseOutboundMild
<1>6. LET r == Rollback(ms, p, o.media, o.call)
      IN /\ Mild(ms, r)
         /\ r.ok => ~Handed(r.media[p])
         /\ /\ Keyed(ms, p, o.media)
            /\ Handed(ms[p])
            /\ ms[p].call = o.call
            /\ ~ms[p].sent
            => r.ok
  BY RollbackMild
<1>7. /\ Mild(ms, back)
      /\ back.ok => ~Handed(back.media[p])
      /\ Handed(m) /\ m.call = o.call /\ ~m.sent => back.ok
  BY <1>6
<1> HIDE DEF out, back
<1>8. \A r : Mild(ms, r) /\ Handed(r.media[p]) => Handed(m)
  BY DEF Mild, Tamer, Softer
<1>9. Handed(m) => Releasable(ms, p, o.media, o.call, why)
  BY <1>2 DEF Releasable
<1>10. CASE ~o.promoted
  BY <1>2, <1>3, <1>4, <1>10
<1>11. CASE o.promoted /\ o.sent
  BY <1>2, <1>3, <1>5, <1>8, <1>9, <1>11
<1>12. CASE o.promoted /\ ~o.sent
  BY <1>2, <1>3, <1>7, <1>8, <1>12
<1> QED BY <1>10, <1>11, <1>12

LEMMA MildTwice ==
  ASSUME NEW ms, NEW r, NEW q, Mild(ms, r), Mild(r.media, q)
  PROVE  Mild(ms, q)
BY TamerTwice DEF Mild

LEMMA PreviewGoneMild ==
  ASSUME NEW o \in Operations, o.station \in Registered, NEW ms \in Medias,
         NEW owns, NEW undo, Mild(ms, undo), ~Handed(undo.media[o.station]),
         NEW stops \in BOOLEAN
  PROVE  /\ Mild(ms, PreviewGone(o, owns, undo, stops))
         /\ ~Handed(PreviewGone(o, owns, undo, stops).media[o.station])
<1> DEFINE p == o.station
           q == StopPreview(undo.media, p, o.media, stops)
<1>1. undo.media \in Medias
  BY DEF Mild
<1>2. LET r == StopPreview(undo.media, p, o.media, stops)
      IN Mild(undo.media, r) /\ (~Handed(undo.media[p]) => ~Handed(r.media[p]))
  BY <1>1, StopPreviewMild
<1>3. Mild(ms, q) /\ ~Handed(q.media[p])
  BY <1>2, MildTwice
<1> HIDE DEF q
<1>4. PreviewGone(o, owns, undo, stops) = IF undo.ok /\ GoesToo(o, owns) THEN q ELSE undo
  BY DEF PreviewGone, q
<1> QED BY <1>3, <1>4

LEMMA OwnsType == ASSUME NEW y PROVE Owns(y) \in BOOLEAN
BY DEF Owns

LEMMA StillPromotedType == ASSUME NEW o, NEW ok PROVE StillPromoted(o, ok) \in BOOLEAN
BY DEF StillPromoted

\* Nothing is left handed over, whatever could not be stopped.
Cleaned(y, r) ==
  /\ r.ok \in BOOLEAN
  /\ r.to \in Worlds
  /\ Tamer(y.media, r.to.media)
  /\ \A p \in Registered : ~Handed(r.to.media[p])
  /\ r.to.session = y.session /\ r.to.control = y.control /\ r.to.last = y.last
  /\ \E owns \in BOOLEAN, promoted \in BOOLEAN :
       r.to.op = [y.op EXCEPT !.owns = owns, !.promoted = promoted]

LEMMA CleanupIs ==
  ASSUME NEW y \in Worlds, y.op.station \in Registered, Fetched(y.op, y.media),
         NEW reason, NEW stops \in BOOLEAN
  PROVE  Cleaned(y, Cleanup(y, reason, stops))
<1> DEFINE o == y.op
           ms == y.media
           keyed == Keyed(ms, o.station, o.media)
           undo == Undone(o, ms, reason, stops)
           gone == PreviewGone(o, Owns(y), undo, stops)
           owns == Owns(y)
           promoted == StillPromoted(o, undo.ok)
           n == [o EXCEPT !.owns = owns, !.promoted = promoted]
           x == [y EXCEPT !.media = gone.media, !.op = n]
           r == Cleanup(y, reason, stops)
           z == r.to
           Goal == /\ r.ok \in BOOLEAN
                   /\ z \in Worlds
                   /\ Tamer(y.media, z.media)
                   /\ \A p \in Registered : ~Handed(z.media[p])
                   /\ z.session = y.session /\ z.control = y.control /\ z.last = y.last
                   /\ \E own \in BOOLEAN, prom \in BOOLEAN :
                        z.op = [y.op EXCEPT !.owns = own, !.promoted = prom]
<1> SUFFICES Goal
  BY DEF Cleaned
<1>1. o \in Operations /\ ms \in Medias
  BY WorldParts
<1>2. \A p \in Registered : Handed(ms[p]) => p = o.station /\ keyed
  BY DEF Fetched, Mine, Proper, Handed, Keyed
<1>3. r = IF ~keyed THEN [ok |-> TRUE, to |-> y] ELSE [ok |-> gone.ok, to |-> x]
  BY DEF Cleanup, Worlds, Operations
<1>4. owns \in BOOLEAN /\ promoted \in BOOLEAN
  BY OwnsType, StillPromotedType
<1>5. keyed => Mild(ms, undo) /\ ~Handed(undo.media[o.station])
  BY <1>1, UndoneMild
<1> HIDE DEF undo
<1>6. keyed => Mild(ms, gone) /\ ~Handed(gone.media[o.station])
  BY <1>1, <1>5, PreviewGoneMild
<1> HIDE DEF gone, owns, promoted, keyed
<1>7. n \in Operations
  BY <1>1, <1>4 DEF Operations
<1>8. CASE keyed
  <2>1. r.ok = gone.ok /\ z = x
    BY <1>3, <1>8
  <2>2. gone.ok \in BOOLEAN /\ gone.media \in Medias /\ Tamer(ms, gone.media)
    BY <1>6, <1>8 DEF Mild
  <2>3. \A p \in Registered : ~Handed(gone.media[p])
    BY <1>2, <1>6, <1>8, <2>2 DEF Tamer, Softer
  <2>4. /\ x \in Worlds /\ x.media = gone.media /\ x.op = n
        /\ x.session = y.session /\ x.control = y.control /\ x.last = y.last
    BY <1>7, <2>2 DEF Worlds, Medias
  <2> HIDE DEF x, z, r
  <2> QED BY <1>4, <2>1, <2>2, <2>3, <2>4
<1>9. CASE ~keyed
  <2>1. r.ok = TRUE /\ z = y
    BY <1>3, <1>9
  <2>2. y.op = [y.op EXCEPT !.owns = y.op.owns, !.promoted = y.op.promoted]
        /\ y.op.owns \in BOOLEAN /\ y.op.promoted \in BOOLEAN
    BY <1>1 DEF Operations
  <2> HIDE DEF z, r
  <2> QED BY <1>2, <1>9, <2>1, <2>2, TamerSelf
<1> QED BY <1>8, <1>9

Verdicts == [error : BOOLEAN, reason : EndReasons, fault : Faults]

LEMMA VerdictType ==
  ASSUME NEW o \in Operations, NEW error \in BOOLEAN, NEW reason \in EndReasons,
         NEW why \in Faults
  PROVE  Verdict(o, error, reason, why) \in Verdicts
BY DEF Verdict, Verdicts, Operations

\* The operation after its end: its key, its call and its verdict.
Over(o, n, verdict) ==
  /\ n.stage \in {"ended", "failed"}
  /\ n.station = o.station /\ n.media = o.media /\ n.call = o.call
  /\ n.left = 0
  /\ n.error <=> n.stage = "failed"
  /\ n.cleanup => n.error
  /\ verdict.error => n.error
  /\ n.reason = verdict.reason /\ n.fault = verdict.fault

LEMMA JudgedOver ==
  ASSUME NEW o \in Operations, NEW bad \in BOOLEAN, NEW verdict \in Verdicts,
         NEW cleanup \in BOOLEAN, verdict.error => bad, cleanup => bad
  PROVE  LET n == Settled(Judged(o, bad, verdict, cleanup))
         IN n \in Operations /\ Over(o, n, verdict)
<1> DEFINE j == Judged(o, bad, verdict, cleanup)
           k == [j EXCEPT !.owns = FALSE, !.promoted = FALSE, !.sent = FALSE]
<1>1. j \in Operations /\ Over(o, j, verdict)
  BY DEF Judged, Operations, Stages, Verdicts, Over
<1> HIDE DEF j
<1>2. k \in Operations /\ Over(o, k, verdict)
  BY <1>1 DEF Operations, Over
<1> HIDE DEF k
<1>3. Settled(j) \in {j, k}
  BY DEF Settled, k
<1>4. Settled(j) \in Operations /\ Over(o, Settled(j), verdict)
  BY <1>1, <1>2, <1>3
<1> QED BY <1>4 DEF j

LEMMA ConcludeIs ==
  ASSUME NEW y \in Worlds, Kept(y), y.op.station \in Registered,
         NEW verdict \in Verdicts, NEW stops \in BOOLEAN
  PROVE  LET z == Conclude(y, verdict, stops)
         IN /\ z \in Worlds
            /\ Kept(z)
            /\ Over(y.op, z.op, verdict)
            /\ z.session.generation = y.session.generation
<1> DEFINE c == ReleaseControl(y, verdict.reason, verdict.fault)
           clean == Cleanup(c, verdict.reason, stops)
           t == clean.to
           nok == ~clean.ok
           bad == verdict.error \/ nok
           n == Settled(Judged(t.op, bad, verdict, nok))
           z == Conclude(y, verdict, stops)
           Goal == /\ z \in Worlds
                   /\ Kept(z)
                   /\ Over(y.op, z.op, verdict)
                   /\ z.session.generation = y.session.generation
<1> SUFFICES Goal
  OBVIOUS
<1> Typed(y) /\ y.op \in Operations
  BY WorldParts
<1>1. verdict.reason \in EndReasons /\ verdict.fault \in Faults
  BY DEF Verdicts
<1>2. LET x == ReleaseControl(y, verdict.reason, verdict.fault)
      IN /\ x \in Worlds
         /\ x.op = y.op /\ x.media = y.media /\ x.last = y.last
         /\ x.session = IF OwnerMatches(y) THEN Abort(y.session) ELSE y.session
         /\ OwnerMatches(y) => /\ x.control.terminal.generation = y.op.call
                               /\ x.control.terminal.reason = verdict.reason
         /\ ~OwnerMatches(y) => x.control = y.control
  BY <1>1, ReleaseControlIs
<1>3. /\ c \in Worlds
      /\ c.op = y.op /\ c.media = y.media
      /\ c.session = IF OwnerMatches(y) THEN Abort(y.session) ELSE y.session
      /\ OwnerMatches(y) => /\ c.control.terminal.generation = y.op.call
                            /\ c.control.terminal.reason = verdict.reason
  BY <1>2
<1> HIDE DEF c
<1>4. c.op.station \in Registered /\ Fetched(c.op, c.media)
  BY <1>3 DEF Kept
<1>5. Cleaned(c, Cleanup(c, verdict.reason, stops))
  BY <1>3, <1>4, CleanupIs
<1>6. /\ clean.ok \in BOOLEAN
      /\ t \in Worlds
      /\ Tamer(c.media, t.media)
      /\ \A p \in Registered : ~Handed(t.media[p])
      /\ t.session = c.session /\ t.control = c.control
      /\ \E owns \in BOOLEAN, promoted \in BOOLEAN :
           t.op = [c.op EXCEPT !.owns = owns, !.promoted = promoted]
  BY <1>5 DEF Cleaned
<1>7. z = [t EXCEPT !.op = n]
  BY <1>6 DEF Conclude, Concluded, Worlds, c
<1> HIDE DEF clean
<1>8. t.op \in Operations /\ t.op.station = y.op.station /\ t.op.media = y.op.media
      /\ t.op.call = y.op.call
  BY <1>3, <1>6, WorldParts DEF Operations
<1> HIDE DEF t
<1>9. nok \in BOOLEAN /\ bad \in BOOLEAN /\ (verdict.error => bad) /\ (nok => bad)
  OBVIOUS
<1> HIDE DEF nok, bad
<1>10. LET m == Settled(Judged(t.op, bad, verdict, nok))
       IN m \in Operations /\ Over(t.op, m, verdict)
  BY <1>8, <1>9, JudgedOver
<1>11. n \in Operations /\ Over(y.op, n, verdict)
  BY <1>8, <1>10 DEF Over
<1> HIDE DEF n
<1>12. /\ z \in Worlds /\ z.op = n /\ z.media = t.media
       /\ z.session = c.session /\ z.control = c.control
  BY <1>6, <1>7, <1>11 DEF Worlds
<1> HIDE DEF z
<1>13. Onward(y.session, z.session)
  BY <1>3, <1>12, EndedOnward, OnwardSelf DEF Typed
<1>14. OwnerMatches(y) => ~Active(z.session)
  BY <1>3, <1>12, EndedOnward DEF Typed
<1>15. Numbered(z)
  BY <1>11, <1>12, <1>13 DEF Kept, Numbered, Over, Onward
<1>16. Placed(z)
  <2>1. z.session.state = "preview" => y.session.state = "preview" /\ Active(z.session)
    BY <1>13 DEF Onward, Active
  <2> QED BY <2>1, <1>14 DEF Kept, Placed
<1>17. Agreed(z)
  <2>1. y.op.call # 0 /\ y.op.call = y.session.generation => OwnerMatches(y)
    BY DEF Kept, Numbered, OwnerMatches
  <2> QED BY <2>1, <1>3, <1>11, <1>12, <1>13, <1>14 DEF Agreed, Over, Onward
<1>18. Fetched(z.op, z.media)
  <2>1. Fetched(y.op, c.media)
    BY <1>3 DEF Kept
  <2>2. Fetched(y.op, t.media)
    BY <1>6, <2>1, FetchedTamer
  <2> QED BY <2>2, <1>6, <1>12 DEF Fetched
<1>19. Kept(z)
  BY <1>11, <1>12, <1>15, <1>16, <1>17, <1>18 DEF Kept, Over
<1> QED BY <1>11, <1>12, <1>13, <1>19 DEF Onward

\* The hangup that tells the peer, within EndTimeout.
LEMMA EndOperationKept ==
  ASSUME NEW y, Whole(y), y.op.station \in Registered, NEW error \in BOOLEAN,
         NEW reason \in EndReasons, NEW why \in Faults, NEW stops \in BOOLEAN
  PROVE  LET z == EndOperation(y, error, reason, why, stops)
         IN Whole(z) /\ z.session.generation = y.session.generation
<1> DEFINE c == CancelCommands(y, y.op.call)
           q == Queued(CommandFor("hangup", y.session))
           n == [y.op EXCEPT !.stage = "ending", !.left = EndTimeout, !.error = TRUE,
                             !.reason = reason, !.fault = why]
           x == [c EXCEPT !.dispatch = q, !.op = n]
           v == Verdict(y.op, error, reason, why)
           over == Conclude(y, v, stops)
           z == EndOperation(y, error, reason, why, stops)
           Goal == Whole(z) /\ z.session.generation = y.session.generation
<1> SUFFICES Goal
  OBVIOUS
<1> y \in Worlds /\ Kept(y) /\ Typed(y) /\ y.op \in Operations
  BY WorldParts DEF Whole
<1>1. LET d == CancelCommands(y, y.op.call)
      IN /\ d \in Worlds
         /\ d.op = y.op /\ d.media = y.media /\ d.last = y.last
         /\ d.session = y.session /\ d.control = y.control
  BY CancelIs
<1>2. /\ c \in Worlds
      /\ c.op = y.op /\ c.media = y.media
      /\ c.session = y.session /\ c.control = y.control
  BY <1>1
<1>3. z = IF Tells(y, error, reason) /\ Free(c) THEN x ELSE over
  BY <1>2 DEF EndOperation
<1> HIDE DEF c
<1>4. v \in Verdicts
  BY VerdictType
<1> HIDE DEF v
<1>5. LET w == Conclude(y, v, stops)
      IN /\ w \in Worlds
         /\ Kept(w)
         /\ Over(y.op, w.op, v)
         /\ w.session.generation = y.session.generation
  BY <1>4, ConcludeIs
<1>6. Whole(over) /\ over.session.generation = y.session.generation
  BY <1>5 DEF Whole
<1> HIDE DEF over
<1>7. ASSUME Tells(y, error, reason)
      PROVE  Whole(x) /\ x.session.generation = y.session.generation
  <2>1. q \in Dispatches
    BY CommandForType, QueuedType DEF Typed, CommandTypes
  <2> HIDE DEF q
  <2>2. /\ n \in Operations
        /\ n.stage = "ending" /\ n.station = y.op.station /\ n.media = y.op.media
        /\ n.call = y.op.call /\ n.promoted = y.op.promoted /\ n.sent = y.op.sent
        /\ n.cleanup = y.op.cleanup
    BY StationAssumption DEF Operations, Stages
  <2> HIDE DEF n
  <2>3. /\ x \in Worlds /\ x.op = n /\ x.media = y.media
        /\ x.session = y.session /\ x.control = y.control
    BY <1>2, <2>1, <2>2 DEF Worlds
  <2> HIDE DEF x
  <2>4. OwnerMatches(y) /\ Active(y.session)
    BY <1>7 DEF Tells
  <2>5. y.op.stage \notin {"ended", "failed", "none", "preparing"}
    BY <2>4 DEF Kept, Agreed, Numbered, OwnerMatches
  <2>6. Numbered(x)
    BY <2>2, <2>3, <2>5 DEF Kept, Numbered
  <2>7. Placed(x)
    BY <2>2, <2>3, <2>4 DEF Placed, OwnerMatches
  <2>8. Agreed(x)
    BY <2>2, <2>3 DEF Agreed
  <2>9. Fetched(x.op, x.media)
    BY <2>2, <2>3 DEF Kept, Fetched, Mine, OpActive
  <2>10. Kept(x)
    BY <2>2, <2>3, <2>5, <2>6, <2>7, <2>8, <2>9 DEF Kept
  <2> QED BY <2>3, <2>10 DEF Whole
<1> HIDE DEF x, z
<1> QED BY <1>3, <1>6, <1>7

\* The same for an error, which is what most of them are.
LEMMA EndFails ==
  ASSUME NEW y, Whole(y), y.op.station \in Registered,
         NEW reason \in EndReasons, NEW why \in Faults, NEW stops \in BOOLEAN
  PROVE  /\ Whole(EndOperation(y, TRUE, reason, why, stops))
         /\ EndOperation(y, TRUE, reason, why, stops).session.generation
              = y.session.generation
<1> DEFINE yes == TRUE
<1>1. yes \in BOOLEAN
  OBVIOUS
<1> HIDE DEF yes
<1>2. LET z == EndOperation(y, yes, reason, why, stops)
      IN Whole(z) /\ z.session.generation = y.session.generation
  BY <1>1, EndOperationKept
<1> QED BY <1>2 DEF yes

LEMMA EndsWell ==
  ASSUME NEW y, Whole(y), y.op.station \in Registered,
         NEW reason \in EndReasons, NEW why \in Faults, NEW stops \in BOOLEAN
  PROVE  Whole(EndOperation(y, FALSE, reason, why, stops))
<1> DEFINE no == FALSE
<1>1. no \in BOOLEAN
  OBVIOUS
<1> HIDE DEF no
<1>2. LET z == EndOperation(y, no, reason, why, stops)
      IN Whole(z) /\ z.session.generation = y.session.generation
  BY <1>1, EndOperationKept
<1> QED BY <1>2 DEF no

\* What a change of the media leaves of a world.
LEMMA TamedWhole ==
  ASSUME NEW y, NEW z \in Worlds, Whole(y), Tamer(y.media, z.media),
         z.op = y.op, z.session = y.session, z.control = y.control
  PROVE  Whole(z)
<1>1. Fetched(z.op, z.media)
  BY FetchedTamer DEF Whole, Kept
<1> QED BY <1>1 DEF Whole, Kept, Numbered, Placed, OwnerMatches, Agreed

\* The media of an incoming call that is over.
LEMMA ReleaseEndedKept ==
  ASSUME NEW y, Whole(y), NEW stops \in BOOLEAN
  PROVE  Whole(ReleaseEnded(y, stops)) /\ ReleaseEnded(y, stops).session = y.session
<1> DEFINE p == y.session.peer
           why == IncomingReason(y.control.terminal.reason)
           r == ReleaseIncoming(y.media, p, y.session.generation, why, stops)
           x == [y EXCEPT !.media = r.media]
<1> y \in Worlds
  BY DEF Whole
<1>1. p \in Registered => ReleaseEnded(y, stops) \in {x, y}
  BY DEF ReleaseEnded
<1>2. p \notin Registered => ReleaseEnded(y, stops) = y
  BY DEF ReleaseEnded
<1>3. why \in ReleaseReasons
  BY IncomingReasonType
<1> HIDE DEF why
<1>4. p \in Registered => Mild(y.media, r)
  BY <1>3, WorldParts, ReleaseIncomingMild
<1> HIDE DEF r
<1>5. /\ p \in Registered => x \in Worlds /\ Tamer(y.media, x.media)
      /\ x.op = y.op /\ x.session = y.session /\ x.control = y.control
  BY <1>4 DEF Worlds, Mild, Medias
<1> HIDE DEF x
<1>6. p \in Registered => Whole(x)
  BY <1>5, TamedWhole
<1> QED BY <1>1, <1>2, <1>5, <1>6

-----------------------------------------------------------------------------
(* The step of the operation *)

\* The call that was placed in the world y: its session, its command and its
\* media are the ones of its operation.
Installed(y, z) ==
  /\ z.op.stage = "calling" /\ z.op.station = y.op.station /\ z.op.media = y.op.media
  /\ z.op.call = z.session.generation
  /\ z.session.generation = y.session.generation + 1
  /\ z.session.peer = y.op.station /\ z.session.state = "preview"
  /\ z.dispatch.cmd.type = "call"
  /\ z.dispatch.cmd.generation = z.session.generation
  /\ z.dispatch.state = "queued"
  /\ z.ack = y.ack
  /\ z.control.terminal = y.control.terminal
  /\ Keyed(z.media, y.op.station, y.op.media)
  /\ z.last = y.last
  /\ LET m == y.media[y.op.station]
         n == z.media[y.op.station]
     IN /\ n.handoff /\ n.pending = "none"
        /\ n.generation = m.generation /\ n.viewer = m.viewer
  /\ z.op.sent = y.op.sent
  /\ \A i \in Registered \ {y.op.station} : z.media[i] = y.media[i]

\* The preview that its station confirmed is the operation's and nobody else's.
LEMMA InstallCallIs ==
  ASSUME NEW y, Whole(y), y.op.station \in Registered, NEW room,
         Check(y.media, y.op.station, y.op.media, room) = "ok",
         MayInstall(y), NEW stops
  PROVE  Whole(InstallCall(y, stops)) /\ Installed(y, InstallCall(y, stops))
<1> DEFINE o == y.op
           p == o.station
           ms == y.media
           m == ms[p]
           s == Start(y.session, p, "preview")
           call == s.generation
           n == [m EXCEPT !.purpose = "call", !.handoff = TRUE, !.sent = FALSE,
                          !.call = call]
           q == Queued(CommandFor("call", s))
           k == [fault |-> "none", terminal |-> y.control.terminal]
           w == [o EXCEPT !.promoted = TRUE, !.stage = "calling", !.call = call,
                          !.left = 0]
           x == [y EXCEPT !.media = Replaced(ms, p, n), !.session = s,
                          !.deadline = Disarmed, !.dispatch = q,
                          !.handshake = NoHandshake, !.control = k, !.op = w]
<1> y \in Worlds /\ Kept(y) /\ Typed(y) /\ o \in Operations /\ ms \in Medias
    /\ y.control \in Controls
  BY WorldParts DEF Whole, Typed
<1>1. /\ o.stage = "preparing" /\ ~o.promoted
      /\ y.session.generation < MaxGeneration
  BY DEF MayInstall
<1>2. \A i \in Registered : ~Handed(ms[i])
  BY <1>1 DEF Kept, Fetched, Mine
<1>3. m \in MediaSessions
  BY DEF Medias
<1>4. /\ Keyed(ms, p, o.media) /\ m.pending = "none" /\ m.purpose = "preview"
      /\ ~m.handoff
  <2>1. Keyed(ms, p, o.media) /\ m.pending = "none"
        /\ (m.purpose = "call" => m.handoff)
    BY DEF Check
  <2>2. ~m.handoff
    BY <1>2, <2>1 DEF Handed
  <2> QED BY <1>3, <2>1, <2>2 DEF MediaSessions
<1>5. /\ s \in Sessions /\ s.state = "preview" /\ s.peer = p
      /\ call = y.session.generation + 1 /\ call \in Generations /\ call # 0
  <2>1. p \in Stations
    BY MediaCounts
  <2>2. "preview" \in SessionStates
    BY DEF SessionStates
  <2>3. s \in Sessions
    BY <1>1, <2>1, <2>2, StartType DEF Typed
  <2>4. y.session.generation \in Nat
    BY SessionParts DEF Typed
  <2> QED BY <2>3, <2>4, SessionParts DEF Start
<1> HIDE DEF s
<1>6. /\ Promote(ms, p) = Replaced(ms, p, [m EXCEPT !.purpose = "call", !.handoff = TRUE,
                                                    !.sent = FALSE, !.call = 0])
      /\ n \in MediaSessions /\ n.active /\ n.generation = o.media /\ n.call = call
      /\ n.handoff /\ n.purpose = "call" /\ ~n.sent /\ n.pending = "none"
      /\ n.viewer = m.viewer
  BY <1>3, <1>4, <1>5 DEF Promote, Replaced, Keyed, MediaSessions
<1> DEFINE b == BindControl(Promote(ms, p), p, o.media, call)
<1>7. b.ok = TRUE /\ b.media = Replaced(ms, p, n)
  <2> DEFINE h == [m EXCEPT !.purpose = "call", !.handoff = TRUE, !.sent = FALSE,
                            !.call = 0]
             hs == Replaced(ms, p, h)
  <2>1. /\ h \in MediaSessions /\ h.active /\ h.generation = o.media
        /\ h.pending = "none" /\ h.handoff /\ h.call = 0
        /\ [h EXCEPT !.call = call] = n
    BY <1>3, <1>4, MediaCounts DEF Keyed, MediaSessions
  <2> HIDE DEF h, n
  <2>2. hs \in Medias /\ hs[p] = h
    BY <2>1 DEF Replaced, Medias
  <2>3. Replaced(hs, p, n) = Replaced(ms, p, n)
    BY DEF Replaced, Medias
  <2> HIDE DEF hs
  <2>4. BindControl(hs, p, o.media, call) = Done(TRUE, [hs EXCEPT ![p].call = call])
    BY <1>5, <2>1, <2>2 DEF BindControl, Keyed
  <2>5. [hs EXCEPT ![p].call = call] = Replaced(hs, p, n)
    BY <2>1, <2>2 DEF Replaced, Medias
  <2>6. Promote(ms, p) = hs
    BY <1>6 DEF h, hs
  <2> QED BY <2>3, <2>4, <2>5, <2>6 DEF Done
<1> HIDE DEF b
<1>8. q \in Dispatches /\ q.cmd.type = "call" /\ q.cmd.generation = call
      /\ q.state = "queued"
  BY <1>5, CommandForType, QueuedType DEF CommandTypes, Queued, CommandFor
<1>9. k \in Controls /\ k.terminal = y.control.terminal
  BY DEF Controls, Faults
<1>10. /\ w \in Operations /\ w.stage = "calling" /\ w.call = call /\ w.promoted
       /\ w.station = p /\ w.media = o.media /\ ~w.cleanup /\ w.sent = o.sent
  BY <1>1, <1>5 DEF Operations, Stages, Kept
<1>11. Replaced(ms, p, n) \in Medias
  BY <1>6 DEF Replaced, Medias
<1>12. InstallCall(y, stops) = x
  <2> DEFINE z == [y EXCEPT !.media = b.media, !.op.promoted = TRUE]
             u == [z EXCEPT !.session = s, !.deadline = Disarmed, !.dispatch = q,
                            !.handshake = NoHandshake, !.control.fault = "none",
                            !.op = [@ EXCEPT !.stage = "calling", !.call = call,
                                             !.left = 0]]
  <2>1. InstallCall(y, stops) = u
    BY <1>7 DEF InstallCall, s, b
  <2>2. [y.control EXCEPT !.fault = "none"] = k
    BY DEF Controls
  <2>3. z = [y EXCEPT !.media = Replaced(ms, p, n),
                      !.op = [o EXCEPT !.promoted = TRUE]]
    BY <1>7 DEF Worlds
  <2>4. w = [[o EXCEPT !.promoted = TRUE] EXCEPT !.stage = "calling", !.call = call,
                                                 !.left = 0]
    BY DEF Operations
  <2> HIDE DEF q, k, w, z, n
  <2>5. u = x
    BY <2>2, <2>3, <2>4 DEF Worlds
  <2> QED BY <2>1, <2>5
<1> HIDE DEF q, k, w
<1>13. /\ x \in Worlds /\ x.op = w /\ x.media = Replaced(ms, p, n)
       /\ x.session = s /\ x.dispatch = q /\ x.ack = y.ack /\ x.control = k
       /\ x.last = y.last
  BY <1>5, <1>8, <1>9, <1>10, <1>11, EmptyTypes, DisarmedType DEF Worlds, Medias
<1> HIDE DEF x, n
<1>14. Numbered(x) /\ Placed(x) /\ Agreed(x)
  BY <1>5, <1>10, <1>13, OperationParts DEF Numbered, Placed, OwnerMatches, Agreed
<1>15. Fetched(x.op, x.media)
  <2>1. Proper(n) /\ Mine(w, p, n)
    BY <1>6, <1>10 DEF Proper, Mine, OpActive
  <2>2. \A i \in Registered :
          Replaced(ms, p, n)[i] = IF i = p THEN n ELSE ms[i]
    BY DEF Replaced, Medias
  <2> QED BY <1>2, <1>13, <2>1, <2>2 DEF Kept, Fetched
<1>16. Installed(y, x)
  <2>1. Keyed(x.media, p, o.media)
    BY <1>6, <1>13 DEF Keyed, Replaced, Medias
  <2>2. x.media[p] = n /\ \A i \in Registered \ {p} : x.media[i] = ms[i]
    BY <1>13 DEF Replaced, Medias
  <2>3. n.generation = m.generation
    BY <1>4, <1>6 DEF Keyed
  <2> QED BY <1>5, <1>6, <1>8, <1>9, <1>10, <1>13, <2>1, <2>2, <2>3 DEF Installed
<1> QED BY <1>10, <1>12, <1>13, <1>14, <1>15, <1>16 DEF Whole, Kept

LEMMA InstallCallKept ==
  ASSUME NEW y, Whole(y), y.op.station \in Registered, NEW room,
         Check(y.media, y.op.station, y.op.media, room) = "ok",
         MayInstall(y), NEW stops
  PROVE  Whole(InstallCall(y, stops))
BY InstallCallIs

\* Who owns the preview is nobody else's business.
LEMMA OwnedWhole ==
  ASSUME NEW y, Whole(y), NEW owns \in BOOLEAN
  PROVE  LET z == [y EXCEPT !.op.owns = owns]
         IN /\ Whole(z)
            /\ z.op.stage = y.op.stage /\ z.op.station = y.op.station
            /\ z.op.media = y.op.media
            /\ z.session = y.session /\ z.media = y.media
<1> DEFINE n == [y.op EXCEPT !.owns = owns]
           z == [y EXCEPT !.op = n]
<1> y \in Worlds /\ y.op \in Operations
  BY WorldParts DEF Whole
<1>1. /\ n \in Operations
      /\ n.stage = y.op.stage /\ n.station = y.op.station /\ n.media = y.op.media
      /\ n.call = y.op.call /\ n.promoted = y.op.promoted /\ n.sent = y.op.sent
      /\ n.left = y.op.left /\ n.error = y.op.error /\ n.reason = y.op.reason
      /\ n.cleanup = y.op.cleanup
  BY DEF Operations
<1>2. [y EXCEPT !.op.owns = owns] = z
  BY DEF Worlds
<1> HIDE DEF n
<1>3. /\ z \in Worlds /\ z.op = n /\ z.media = y.media
      /\ z.session = y.session /\ z.control = y.control
  BY <1>1 DEF Worlds
<1> HIDE DEF z
<1>4. Fetched(z.op, z.media)
  BY <1>1, <1>3 DEF Whole, Kept, Fetched, Mine, OpActive
<1>5. Numbered(z) /\ Placed(z) /\ Agreed(z)
  BY <1>1, <1>3 DEF Whole, Kept, Numbered, Placed, OwnerMatches, Agreed
<1> QED BY <1>1, <1>2, <1>3, <1>4, <1>5 DEF Whole, Kept

LEMMA StepPreparingKept ==
  ASSUME NEW y, Whole(y), y.op.station \in Registered, NEW room, NEW stops \in BOOLEAN
  PROVE  Whole(StepPreparing(y, room, stops))
<1> DEFINE answer == Check(y.media, y.op.station, y.op.media, room)
           gone == EndOperation(y, TRUE, "preempted", "preempted", stops)
           late == EndOperation(y, TRUE, "confirmation_timeout", "confirmation_timeout", stops)
           bad == EndOperation(y, TRUE, "unknown", "dispatch_failed", stops)
<1>1. Whole(gone) /\ Whole(late) /\ Whole(bad)
  BY EndFails DEF EndReasons, Faults
<1>2. answer = "ok" /\ MayInstall(y) => Whole(InstallCall(y, stops))
  BY InstallCallKept
<1>3. \/ StepPreparing(y, room, stops) \in {gone, late, bad, y}
      \/ answer = "ok" /\ MayInstall(y)
           /\ StepPreparing(y, room, stops) = InstallCall(y, stops)
  BY DEF StepPreparing
<1> HIDE DEF answer, gone, late, bad
<1> QED BY <1>1, <1>2, <1>3

LEMMA StepOverKept ==
  ASSUME NEW y, Whole(y), y.op.station \in Registered, NEW stops \in BOOLEAN
  PROVE  Whole(StepOver(y, stops))
<1> DEFINE t == y.control.terminal
           known == t.generation = y.op.call
           bad == y.op.error \/ (known /\ t.fault # "none")
           reason == IF known THEN t.reason ELSE "unknown"
           why == IF known THEN t.fault ELSE "unknown"
<1>1. t \in Terminals
  BY WorldParts DEF Whole, Typed, Controls
<1>2. y.op.error \in BOOLEAN
  BY WorldParts DEF Whole, Operations
<1>3. bad \in BOOLEAN /\ reason \in EndReasons /\ why \in Faults
  BY <1>1, <1>2 DEF Terminals, EndReasons, Faults
<1>4. StepOver(y, stops) = EndOperation(y, bad, reason, why, stops)
  BY DEF StepOver
<1> HIDE DEF bad, reason, why
<1>5. LET z == EndOperation(y, bad, reason, why, stops)
      IN Whole(z) /\ z.session.generation = y.session.generation
  BY <1>3, EndOperationKept
<1> QED BY <1>4, <1>5

LEMMA TalkingWhole ==
  ASSUME NEW y, Whole(y), OpActive(y.op), y.op.station \in Registered,
         y.op.stage # "preparing", y.session.state = "talking"
  PROVE  Whole([y EXCEPT !.op.stage = "talking"])
<1> DEFINE n == [y.op EXCEPT !.stage = "talking"]
           z == [y EXCEPT !.op = n]
<1> y \in Worlds /\ y.op \in Operations
  BY WorldParts DEF Whole
<1>1. /\ n \in Operations
      /\ n.stage = "talking" /\ n.station = y.op.station /\ n.media = y.op.media
      /\ n.call = y.op.call /\ n.promoted = y.op.promoted /\ n.sent = y.op.sent
      /\ n.cleanup = y.op.cleanup
  BY DEF Operations, Stages
<1>2. [y EXCEPT !.op.stage = "talking"] = z
  BY DEF Worlds
<1> HIDE DEF n
<1>3. /\ z \in Worlds /\ z.op = n /\ z.media = y.media /\ z.session = y.session
  BY <1>1 DEF Worlds
<1> HIDE DEF z
<1>4. Fetched(z.op, z.media)
  BY <1>1, <1>3 DEF Whole, Kept, Fetched, Mine, OpActive
<1>5. Numbered(z) /\ Placed(z) /\ Agreed(z)
  BY <1>1, <1>3 DEF Whole, Kept, Numbered, Placed, Agreed
<1>6. ~n.cleanup
  BY <1>1 DEF Whole, Kept, OpActive
<1> QED BY <1>2, <1>3, <1>4, <1>5, <1>6 DEF Whole, Kept

LEMMA StepCallKept ==
  ASSUME NEW y, Whole(y), OpActive(y.op), y.op.station \in Registered,
         y.op.stage # "preparing", NEW m, NEW stops \in BOOLEAN
  PROVE  Whole(StepCall(y, m, stops))
<1> DEFINE End(reason, why) == EndOperation(y, TRUE, reason, why, stops)
           talking == [y EXCEPT !.op.stage = "talking"]
<1>1. y.control.fault \in Faults
  BY WorldParts DEF Whole, Typed, Controls
<1>2. /\ Whole(End("unknown", "unknown"))
      /\ Whole(End("unknown", y.control.fault))
      /\ Whole(End("confirmation_timeout", "confirmation_timeout"))
      /\ Whole(End("local_hangup", "dispatch_timeout"))
  <2>1. \A reason \in EndReasons, why \in Faults : Whole(End(reason, why))
    BY EndFails
  <2>2. /\ {"unknown", "confirmation_timeout", "local_hangup"} \subseteq EndReasons
        /\ {"unknown", "confirmation_timeout", "dispatch_timeout"} \subseteq Faults
    BY DEF EndReasons, Faults
  <2> HIDE DEF End
  <2> QED BY <1>1, <2>1, <2>2
<1>3. Whole(StepOver(y, stops))
  BY StepOverKept
<1>4. y.session.state = "talking" => Whole(talking)
  BY TalkingWhole
<1>5. \/ StepCall(y, m, stops) \in {StepOver(y, stops), y,
                                    End("unknown", "unknown"),
                                    End("unknown", y.control.fault),
                                    End("confirmation_timeout", "confirmation_timeout"),
                                    End("local_hangup", "dispatch_timeout")}
      \/ y.session.state = "talking" /\ StepCall(y, m, stops) = talking
  BY DEF StepCall
<1> HIDE DEF End, talking
<1> QED BY <1>2, <1>3, <1>4, <1>5

\* World z is y once the operation knows that its call was sent.
Knows(y, z) ==
  /\ z.op.stage = y.op.stage /\ z.op.station = y.op.station
  /\ z.op.media = y.op.media /\ z.op.call = y.op.call
  /\ z.op.error = y.op.error /\ z.op.reason = y.op.reason
  /\ z.session = y.session /\ z.dispatch = y.dispatch
  /\ z.ack = y.ack /\ z.control = y.control
  /\ \A p \in Registered : /\ z.media[p].active = y.media[p].active
                          /\ z.media[p].generation = y.media[p].generation

\* The operation and the manager are told together that the call was sent.
LEMMA ToldIs ==
  ASSUME NEW y, Whole(y), OpActive(y.op), y.op.station \in Registered
  PROVE  LET mark == MarkSent(y.media, y.op.station, y.op.media, y.op.call)
             z == [y EXCEPT !.op.sent = TRUE, !.media = mark.media]
         IN Whole(z) /\ Knows(y, z)
<1> DEFINE o == y.op
           p == o.station
           mark == MarkSent(y.media, p, o.media, o.call)
           n == [o EXCEPT !.sent = TRUE]
           told == [y EXCEPT !.op = n, !.media = mark.media]
<1> y \in Worlds /\ o \in Operations /\ y.media \in Medias
  BY WorldParts DEF Whole
<1>1. /\ n \in Operations
      /\ n.stage = o.stage /\ n.station = o.station /\ n.media = o.media
      /\ n.call = o.call /\ n.promoted = o.promoted /\ n.sent = TRUE
      /\ n.cleanup = o.cleanup /\ n.error = o.error /\ n.reason = o.reason
  BY DEF Operations
<1>2. /\ mark.media \in Medias
      /\ \A i \in Registered :
           /\ mark.media[i].handoff = y.media[i].handoff
           /\ mark.media[i].active = y.media[i].active
           /\ mark.media[i].purpose = y.media[i].purpose
           /\ mark.media[i].pending = y.media[i].pending
           /\ mark.media[i].generation = y.media[i].generation
           /\ mark.media[i].call = y.media[i].call
  <2> DEFINE ns == [y.media EXCEPT ![p].sent = TRUE]
  <2>1. mark.media \in {ns, y.media}
    BY DEF MarkSent, Done
  <2>2. \A i \in Registered :
          /\ y.media[i] \in MediaSessions
          /\ ns[i] = IF i = p THEN [y.media[i] EXCEPT !.sent = TRUE] ELSE y.media[i]
    BY DEF Medias
  <2>3. \A i \in Registered :
          /\ ns[i].handoff = y.media[i].handoff
          /\ ns[i].active = y.media[i].active
          /\ ns[i].purpose = y.media[i].purpose
          /\ ns[i].pending = y.media[i].pending
          /\ ns[i].generation = y.media[i].generation
          /\ ns[i].call = y.media[i].call
    BY <2>2 DEF MediaSessions
  <2>4. ns \in Medias
    <3>0. ASSUME NEW s \in MediaSessions, NEW v \in BOOLEAN
          PROVE  [s EXCEPT !.sent = v] \in MediaSessions
      BY SMT DEF MediaSessions
    <3>1. \A i \in Registered : [y.media[i] EXCEPT !.sent = TRUE] \in MediaSessions
      BY Zenon, <2>2, <3>0
    <3>2. ns = [i \in Registered |-> IF i = p THEN [y.media[i] EXCEPT !.sent = TRUE]
                                     ELSE y.media[i]]
      BY DEF Medias
    <3> HIDE DEF ns
    <3> QED BY <2>2, <3>1, <3>2 DEF Medias
  <2> HIDE DEF ns, mark
  <2>5. CASE mark.media = ns
    BY <2>3, <2>4, <2>5
  <2>6. CASE mark.media = y.media
    BY <2>6
  <2> QED BY <2>1, <2>5, <2>6
<1>3. [y EXCEPT !.op.sent = TRUE, !.media = mark.media] = told
  BY DEF Worlds
<1> HIDE DEF n, mark
<1>4. /\ told \in Worlds /\ told.op = n /\ told.media = mark.media
      /\ told.session = y.session /\ told.dispatch = y.dispatch
      /\ told.ack = y.ack /\ told.control = y.control
  BY <1>1, <1>2 DEF Worlds, Medias
<1> HIDE DEF told
<1>5. Whole(told)
  <2>1. Fetched(told.op, told.media)
    BY <1>1, <1>2, <1>4 DEF Whole, Kept, Fetched, Proper, Handed, Mine, OpActive
  <2>2. Numbered(told) /\ Placed(told) /\ Agreed(told)
    BY <1>1, <1>4 DEF Whole, Kept, Numbered, Placed, OwnerMatches, Agreed, OpActive
  <2> QED BY <1>1, <1>4, <2>1, <2>2 DEF Whole, Kept
<1>6. Knows(y, told)
  BY <1>1, <1>2, <1>4 DEF Knows
<1> QED BY <1>3, <1>5, <1>6 DEF mark

LEMMA StepSentKept ==
  ASSUME NEW y, Whole(y), OpActive(y.op), y.op.station \in Registered,
         y.op.stage # "preparing", NEW m, NEW stops \in BOOLEAN
  PROVE  Whole(StepSent(y, m, stops))
<1> DEFINE mark == MarkSent(y.media, y.op.station, y.op.media, y.op.call)
           told == [y EXCEPT !.op.sent = TRUE, !.media = mark.media]
           end == EndOperation(told, TRUE, "unknown", "unknown", stops)
<1>1. \/ StepSent(y, m, stops) \in {StepCall(told, m, stops), end}
      \/ StepSent(y, m, stops) = StepCall(y, m, stops)
  BY DEF StepSent
<1>2. Whole(told) /\ Knows(y, told)
  BY ToldIs
<1> HIDE DEF told
<1>3. Whole(StepCall(told, m, stops)) /\ Whole(end)
  BY <1>2, StepCallKept, EndFails DEF Knows, OpActive, EndReasons, Faults
<1>4. Whole(StepCall(y, m, stops))
  BY StepCallKept
<1> HIDE DEF end
<1> QED BY <1>1, <1>3, <1>4

LEMMA StationStepKept ==
  ASSUME NEW y, Whole(y), NEW room, NEW stops \in BOOLEAN
  PROVE  Whole(StationStep(y, room, stops))
<1> DEFINE o == y.op
           m == y.media[o.station]
           owns == Owns(y)
           seen == [y EXCEPT !.op.owns = owns]
           bad == EndOperation(y, TRUE, "unknown", "unknown", stops)
           gone == EndOperation(y, TRUE, "preempted", "preempted", stops)
           other == EndOperation(seen, TRUE, "preempted", "preempted", stops)
<1> SUFFICES ASSUME OpActive(o)
             PROVE  Whole(StationStep(y, room, stops))
  BY DEF StationStep
<1>1. o.station \in Registered
  BY DEF Whole, Kept, Numbered, OpActive
<1>2. Whole(bad) /\ Whole(gone)
  BY <1>1, EndFails DEF EndReasons, Faults
<1>3. \/ StationStep(y, room, stops) \in {bad, gone, other}
      \/ o.stage = "preparing" /\ StationStep(y, room, stops) = StepPreparing(seen, room, stops)
      \/ o.stage # "preparing" /\ StationStep(y, room, stops) = StepSent(seen, m, stops)
  BY DEF StationStep
<1>4. owns \in BOOLEAN
  BY OwnsType
<1> HIDE DEF owns, bad, gone
<1>5. LET z == [y EXCEPT !.op.owns = owns]
      IN /\ Whole(z)
         /\ z.op.stage = y.op.stage /\ z.op.station = y.op.station
         /\ z.op.media = y.op.media
         /\ z.session = y.session /\ z.media = y.media
  BY <1>4, OwnedWhole
<1>6. Whole(seen) /\ seen.op.stage = o.stage /\ seen.op.station = o.station
  BY <1>5
<1> HIDE DEF seen
<1>7. Whole(other)
  BY <1>1, <1>6, EndFails DEF EndReasons, Faults
<1>8. Whole(StepPreparing(seen, room, stops))
  BY <1>1, <1>6, StepPreparingKept
<1>9. o.stage # "preparing" => Whole(StepSent(seen, m, stops))
  BY <1>1, <1>6, StepSentKept DEF OpActive
<1> HIDE DEF other, m
<1> QED BY <1>2, <1>3, <1>7, <1>8, <1>9

-----------------------------------------------------------------------------
(* What a step, a hangup and a packet make of a world *)

LEMMA CallStepKept ==
  ASSUME NEW y, Whole(y), NEW sent1 \in BOOLEAN, NEW sent2 \in BOOLEAN,
         NEW sent3 \in BOOLEAN, NEW room, NEW stops \in BOOLEAN
  PROVE  LET r == CallStep(y, sent1, sent2, sent3, room, stops)
         IN r.wire \subseteq Commands /\ Whole(r.to)
<1> DEFINE a == StationStep(y, room, stops)
           k == StepFrom(a, sent1, sent2, sent3)
           b == WithControl(a, k)
           c == StationStep(b, room, stops)
           r == CallStep(y, sent1, sent2, sent3, room, stops)
           Goal == r.wire \subseteq Commands /\ Whole(r.to)
<1> SUFFICES Goal
  OBVIOUS
<1>1. r.wire = k.wire /\ r.to = ReleaseEnded(c, stops)
  BY DEF CallStep, StationAfter
<1> HIDE DEF r
<1>2. Whole(a)
  BY StationStepKept
<1> HIDE DEF a
<1>3. LET q == StepFrom(a, sent1, sent2, sent3)
      IN /\ Typed(q)
         /\ q.wire \subseteq Commands
         /\ WithControl(a, q) \in Worlds
         /\ Carries(a, WithControl(a, q))
  BY <1>2, StepFromWorld DEF Whole
<1>4. k.wire \subseteq Commands /\ b \in Worlds /\ Carries(a, b)
  BY <1>3
<1> HIDE DEF k, b
<1>5. Whole(b)
  BY <1>2, <1>4, CarriesKept DEF Whole
<1>6. Whole(c)
  BY <1>5, StationStepKept
<1> HIDE DEF c
<1> QED BY <1>1, <1>4, <1>6, ReleaseEndedKept

LEMMA CancelWhole ==
  ASSUME NEW y, Whole(y), NEW g
  PROVE  /\ Whole(CancelCommands(y, g))
         /\ CancelCommands(y, g).op = y.op /\ CancelCommands(y, g).media = y.media
         /\ CancelCommands(y, g).session = y.session
<1> DEFINE c == CancelCommands(y, g)
<1> y \in Worlds /\ Kept(y)
  BY DEF Whole
<1>1. LET z == CancelCommands(y, g)
      IN /\ z \in Worlds
         /\ z.op = y.op /\ z.media = y.media /\ z.last = y.last
         /\ z.session = y.session /\ z.control = y.control
  BY CancelIs
<1>2. /\ c \in Worlds
      /\ c.op = y.op /\ c.media = y.media /\ c.last = y.last
      /\ c.session = y.session /\ c.control = y.control
  BY <1>1
<1> HIDE DEF c
<1>3. Kept(c)
  BY <1>2, SameCarries, CarriesKept
<1> QED BY <1>2, <1>3 DEF Whole, c

\* A user's hangup of a call that was announced is sent to its station.
LEMMA HangupOperationKept ==
  ASSUME NEW y, Whole(y), NEW stops \in BOOLEAN
  PROVE  Whole(HangupOperation(y, stops))
<1> DEFINE o == y.op
           c == CancelCommands(y, o.call)
           q == Queued(CommandFor("hangup", y.session))
           n == [o EXCEPT !.stage = "ending", !.left = EndTimeout]
           x == [c EXCEPT !.dispatch = q, !.op = n]
           retry == RetryCleanup(y, stops)
           end == EndOperation(y, FALSE, "local_hangup", "cancelled", stops)
           bad == EndOperation(c, TRUE, "local_hangup", "dispatch_failed", stops)
<1> y \in Worlds /\ Kept(y) /\ Typed(y) /\ o \in Operations
  BY WorldParts DEF Whole
<1>1. /\ Whole(c) /\ c.op = o /\ c.media = y.media /\ c.session = y.session
  BY CancelWhole
<1>2. \/ HangupOperation(y, stops) = y
      \/ o.cleanup /\ HangupOperation(y, stops) = retry
      \/ OpActive(o) /\ HangupOperation(y, stops) = end
      \/ OpActive(o) /\ HangupOperation(y, stops) = bad
      \/ /\ OpActive(o) /\ OwnerMatches(y) /\ Active(y.session)
         /\ HangupOperation(y, stops) = x
  BY <1>1 DEF HangupOperation
<1> HIDE DEF c
<1>3. ASSUME o.cleanup PROVE Whole(retry)
  <2>1. o.station \in Registered
    BY <1>3 DEF Kept, Numbered
  <2>2. o.error \in BOOLEAN /\ o.reason \in EndReasons /\ o.fault \in Faults
    BY DEF Operations
  <2>3. LET z == EndOperation(y, o.error, o.reason, o.fault, stops)
        IN Whole(z) /\ z.session.generation = y.session.generation
    BY <2>1, <2>2, EndOperationKept
  <2> QED BY <2>3 DEF RetryCleanup
<1>4. ASSUME OpActive(o) PROVE Whole(end) /\ Whole(bad)
  <2>1. o.station \in Registered
    BY <1>4 DEF Kept, Numbered, OpActive
  <2> QED BY <1>1, <2>1, EndsWell, EndFails DEF EndReasons, Faults
<1>5. ASSUME OpActive(o), OwnerMatches(y), Active(y.session)
      PROVE  Whole(x)
  <2>1. q \in Dispatches
    BY CommandForType, QueuedType DEF Typed, CommandTypes
  <2> HIDE DEF q
  <2>2. /\ n \in Operations
        /\ n.stage = "ending" /\ n.station = o.station /\ n.media = o.media
        /\ n.call = o.call /\ n.promoted = o.promoted /\ n.sent = o.sent
        /\ n.cleanup = o.cleanup
    BY StationAssumption DEF Operations, Stages
  <2> HIDE DEF n
  <2>3. /\ x \in Worlds /\ x.op = n /\ x.media = y.media /\ x.session = y.session
    BY <1>1, <2>1, <2>2 DEF Worlds, Whole
  <2> HIDE DEF x
  <2>4. o.stage \notin {"ended", "failed", "none", "preparing"}
    BY <1>5 DEF Kept, Numbered, OwnerMatches, OpActive
  <2>5. Numbered(x) /\ Agreed(x)
    BY <2>2, <2>3, <2>4 DEF Kept, Numbered, Agreed
  <2>6. Placed(x)
    BY <1>5, <2>2, <2>3 DEF Placed, OwnerMatches
  <2>7. Fetched(x.op, x.media)
    BY <2>2, <2>3 DEF Kept, Fetched, Mine, OpActive
  <2> QED BY <2>2, <2>3, <2>4, <2>5, <2>6, <2>7 DEF Whole, Kept
<1> HIDE DEF retry, end, bad, x
<1> QED BY <1>2, <1>3, <1>4, <1>5

LEMMA HangupCallKept ==
  ASSUME NEW y, Whole(y), NEW g \in Generations, Active(y.session),
         NEW stops \in BOOLEAN
  PROVE  Whole(HangupCall(y, g, stops))
<1> DEFINE z == HangupFrom(y, g)
<1>1. z \in Worlds /\ Carries(y, z)
  BY HangupFromWorld DEF Whole
<1>2. HangupCall(y, g, stops) \in {z, ReleaseEnded(z, stops)}
  BY DEF HangupCall
<1> HIDE DEF z
<1>3. Whole(z)
  BY <1>1, CarriesKept DEF Whole
<1> QED BY <1>2, <1>3, ReleaseEndedKept

\* A world that call control went on with.
LEMMA CarriedWhole ==
  ASSUME NEW y, Whole(y), NEW r, Typed(r), Later(y.session, r.session),
         ~Active(y.session) /\ r.session.generation = y.session.generation
           => r.control.terminal = y.control.terminal
  PROVE  Whole(WithControl(y, r))
<1> DEFINE w == WithControl(y, r)
<1>1. LET z == WithControl(y, r)
      IN /\ z \in Worlds
         /\ z.op = y.op /\ z.media = y.media /\ z.last = y.last
         /\ z.session = r.session /\ z.control = r.control
  BY WithControlIs DEF Whole
<1>2. w \in Worlds /\ Carries(y, w)
  BY <1>1 DEF Carries
<1> HIDE DEF w
<1>3. Whole(w)
  BY <1>2, CarriesKept DEF Whole
<1> QED BY <1>3 DEF w

LEMMA ReceiveControlFrameKept ==
  ASSUME NEW y, Whole(y), NEW f, Framed(f), NEW room, NEW stops \in BOOLEAN
  PROVE  Whole(ReceiveControlFrame(y, f, room, stops))
<1> DEFINE x == ReceiveFrom(y, f).to
           a == WithControl(y, x)
           b == StationStep(a, room, stops)
<1>1. LET z == ReceiveFrom(y, f).to
      IN Typed(z) /\ Carries(y, z)
  BY ReceiveFromWorld DEF Whole
<1>2. Typed(x) /\ Carries(y, x)
  BY <1>1
<1>3. ReceiveControlFrame(y, f, room, stops) = ReleaseEnded(b, stops)
  BY DEF ReceiveControlFrame
<1> HIDE DEF x
<1>4. Whole(a)
  BY <1>2, CarriedWhole DEF Carries
<1> HIDE DEF a
<1>5. Whole(b)
  BY <1>4, StationStepKept
<1> HIDE DEF b
<1> QED BY <1>3, <1>5, ReleaseEndedKept

LEMMA TriedIs ==
  ASSUME NEW y, Whole(y), NEW f
  PROVE  /\ Tried(y, f) \in Worlds
         /\ Onward(y.session, Tried(y, f).session)
         /\ ~Active(y.session) => Tried(y, f).session = y.session
         /\ Tried(y, f).control = y.control
<1> DEFINE s == Abort(y.session)
           x == [y EXCEPT !.session = s, !.deadline = Disarmed]
<1> y \in Worlds /\ Typed(y)
  BY WorldParts DEF Whole
<1>1. s \in Sessions /\ Onward(y.session, s) /\ (~Active(y.session) => s = y.session)
  BY EndedType, EndedOnward DEF Typed
<1>2. Tried(y, f) \in {x, y}
  BY DEF Tried
<1> HIDE DEF s
<1>3. x \in Worlds /\ x.session = s /\ x.control = y.control
  BY <1>1, DisarmedType DEF Worlds
<1> HIDE DEF x
<1> QED BY <1>1, <1>2, <1>3, OnwardSelf

LEMMA YieldedKept ==
  ASSUME NEW y, Whole(y), NEW f, NEW stops \in BOOLEAN
  PROVE  /\ Whole(Yielded(y, f, stops))
         /\ Yielded(y, f, stops).session.generation = y.session.generation
<1> DEFINE end == EndOperation(y, TRUE, "preempted", "preempted", stops)
<1>1. \/ Yielded(y, f, stops) = y
      \/ y.op.stage \in {"preparing", "calling"} /\ Yielded(y, f, stops) = end
  BY DEF Yielded
<1>2. ASSUME y.op.stage \in {"preparing", "calling"}
      PROVE  Whole(end) /\ end.session.generation = y.session.generation
  <2>1. y.op.station \in Registered
    BY <1>2 DEF Whole, Kept, Numbered
  <2> QED BY <2>1, EndFails DEF EndReasons, Faults
<1> HIDE DEF end
<1> QED BY <1>1, <1>2

LEMMA WithIncomingKept ==
  ASSUME NEW y, Whole(y), NEW f, f.src \in Registered, NEW g \in Generations,
         NEW works \in BOOLEAN
  PROVE  /\ Whole(WithIncoming(y, f, g, works))
         /\ WithIncoming(y, f, g, works).session = y.session
<1> DEFINE r == IncomingMedia(y.media, y.last, f.src, g, works)
           l == LastGeneration(y.last, r.media)
           x == [y EXCEPT !.media = r.media, !.last = l]
<1> y \in Worlds /\ y.media \in Medias /\ y.last \in MediaGenerations
  BY WorldParts DEF Whole
<1>1. Mild(y.media, r)
  BY IncomingMediaMild
<1>2. WithIncoming(y, f, g, works) = x
  BY DEF WithIncoming, WithMedia
<1> HIDE DEF r
<1>3. r.media \in Medias /\ Tamer(y.media, r.media) /\ l \in MediaGenerations
  BY <1>1, LastGenerationType DEF Mild
<1> HIDE DEF l
<1>4. /\ x \in Worlds /\ x.media = r.media /\ x.op = y.op
      /\ x.session = y.session /\ x.control = y.control
  BY <1>3 DEF Worlds, Medias
<1> HIDE DEF x
<1>5. Whole(x)
  BY <1>3, <1>4, TamedWhole
<1> QED BY <1>2, <1>4, <1>5

\* A caller that takes over gets the session after the placed call's.
LEMMA CallReceivedWhole ==
  ASSUME NEW y, Whole(y), NEW f, Framed(f), NEW works \in BOOLEAN,
         NEW stops \in BOOLEAN
  PROVE  Whole(CallReceived(y, ReceiveFrom(Tried(y, f), f).to, f, works, stops))
<1> DEFINE t == Tried(y, f)
           r == ReceiveFrom(t, f)
           k == r.to
           g == k.session.generation
           accepted == g # y.session.generation
           a == Yielded(y, f, stops)
           b == WithIncoming(a, f, g, works)
           c == CallReceived(y, k, f, works, stops)
<1> y \in Worlds /\ Typed(y)
  BY WorldParts DEF Whole
<1> SUFFICES Whole(c)
  OBVIOUS
<1>1. /\ t \in Worlds
      /\ Onward(y.session, t.session)
      /\ ~Active(y.session) => t.session = y.session
      /\ t.control = y.control
  BY TriedIs
<1> HIDE DEF t
<1>2. LET z == ReceiveFrom(t, f).to
      IN Typed(z) /\ Carries(t, z)
  BY <1>1, ReceiveFromWorld
<1>3. Typed(k) /\ Carries(t, k)
  BY <1>2
<1>4. c = WithControl(IF accepted /\ f.src \in Registered THEN b ELSE y, k)
  BY DEF CallReceived
<1> HIDE DEF c, r, k
<1>5. g \in Generations
  BY <1>3, SessionParts DEF Typed
<1>6. t.session.generation = y.session.generation /\ y.session.generation \in Nat
  BY <1>1, SessionParts DEF Onward, Typed
<1>7. accepted => Fresh(t.session, k.session)
  BY <1>3, <1>6 DEF Carries, Later, Onward
<1>8. ~accepted => Onward(t.session, k.session)
  BY <1>3, <1>6 DEF Carries, Later, Fresh
<1>9. Whole(a) /\ a.session.generation = y.session.generation
  BY YieldedKept
<1> HIDE DEF a
<1>10. f.src \in Registered
         => Whole(b) /\ b.session.generation = y.session.generation
  BY <1>5, <1>9, WithIncomingKept
<1> HIDE DEF b
<1>11. CASE accepted /\ f.src \in Registered
  <2>1. Later(b.session, k.session)
    BY <1>6, <1>7, <1>10, <1>11 DEF Later, Fresh
  <2>2. Whole(WithControl(b, k))
    BY <1>3, <1>10, <1>11, <2>1, CarriedWhole
  <2> QED BY <1>4, <1>11, <2>2
<1>12. CASE ~(accepted /\ f.src \in Registered)
  <2>1. Later(y.session, k.session)
    BY <1>1, <1>6, <1>7, <1>8, OnwardTwice DEF Later, Fresh
  <2>2. ~Active(y.session) /\ g = y.session.generation
          => k.control.terminal = y.control.terminal
    BY <1>1, <1>3 DEF Carries
  <2>3. Whole(WithControl(y, k))
    BY <1>3, <2>1, <2>2, CarriedWhole
  <2> QED BY <1>4, <1>12, <2>3
<1> QED BY <1>11, <1>12

LEMMA ReceiveCallFrameKept ==
  ASSUME NEW y, Whole(y), NEW f, Framed(f), NEW works \in BOOLEAN, NEW room,
         NEW stops \in BOOLEAN
  PROVE  Whole(ReceiveCallFrame(y, f, works, room, stops))
<1> DEFINE c == CallReceived(y, ReceiveFrom(Tried(y, f), f).to, f, works, stops)
<1>1. ReceiveCallFrame(y, f, works, room, stops) \in {StationStep(c, room, stops), y}
  BY DEF ReceiveCallFrame
<1>2. Whole(c)
  BY CallReceivedWhole
<1> HIDE DEF c
<1> QED BY <1>1, <1>2, StationStepKept

-----------------------------------------------------------------------------
(* The actions *)

LEMMA WorldType == ASSUME StationTypeOK PROVE World \in Worlds
BY ControlType DEF StationTypeOK, TypeOK, World, Worlds

LEMMA InvWhole == ASSUME StationInv PROVE Whole(World) /\ TypeOK /\ World \in Worlds
BY WorldType DEF StationInv, Whole, StationTypeOK

LEMMA WorldIs ==
  /\ World.session = session /\ World.op = op
  /\ World.media = media /\ World.last = last /\ World.control = Control
BY DEF World

LEMMA WorldInstalled ==
  ASSUME NEW z \in Worlds, InstallWorld(z)
  PROVE  World' = z
<1> Typed(z)
  BY WorldParts
<1>1. /\ session' = z.session /\ deadline' = z.deadline /\ dispatch' = z.dispatch
      /\ ack' = z.ack /\ handshake' = z.handshake /\ handshakeDispatch' = z.slot
      /\ terminal' = z.control.terminal /\ fault' = z.control.fault
      /\ op' = z.op /\ media' = z.media /\ last' = z.last
  BY DEF InstallWorld, Install
<1>2. Control' = z.control
  BY <1>1 DEF Control, Typed, Controls
<1> QED BY <1>1, <1>2 DEF World, Worlds

\* The world after a request or a packet that call control and the operation
\* settled between them.
LEMMA InstallWorldInv ==
  ASSUME NEW z, Whole(z), InstallWorld(z), phase' \in {"poll", "packet", "stopped"},
         wire' \in SUBSET Commands
  PROVE  StationInv'
<1> z \in Worlds /\ Kept(z) /\ Typed(z) /\ z.op \in Operations
    /\ z.media \in Medias /\ z.last \in MediaGenerations
  BY WorldParts DEF Whole
<1>1. /\ session' = z.session /\ deadline' = z.deadline /\ dispatch' = z.dispatch
      /\ ack' = z.ack /\ handshake' = z.handshake /\ handshakeDispatch' = z.slot
      /\ terminal' = z.control.terminal /\ fault' = z.control.fault
      /\ op' = z.op /\ media' = z.media /\ last' = z.last
  BY DEF InstallWorld, Install
<1>2. World' = z
  BY WorldInstalled
<1>3. StationTypeOK'
  BY <1>1 DEF StationTypeOK, TypeOK, Typed, Controls, Medias
<1> QED BY <1>2, <1>3 DEF StationInv

LEMMA CommitWorldInv ==
  ASSUME StationInv, NEW r, r.wire \in SUBSET Commands, Whole(r.to),
         NEW next \in {"poll", "packet"}, CommitWorld(r, next)
  PROVE  StationInv'
<1>1. CASE r.ok
  BY <1>1, InstallWorldInv DEF CommitWorld
<1>2. CASE ~r.ok
  <2>1. /\ UNCHANGED <<session, deadline, dispatch, ack, handshake,
                       handshakeDispatch, terminal, fault, op, media, last>>
        /\ phase' = "stopped" /\ wire' \in SUBSET Commands
    BY <1>2 DEF CommitWorld
  <2>2. World' = World
    BY <2>1 DEF World, Control
  <2>3. StationTypeOK'
    BY <2>1 DEF StationInv, StationTypeOK, TypeOK
  <2> QED BY <2>2, <2>3 DEF StationInv
<1> QED BY <1>1, <1>2

LEMMA ChoiceTypes ==
  /\ \A m : Stops(m) \subseteq BOOLEAN
  /\ \A o, slot : Sends(o, slot) \subseteq BOOLEAN
  /\ \A o : Beats(o) \subseteq BOOLEAN
BY DEF Stops, Sends, Beats

LEMMA StationCallStepInv ==
  ASSUME StationInv, StationCallStep
  PROVE  StationInv'
<1>1. PICK sent1 \in Outcomes(handshakeDispatch), sent2 \in Beats(op),
           sent3 \in Sends(op, dispatch), room \in Rooms(op), stops \in Stops(media) :
        CommitWorld(CallStep(World, sent1, sent2, sent3, room, stops), "packet")
  BY DEF StationCallStep
<1> DEFINE r == CallStep(World, sent1, sent2, sent3, room, stops)
<1>2. sent1 \in BOOLEAN /\ sent2 \in BOOLEAN /\ sent3 \in BOOLEAN /\ stops \in BOOLEAN
  BY OutcomesType, ChoiceTypes
<1>3. LET q == CallStep(World, sent1, sent2, sent3, room, stops)
      IN q.wire \subseteq Commands /\ Whole(q.to)
  BY <1>2, InvWhole, CallStepKept
<1>4. r.wire \in SUBSET Commands /\ Whole(r.to)
  BY <1>3
<1> HIDE DEF r
<1> QED BY <1>1, <1>4, CommitWorldInv DEF r

LEMMA AdmitInv ==
  ASSUME StationInv, NEW p \in Registered, Admit(p)
  PROVE  StationInv'
<1> DEFINE m == StartPreview(media, last, p)
           owns == ~media[p].active
           n == [NoOperation EXCEPT !.stage = "preparing", !.station = p,
                                    !.media = m.media[p].generation,
                                    !.owns = owns, !.left = PrepareTimeout]
<1>1. /\ ~OpActive(op) /\ ~Active(session)
      /\ media' = m.media /\ last' = LastGeneration(last, m.media)
      /\ op' = n
      /\ UNCHANGED vars
  BY DEF Admit
<1>2. owns \in BOOLEAN
  OBVIOUS
<1>3. media \in Medias /\ last \in MediaGenerations
  BY DEF StationInv, StationTypeOK, Medias
<1>4. /\ Mild(media, m)
      /\ LastGeneration(last, m.media) \in MediaGenerations
      /\ m.media[p].generation \in MediaGenerations
  BY <1>3, StartPreviewMild
<1> HIDE DEF m, owns
<1>5. /\ n \in Operations
      /\ n.stage = "preparing" /\ n.station = p /\ n.call = 0 /\ ~n.cleanup
  BY <1>2, <1>4, MediaCounts, StationAssumption
     DEF NoOperation, Operations, Stages, EndReasons, Faults
<1> HIDE DEF n
<1>6. /\ World'.op = n /\ World'.media = m.media /\ World'.session = session
      /\ World'.control = Control
  BY <1>1 DEF World, Control, vars
<1>7. StationTypeOK'
  BY <1>1, <1>4, <1>5 DEF StationInv, StationTypeOK, TypeOK, vars, Mild, Medias
<1>8. \A i \in Registered : ~Handed(media[i]) /\ Proper(media[i])
  BY <1>1, WorldIs DEF StationInv, Kept, Fetched, Mine
<1>9. Fetched(n, m.media)
  BY <1>4, <1>8 DEF Mild, Tamer, Softer, Fetched
<1>10. session \in Sessions /\ session.generation \in Nat
  BY SessionParts DEF StationInv, StationTypeOK, TypeOK
<1>11. Numbered(World') /\ Placed(World') /\ Agreed(World')
  BY <1>1, <1>5, <1>6, <1>10 DEF Numbered, Placed, Agreed, Active
<1> QED BY <1>5, <1>6, <1>7, <1>9, <1>11 DEF StationInv, Kept

LEMMA RequestCallInv == ASSUME StationInv, RequestCall PROVE StationInv'
<1>1. PICK stops \in Stops(media) : InstallWorld(InstallCall(World, stops))
  BY DEF RequestCall
<1> DEFINE yes == TRUE
<1>2. /\ Check(media, op.station, op.media, yes) = "ok" /\ MayInstall(World)
      /\ op.stage = "preparing" /\ UNCHANGED <<phase, wire>>
  BY DEF RequestCall
<1> HIDE DEF yes
<1>3. Check(World.media, World.op.station, World.op.media, yes) = "ok"
  BY <1>2, WorldIs
<1>4. World.op.station \in Registered
  BY <1>2, WorldIs DEF StationInv, Kept, Numbered
<1>5. Whole(InstallCall(World, stops))
  BY <1>2, <1>3, <1>4, InvWhole, InstallCallKept
<1> QED BY <1>1, <1>2, <1>5, InstallWorldInv, InvWhole DEF TypeOK

LEMMA HangupStationInv ==
  ASSUME StationInv, NEW p, NEW generation, HangupStation(p, generation)
  PROVE  StationInv'
<1>1. PICK stops \in Stops(media) :
        \/ InstallWorld(HangupOperation(World, stops))
        \/ Active(session) /\ InstallWorld(HangupCall(World, session.generation, stops))
  BY DEF HangupStation
<1>2. stops \in BOOLEAN
  BY ChoiceTypes
<1>3. UNCHANGED <<phase, wire>> /\ phase' \in {"poll", "packet", "stopped"}
      /\ wire' \in SUBSET Commands
  BY InvWhole DEF HangupStation, TypeOK
<1>4. session.generation \in Generations
  BY InvWhole, SessionParts DEF TypeOK
<1>5. Whole(HangupOperation(World, stops))
  BY <1>2, InvWhole, HangupOperationKept
<1>6. Active(session) => Whole(HangupCall(World, session.generation, stops))
  BY <1>2, <1>4, InvWhole, WorldIs, HangupCallKept
<1> QED BY <1>1, <1>3, <1>5, <1>6, InstallWorldInv

LEMMA HangupGenerationInv ==
  ASSUME StationInv, NEW g, HangupGeneration(g)
  PROVE  StationInv'
<1>1. PICK stops \in Stops(media) :
        \/ InstallWorld(HangupOperation(World, stops))
        \/ Active(session) /\ InstallWorld(HangupCall(World, g, stops))
  BY DEF HangupGeneration
<1>2. stops \in BOOLEAN
  BY ChoiceTypes
<1>3. UNCHANGED <<phase, wire>> /\ phase' \in {"poll", "packet", "stopped"}
      /\ wire' \in SUBSET Commands
  BY InvWhole DEF HangupGeneration, TypeOK
<1>4. g \in Generations
  BY InvWhole, SessionParts DEF TypeOK, HangupGeneration
<1>5. Whole(HangupOperation(World, stops))
  BY <1>2, InvWhole, HangupOperationKept
<1>6. Active(session) => Whole(HangupCall(World, g, stops))
  BY <1>2, <1>4, InvWhole, WorldIs, HangupCallKept
<1> QED BY <1>1, <1>3, <1>5, <1>6, InstallWorldInv

\* What leaves the session, the record, the operation and the media alone.
LEMMA QuietInv ==
  ASSUME StationInv, StationTypeOK',
         UNCHANGED <<session, terminal, fault, op, media, last>>
  PROVE  StationInv'
<1>1. World' \in Worlds
  <2>1. Control' \in Controls
    BY DEF Control, Controls, StationTypeOK, TypeOK
  <2> QED BY <2>1 DEF World, Worlds, StationTypeOK, TypeOK
<1>2. Carries(World, World')
  BY OnwardSelf DEF World, Control, Carries
<1>3. Kept(World')
  BY <1>1, <1>2, InvWhole, CarriesKept DEF Whole
<1> QED BY <1>3 DEF StationInv

LEMMA AnswerCallInv ==
  ASSUME StationInv, NEW g \in Generations, AnswerCall(g)
  PROVE  StationInv'
<1>1. TypeOK'
  BY InvWhole, AnswerType DEF AnswerCall
<1>2. UNCHANGED <<session, terminal, fault, op, media, last>>
  BY DEF AnswerCall, Answer
<1>3. StationTypeOK'
  BY <1>1, <1>2 DEF StationInv, StationTypeOK
<1> QED BY <1>2, <1>3, QuietInv

LEMMA StationNoPacketInv == ASSUME StationInv, StationNoPacket PROVE StationInv'
<1>1. UNCHANGED <<session, deadline, dispatch, ack, handshake, handshakeDispatch,
                  terminal, fault, op, media, last>>
      /\ phase' = "poll" /\ wire' = {}
  BY DEF StationNoPacket, NoPacket
<1>2. StationTypeOK'
  BY <1>1 DEF StationInv, StationTypeOK, TypeOK
<1> QED BY <1>1, <1>2, QuietInv

\* The media change, and with them the operation's claim to the preview.
LEMMA MediaInv ==
  ASSUME StationInv, UNCHANGED vars, media' \in Medias, last' \in MediaGenerations,
         Tamer(media, media'),
         op' = op \/ op' = [op EXCEPT !.owns = FALSE]
  PROVE  StationInv'
<1> DEFINE z == [World EXCEPT !.media = media', !.last = last']
           no == FALSE
           w == [z EXCEPT !.op.owns = no]
<1>1. no \in BOOLEAN
  OBVIOUS
<1> HIDE DEF no
<1>2. /\ z \in Worlds /\ z.op = op /\ z.media = media' /\ z.last = last'
      /\ z.session = World.session /\ z.control = World.control
  BY InvWhole, WorldIs DEF Worlds, Medias
<1>3. Whole(z)
  <2>1. /\ Whole(World) /\ Tamer(World.media, z.media)
        /\ z.op = World.op /\ z.session = World.session /\ z.control = World.control
    BY <1>2, InvWhole, WorldIs
  <2> HIDE DEF z
  <2> QED BY <1>2, <2>1, TamedWhole
<1>4. LET u == [z EXCEPT !.op.owns = no]
      IN /\ Whole(u)
         /\ u.op.stage = z.op.stage /\ u.op.station = z.op.station
         /\ u.op.media = z.op.media
         /\ u.session = z.session /\ u.media = z.media
  BY <1>1, <1>3, OwnedWhole
<1>5. Whole(w)
  BY <1>4
<1>6. /\ z.session = session /\ z.deadline = deadline /\ z.dispatch = dispatch
      /\ z.ack = ack /\ z.handshake = handshake /\ z.slot = handshakeDispatch
      /\ z.control = Control
  BY DEF World
<1> HIDE DEF z
<1>7. /\ op' = op => World' = z
      /\ op' = [op EXCEPT !.owns = FALSE] => World' = w
  <2>1. /\ session' = z.session /\ deadline' = z.deadline /\ dispatch' = z.dispatch
        /\ ack' = z.ack /\ handshake' = z.handshake /\ handshakeDispatch' = z.slot
        /\ Control' = z.control
    BY <1>6 DEF vars, Control
  <2>2. op' = op => World' = z
    BY <1>2, <2>1 DEF World, Worlds
  <2>3. op' = [op EXCEPT !.owns = FALSE] => w = [z EXCEPT !.op = op']
    BY <1>2 DEF Worlds, no
  <2>4. World' = [z EXCEPT !.op = op']
    BY <1>2, <2>1 DEF World, Worlds
  <2> QED BY <2>2, <2>3, <2>4
<1>8. Kept(World')
  BY <1>3, <1>5, <1>6, <1>7 DEF Whole
<1>9. op' \in Operations
  BY DEF StationInv, StationTypeOK, Operations
<1>10. StationTypeOK'
  BY <1>9 DEF StationInv, StationTypeOK, TypeOK, vars, Medias
<1> QED BY <1>8, <1>10 DEF StationInv

LEMMA MonitorStartInv ==
  ASSUME StationInv, NEW p \in Registered, MonitorStart(p)
  PROVE  StationInv'
<1> DEFINE m == StartPreview(media, last, p)
<1>1. media \in Medias /\ last \in MediaGenerations
  BY DEF StationInv, StationTypeOK, Medias
<1>2. Mild(media, m) /\ LastGeneration(last, m.media) \in MediaGenerations
  BY <1>1, StartPreviewMild
<1>3. media' = m.media /\ last' = LastGeneration(last, m.media) /\ UNCHANGED vars
      /\ (op' = op \/ op' = [op EXCEPT !.owns = FALSE])
  BY DEF MonitorStart, Shared
<1> HIDE DEF m
<1> QED BY <1>2, <1>3, MediaInv DEF Mild

LEMMA SessionReplaced ==
  ASSUME media \in Medias, NEW p \in Registered, NEW n \in MediaSessions,
         Softer(media[p], n)
  PROVE  [media EXCEPT ![p] = n] \in Medias /\ Tamer(media, [media EXCEPT ![p] = n])
BY ReplacedMild DEF Replaced

LEMMA MonitorViewerInv ==
  ASSUME StationInv, NEW p \in Registered, MonitorViewer(p)
  PROVE  StationInv'
<1>1. PICK watching \in BOOLEAN :
        /\ \E m \in Viewed(media[p], watching) : media' = [media EXCEPT ![p] = m]
        /\ op' = IF watching THEN Shared(p) ELSE op
  BY DEF MonitorViewer
<1>2. PICK m \in Viewed(media[p], watching) : media' = [media EXCEPT ![p] = m]
  BY <1>1
<1>3. media \in Medias /\ media[p] \in MediaSessions /\ last \in MediaGenerations
  BY DEF StationInv, StationTypeOK, Medias
<1>4. m \in MediaSessions /\ Softer(media[p], m)
  BY <1>3, ViewedSofter
<1>5. media' \in Medias /\ Tamer(media, media')
  BY <1>2, <1>3, <1>4, SessionReplaced
<1>6. UNCHANGED vars /\ last' \in MediaGenerations
      /\ (op' = op \/ op' = [op EXCEPT !.owns = FALSE])
  BY <1>1, <1>3 DEF MonitorViewer, Shared
<1> QED BY <1>5, <1>6, MediaInv

LEMMA MonitorStopInv ==
  ASSUME StationInv, NEW p \in Registered, MonitorStop(p)
  PROVE  StationInv'
<1> DEFINE g == media[p].generation
<1>1. PICK stops \in BOOLEAN : media' = StopPreview(media, p, g, stops).media
  BY DEF MonitorStop
<1>2. media \in Medias /\ last \in MediaGenerations
  BY DEF StationInv, StationTypeOK, Medias
<1> HIDE DEF g
<1>3. LET r == StopPreview(media, p, g, stops)
      IN Mild(media, r) /\ (~Handed(media[p]) => ~Handed(r.media[p]))
  BY <1>2, StopPreviewMild
<1>4. media' \in Medias /\ Tamer(media, media')
  BY <1>1, <1>3 DEF Mild
<1>5. UNCHANGED vars /\ op' = op /\ last' \in MediaGenerations
  BY <1>2 DEF MonitorStop
<1> QED BY <1>4, <1>5, MediaInv

LEMMA MediaChangeInv ==
  ASSUME StationInv, NEW p \in Registered, MediaChange(p)
  PROVE  StationInv'
<1>1. PICK m \in MediaChanges(media[p]) : media' = [media EXCEPT ![p] = m]
  BY DEF MediaChange
<1>2. media \in Medias /\ media[p] \in MediaSessions /\ last \in MediaGenerations
  BY DEF StationInv, StationTypeOK, Medias
<1>3. m \in MediaSessions /\ Softer(media[p], m)
  BY <1>2, MediaChangesSofter
<1>4. media' \in Medias /\ Tamer(media, media')
  BY <1>1, <1>2, <1>3, SessionReplaced
<1>5. UNCHANGED vars /\ op' = op /\ last' \in MediaGenerations
  BY <1>2 DEF MediaChange
<1> QED BY <1>4, <1>5, MediaInv

LEMMA StationReceiveCallInv == ASSUME StationInv, StationReceiveCall PROVE StationInv'
<1>1. PICK f \in {h \in Heard : IncomingCall(h)}, works \in BOOLEAN,
           room \in Rooms(op), stops \in Stops(media) :
        InstallWorld(ReceiveCallFrame(World, f, works, room, stops))
  BY DEF StationReceiveCall
<1>2. phase' = "poll" /\ wire' = {}
  BY DEF StationReceiveCall
<1>3. Framed(f)
  BY FramesFramed DEF Heard
<1>4. stops \in BOOLEAN
  BY ChoiceTypes
<1>5. Whole(ReceiveCallFrame(World, f, works, room, stops))
  BY <1>3, <1>4, InvWhole, ReceiveCallFrameKept
<1> QED BY <1>1, <1>2, <1>5, InstallWorldInv

LEMMA StationReceiveInv == ASSUME StationInv, StationReceive PROVE StationInv'
<1>1. PICK f \in {h \in Heard : ~IncomingCall(h)},
           room \in Rooms(op), stops \in Stops(media) :
        InstallWorld(ReceiveControlFrame(World, f, room, stops))
  BY DEF StationReceive
<1>2. phase' = "poll" /\ wire' = {}
  BY DEF StationReceive
<1>3. Framed(f)
  BY FramesFramed DEF Heard
<1>4. stops \in BOOLEAN
  BY ChoiceTypes
<1>5. Whole(ReceiveControlFrame(World, f, room, stops))
  BY <1>3, <1>4, InvWhole, ReceiveControlFrameKept
<1> QED BY <1>1, <1>2, <1>5, InstallWorldInv

LEMMA StationCaptureLostInv == ASSUME StationInv, StationCaptureLost PROVE StationInv'
<1> DEFINE y == WithControl(World, Lost)
           no == FALSE
<1>1. PICK room \in Rooms(op), stops \in Stops(media) :
        CommitWorld(CallStep(IF OpActive(op)
                             THEN EndOperation(y, TRUE, "runtime_reset", "runtime_reset", stops)
                             ELSE y, no, no, no, room, stops), "poll")
  BY DEF StationCaptureLost
<1> DEFINE z == IF OpActive(op)
                THEN EndOperation(y, TRUE, "runtime_reset", "runtime_reset", stops) ELSE y
           r == CallStep(z, no, no, no, room, stops)
<1>2. stops \in BOOLEAN /\ no \in BOOLEAN
  BY ChoiceTypes
<1> HIDE DEF no
<1>3. Lost \in Structs
  BY InvWhole, LostType
<1>4. Typed(Lost)
  BY <1>3, StructsTyped
<1>5. /\ Lost.session = Abort(session)
      /\ ~Active(session) => Lost.control = Control
  BY DEF Lost, Struct
<1>6. session \in Sessions
  BY InvWhole DEF TypeOK
<1>7. Later(session, Lost.session)
  BY <1>5, <1>6, EndedOnward DEF Later
<1>8. Whole(y) /\ y.op = op
  <2>1. Whole(y)
    BY <1>4, <1>5, <1>7, InvWhole, WorldIs, CarriedWhole
  <2>2. LET x == WithControl(World, Lost)
        IN /\ x \in Worlds
           /\ x.op = World.op /\ x.media = World.media /\ x.last = World.last
           /\ x.session = Lost.session /\ x.control = Lost.control
    BY <1>4, InvWhole, WithControlIs
  <2> QED BY <2>1, <2>2, WorldIs
<1> HIDE DEF y
<1>9. Whole(z)
  <2>1. OpActive(op) => y.op.station \in Registered
    BY <1>8 DEF Whole, Kept, Numbered, OpActive
  <2> QED BY <1>2, <1>8, <2>1, EndFails DEF EndReasons, Faults
<1>10. CommitWorld(r, "poll")
  BY <1>1
<1> HIDE DEF z
<1>11. LET q == CallStep(z, no, no, no, room, stops)
       IN q.wire \subseteq Commands /\ Whole(q.to)
  BY <1>2, <1>9, CallStepKept
<1>12. r.wire \in SUBSET Commands /\ Whole(r.to)
  BY <1>11
<1> HIDE DEF r
<1> QED BY <1>10, <1>12, CommitWorldInv

LEMMA StationTickInv == ASSUME StationInv, StationTick PROVE StationInv'
<1>1. TypeOK'
  BY InvWhole, TickType DEF StationTick
<1>2. op \in Operations /\ session \in Sessions /\ World \in Worlds /\ Kept(World)
  BY InvWhole DEF StationInv, StationTypeOK, TypeOK, Whole
<1>3. /\ op' \in Operations
      /\ op'.stage = op.stage /\ op'.station = op.station /\ op'.media = op.media
      /\ op'.call = op.call /\ op'.promoted = op.promoted /\ op'.sent = op.sent
      /\ op'.error = op.error /\ op'.reason = op.reason /\ op'.cleanup = op.cleanup
      /\ op.left = 0 => op'.left = 0
  <2>1. Min0(op.left) \in Nat /\ (op.left = 0 => Min0(op.left) = 0)
    BY <1>2 DEF Operations, Min0
  <2>2. op' = [op EXCEPT !.left = Min0(op.left)]
    BY DEF StationTick
  <2> QED BY <1>2, <2>1, <2>2 DEF Operations
<1>4. session'.state = session.state /\ session'.peer = session.peer
      /\ session'.generation = session.generation
  BY <1>2 DEF StationTick, Tick, Sessions
<1>5. UNCHANGED <<terminal, fault, media, last>>
  BY DEF StationTick, Tick
<1>6. StationTypeOK'
  BY <1>1, <1>3, <1>5 DEF StationInv, StationTypeOK
<1>7. /\ World'.session = session' /\ World'.op = op' /\ World'.media = media
      /\ World'.control = World.control
  BY <1>5 DEF World, Control
<1> DEFINE y == World
           z == World'
<1>8. /\ y.session = session /\ y.op = op /\ y.media = media
      /\ z.session = session' /\ z.op = op' /\ z.media = media
      /\ z.control = y.control
  BY <1>7, WorldIs
<1>9. Kept(y)
  BY <1>2
<1> HIDE DEF y, z
<1>10. Fetched(z.op, z.media)
  BY <1>3, <1>8, <1>9 DEF Kept, Fetched, Mine, OpActive
<1>11. Numbered(z) /\ Placed(z) /\ Agreed(z)
  BY <1>3, <1>4, <1>8, <1>9 DEF Kept, Numbered, Placed, OwnerMatches, Agreed, Active
<1>12. Kept(z)
  BY <1>3, <1>8, <1>9, <1>10, <1>11 DEF Kept
<1> QED BY <1>6, <1>12 DEF StationInv, z

LEMMA StationInitInv == StationInit => StationInv
<1> SUFFICES ASSUME StationInit PROVE StationInv
  OBVIOUS
<1>1. TypeOK
  BY InitType DEF StationInit
<1>2. /\ NoOperation \in Operations /\ NoOperation.stage = "none" /\ NoOperation.call = 0
      /\ ~NoOperation.cleanup
  BY MediaCounts DEF NoOperation, Operations, Stages, EndReasons, Faults
<1>3. op = NoOperation /\ media = [p \in Registered |-> NoMedia] /\ last = 0
  BY DEF StationInit
<1>4. StationTypeOK
  BY <1>1, <1>2, <1>3, NoMediaType, MediaCounts DEF StationTypeOK
<1>5. session.state = "idle" /\ session.generation \in Nat
  BY <1>1, SessionParts DEF StationInit, Init, InitSession, TypeOK
<1>6. Fetched(op, media)
  BY <1>3, NoMediaType DEF Fetched, Proper, Handed
<1>7. Numbered(World) /\ Placed(World) /\ Agreed(World)
  BY <1>2, <1>3, <1>5, WorldIs DEF Numbered, Placed, Agreed
<1> QED BY <1>2, <1>3, <1>4, <1>6, <1>7, WorldIs DEF StationInv, Kept

LEMMA StationNextInv == StationInv /\ [StationNext]_stationVars => StationInv'
<1> SUFFICES ASSUME StationInv, [StationNext]_stationVars PROVE StationInv'
  OBVIOUS
<1>1. CASE \E g \in Generations : AnswerCall(g) \/ HangupGeneration(g)
  BY <1>1, AnswerCallInv, HangupGenerationInv
<1>2. CASE \E p \in Registered :
             \/ Admit(p)
             \/ \E g \in MediaGenerations : HangupStation(p, g)
             \/ MonitorStart(p)
             \/ MonitorViewer(p)
             \/ MonitorStop(p)
             \/ MediaChange(p)
  BY <1>2, AdmitInv, HangupStationInv, MonitorStartInv, MonitorViewerInv,
     MonitorStopInv, MediaChangeInv
<1>3. CASE RequestCall
  BY <1>3, RequestCallInv
<1>4. CASE StationCallStep
  BY <1>4, StationCallStepInv
<1>5. CASE StationReceiveCall
  BY <1>5, StationReceiveCallInv
<1>6. CASE StationReceive
  BY <1>6, StationReceiveInv
<1>7. CASE StationNoPacket
  BY <1>7, StationNoPacketInv
<1>8. CASE StationCaptureLost
  BY <1>8, StationCaptureLostInv
<1>9. CASE StationTick
  BY <1>9, StationTickInv
<1>10. CASE UNCHANGED stationVars
  <2>1. World' = World
    BY <1>10 DEF stationVars, vars, World, Control
  <2>2. StationTypeOK'
    BY <1>10 DEF stationVars, vars, StationInv, StationTypeOK, TypeOK
  <2> QED BY <2>1, <2>2 DEF StationInv
<1> QED
  BY <1>1, <1>2, <1>3, <1>4, <1>5, <1>6, <1>7, <1>8, <1>9, <1>10 DEF StationNext

\* The inductive invariant of the coordinator: the numbering of its operation,
\* its hold on the call that is placed and on the session it promoted, and the
\* record of an operation that is over, together with all types.
THEOREM StationInvariant == StationSpec => []StationInv
BY StationInitInv, StationNextInv, PTL DEF StationSpec

\* The coordinator, the media sessions and call control keep their types through
\* every request, step, packet, capture loss and tick.
THEOREM StationTypes == StationSpec => []StationTypeOK
<1>1. StationInv => StationTypeOK
  BY DEF StationInv
<1> QED BY <1>1, StationInvariant, PTL

\* A placed call has no deadline until it is answered: the operation that placed
\* it holds it, whatever ends the operation.
THEOREM CallsStayOwned == StationSpec => []OutboundOwned
<1>1. StationInv => OutboundOwned
  BY WorldIs DEF StationInv, Kept, Placed, OwnerMatches, OutboundOwned
<1> QED BY <1>1, StationInvariant, PTL

\* The video of a placed call does not outlive it: a session that is handed over
\* and not being released is the promoted one of the operation under way.
THEOREM MediaStayOwned == StationSpec => []OwnedMedia
<1>1. StationInv => OwnedMedia
  BY WorldIs DEF StationInv, Kept, Fetched, Handed, Mine, OwnedMedia
<1> QED BY <1>1, StationInvariant, PTL

\* The outcome of the operation and the record of call control name the same end
\* of the same call, whichever of the two ended it.
THEOREM AccountsStayAgreed == StationSpec => []AccountsAgree
<1>1. StationInv => AccountsAgree
  BY WorldIs DEF StationInv, Kept, Agreed, AccountsAgree, Control
<1> QED BY <1>1, StationInvariant, PTL

-----------------------------------------------------------------------------
(* The outcome of an operation that is over *)

Finished(o) == o.stage \in {"ended", "failed"}

\* All of the operation but what a repeated cleanup reads.
SameOutcome(o, n) ==
  /\ n.stage = o.stage /\ n.station = o.station /\ n.media = o.media
  /\ n.call = o.call /\ n.left = o.left /\ n.error = o.error
  /\ n.reason = o.reason /\ n.fault = o.fault

LEMMA StationStepOver ==
  ASSUME NEW y, Finished(y.op), NEW room, NEW stops
  PROVE  StationStep(y, room, stops) = y
BY DEF StationStep, Finished, OpActive

LEMMA ReleaseEndedOp ==
  ASSUME NEW y \in Worlds, NEW stops
  PROVE  ReleaseEnded(y, stops).op = y.op
BY DEF ReleaseEnded, Worlds

LEMMA WithControlOp ==
  ASSUME NEW y \in Worlds, NEW r
  PROVE  WithControl(y, r).op = y.op
BY DEF WithControl, Worlds

LEMMA CallStepOver ==
  ASSUME NEW y, Whole(y), Finished(y.op), NEW sent1 \in BOOLEAN,
         NEW sent2 \in BOOLEAN, NEW sent3 \in BOOLEAN, NEW room, NEW stops
  PROVE  CallStep(y, sent1, sent2, sent3, room, stops).to.op = y.op
<1> DEFINE k == StepFrom(y, sent1, sent2, sent3)
           b == WithControl(y, k)
<1>1. LET q == StepFrom(y, sent1, sent2, sent3)
      IN /\ Typed(q)
         /\ q.wire \subseteq Commands
         /\ WithControl(y, q) \in Worlds
         /\ Carries(y, WithControl(y, q))
  BY StepFromWorld DEF Whole
<1>2. b \in Worlds /\ b.op = y.op
  BY <1>1 DEF Carries
<1>3. CallStep(y, sent1, sent2, sent3, room, stops).to
        = ReleaseEnded(StationStep(b, room, stops), stops)
  BY StationStepOver DEF CallStep, StationAfter
<1> HIDE DEF b
<1> QED BY <1>2, <1>3, StationStepOver, ReleaseEndedOp

\* Repeating the cleanup repeats the verdict.
LEMMA RetrySame ==
  ASSUME NEW y, Whole(y), Finished(y.op), y.op.cleanup, NEW stops \in BOOLEAN
  PROVE  SameOutcome(y.op, RetryCleanup(y, stops).op)
<1> DEFINE o == y.op
           v == Verdict(o, o.error, o.reason, o.fault)
           z == Conclude(y, v, stops)
<1> y \in Worlds /\ Kept(y) /\ o \in Operations
  BY WorldParts DEF Whole
<1>1. o.station \in Registered
  BY DEF Kept, Numbered, Finished
<1>2. o.left = 0 /\ o.error /\ o.stage = "failed"
  BY DEF Kept, Agreed, Finished
<1>3. ~(OwnerMatches(y) /\ Active(y.session))
  BY DEF Kept, Agreed, Finished, OwnerMatches
<1>4. RetryCleanup(y, stops) = z
  BY <1>3 DEF RetryCleanup, EndOperation, Tells
<1>5. o.error \in BOOLEAN /\ o.reason \in EndReasons /\ o.fault \in Faults
  BY DEF Operations
<1>6. v \in Verdicts /\ v.error = o.error /\ v.reason = o.reason /\ v.fault = o.fault
  BY <1>2, <1>5, VerdictType DEF Verdict
<1> HIDE DEF v
<1>7. LET w == Conclude(y, v, stops)
      IN /\ w \in Worlds
         /\ Kept(w)
         /\ Over(y.op, w.op, v)
         /\ w.session.generation = y.session.generation
  BY <1>1, <1>6, ConcludeIs
<1>8. z.op \in Operations /\ Over(o, z.op, v)
  BY <1>7, WorldParts
<1> HIDE DEF z
<1>9. z.op.error = o.error
  BY <1>2, <1>5, <1>6, <1>8 DEF Over, Operations
<1> QED BY <1>2, <1>4, <1>6, <1>8, <1>9 DEF SameOutcome, Over

LEMMA HangupOperationSame ==
  ASSUME NEW y, Whole(y), Finished(y.op), NEW stops \in BOOLEAN
  PROVE  SameOutcome(y.op, HangupOperation(y, stops).op)
<1>1. HangupOperation(y, stops) = IF y.op.cleanup THEN RetryCleanup(y, stops) ELSE y
  BY DEF HangupOperation, Finished, OpActive
<1> QED BY <1>1, RetrySame DEF SameOutcome

LEMMA HangupCallSame ==
  ASSUME NEW y, Whole(y), NEW g \in Generations, Active(y.session), NEW stops
  PROVE  HangupCall(y, g, stops).op = y.op
<1> DEFINE z == HangupFrom(y, g)
<1>1. z \in Worlds /\ Carries(y, z)
  BY HangupFromWorld DEF Whole
<1>2. HangupCall(y, g, stops) \in {z, ReleaseEnded(z, stops)}
  BY DEF HangupCall
<1> HIDE DEF z
<1> QED BY <1>1, <1>2, ReleaseEndedOp DEF Carries

LEMMA ReceiveControlFrameSame ==
  ASSUME NEW y, Whole(y), Finished(y.op), NEW f, Framed(f), NEW room, NEW stops
  PROVE  ReceiveControlFrame(y, f, room, stops).op = y.op
<1> DEFINE x == ReceiveFrom(y, f).to
           a == WithControl(y, x)
<1>1. LET z == ReceiveFrom(y, f).to
      IN Typed(z) /\ Carries(y, z)
  BY ReceiveFromWorld DEF Whole
<1>2. Typed(x)
  BY <1>1
<1>3. ReceiveControlFrame(y, f, room, stops)
        = ReleaseEnded(StationStep(a, room, stops), stops)
  BY DEF ReceiveControlFrame
<1> HIDE DEF x
<1>4. LET z == WithControl(y, x)
      IN /\ z \in Worlds
         /\ z.op = y.op /\ z.media = y.media /\ z.last = y.last
         /\ z.session = x.session /\ z.control = x.control
  BY <1>2, WithControlIs DEF Whole
<1>5. a \in Worlds /\ a.op = y.op
  BY <1>4
<1> HIDE DEF a
<1> QED BY <1>3, <1>5, StationStepOver, ReleaseEndedOp

LEMMA ReceiveCallFrameSame ==
  ASSUME NEW y \in Worlds, Finished(y.op), NEW f, NEW works, NEW room, NEW stops
  PROVE  ReceiveCallFrame(y, f, works, room, stops).op = y.op
<1> DEFINE k == ReceiveFrom(Tried(y, f), f).to
           m == IncomingMedia(y.media, y.last, f.src, k.session.generation, works).media
           b == [y EXCEPT !.media = m, !.last = LastGeneration(y.last, m)]
           c == CallReceived(y, k, f, works, stops)
<1>1. ReceiveCallFrame(y, f, works, room, stops) \in {y, StationStep(c, room, stops)}
  BY DEF ReceiveCallFrame
<1>2. Yielded(y, f, stops) = y
  BY DEF Yielded, Finished
<1>3. c \in {WithControl(b, k), WithControl(y, k)}
  BY <1>2 DEF CallReceived, WithIncoming, WithMedia
<1> HIDE DEF k, m
<1>4. WithControl(b, k).op = y.op /\ WithControl(y, k).op = y.op
  BY DEF WithControl, Worlds
<1> HIDE DEF c
<1> QED BY <1>1, <1>3, <1>4, StationStepOver

LEMMA CommitWorldOp ==
  ASSUME NEW r, NEW next, CommitWorld(r, next)
  PROVE  op' = r.to.op \/ op' = op
BY DEF CommitWorld, InstallWorld

\* Every action but a new request keeps the outcome.
LEMMA OutcomeKept ==
  ASSUME StationInv, Finished(op), StationNext
  PROVE  op'.stage = "preparing" \/ SameOutcome(op, op')
<1> Whole(World) /\ World.op = op /\ World.session = session /\ World \in Worlds
    /\ Finished(World.op) /\ World.media = media
  BY InvWhole, WorldIs
<1> SUFFICES ASSUME op' # op
             PROVE  op'.stage = "preparing" \/ SameOutcome(op, op')
  BY DEF SameOutcome
<1>1. ASSUME NEW g \in Generations, AnswerCall(g) PROVE FALSE
  BY <1>1 DEF AnswerCall
<1>2. ASSUME NEW g \in Generations, HangupGeneration(g) PROVE SameOutcome(op, op')
  <2>1. PICK stops \in Stops(media) :
          \/ InstallWorld(HangupOperation(World, stops))
          \/ Active(session) /\ InstallWorld(HangupCall(World, g, stops))
    BY <1>2 DEF HangupGeneration
  <2>2. stops \in BOOLEAN
    BY ChoiceTypes
  <2>3. SameOutcome(op, HangupOperation(World, stops).op)
    BY <2>2, HangupOperationSame
  <2>4. Active(session) => HangupCall(World, g, stops).op = op
    BY HangupCallSame
  <2> QED BY <2>1, <2>3, <2>4 DEF InstallWorld
<1>3. ASSUME NEW p \in Registered, NEW g, HangupStation(p, g) PROVE SameOutcome(op, op')
  <2>1. PICK stops \in Stops(media) :
          \/ InstallWorld(HangupOperation(World, stops))
          \/ Active(session) /\ InstallWorld(HangupCall(World, session.generation, stops))
    BY <1>3 DEF HangupStation
  <2>2. stops \in BOOLEAN /\ session.generation \in Generations
    BY ChoiceTypes, InvWhole, SessionParts DEF TypeOK
  <2>3. SameOutcome(op, HangupOperation(World, stops).op)
    BY <2>2, HangupOperationSame
  <2>4. Active(session) => HangupCall(World, session.generation, stops).op = op
    BY <2>2, HangupCallSame
  <2> QED BY <2>1, <2>3, <2>4 DEF InstallWorld
<1>4. ASSUME NEW p \in Registered, Admit(p) PROVE op'.stage = "preparing"
  BY <1>4 DEF Admit, NoOperation
<1>5. ASSUME NEW p \in Registered,
             MonitorStart(p) \/ MonitorViewer(p) \/ MonitorStop(p) \/ MediaChange(p)
      PROVE  FALSE
  <2>1. Shared(p) = op
    BY DEF Shared, Finished, OpActive
  <2> QED BY <1>5, <2>1 DEF MonitorStart, MonitorViewer, MonitorStop, MediaChange
<1>6. ASSUME RequestCall PROVE FALSE
  BY <1>6 DEF RequestCall, Finished
<1>7. ASSUME StationCallStep PROVE FALSE
  <2>1. PICK sent1 \in Outcomes(handshakeDispatch), sent2 \in Beats(op),
             sent3 \in Sends(op, dispatch), room \in Rooms(op), stops \in Stops(media) :
          CommitWorld(CallStep(World, sent1, sent2, sent3, room, stops), "packet")
    BY <1>7 DEF StationCallStep
  <2>2. sent1 \in BOOLEAN /\ sent2 \in BOOLEAN /\ sent3 \in BOOLEAN
    BY OutcomesType, ChoiceTypes
  <2> QED BY <2>1, <2>2, CommitWorldOp, CallStepOver
<1>8. ASSUME StationReceiveCall PROVE FALSE
  <2>1. PICK f \in {h \in Heard : IncomingCall(h)}, works \in BOOLEAN,
             room \in Rooms(op), stops \in Stops(media) :
          InstallWorld(ReceiveCallFrame(World, f, works, room, stops))
    BY <1>8 DEF StationReceiveCall
  <2> QED BY <2>1, ReceiveCallFrameSame DEF InstallWorld
<1>9. ASSUME StationReceive PROVE FALSE
  <2>1. PICK f \in {h \in Heard : ~IncomingCall(h)},
             room \in Rooms(op), stops \in Stops(media) :
          InstallWorld(ReceiveControlFrame(World, f, room, stops))
    BY <1>9 DEF StationReceive
  <2>2. Framed(f)
    BY FramesFramed DEF Heard
  <2> QED BY <2>1, <2>2, ReceiveControlFrameSame DEF InstallWorld
<1>10. ASSUME StationNoPacket PROVE FALSE
  BY <1>10 DEF StationNoPacket
<1>11. ASSUME StationCaptureLost PROVE FALSE
  <2> DEFINE y == WithControl(World, Lost)
             no == FALSE
  <2>1. PICK room \in Rooms(op), stops \in Stops(media) :
          CommitWorld(CallStep(y, no, no, no, room, stops), "poll")
    BY <1>11 DEF StationCaptureLost, Finished, OpActive
  <2>2. no \in BOOLEAN
    OBVIOUS
  <2> HIDE DEF no
  <2>3. Whole(y) /\ y.op = op
    <3>1. Lost \in Structs
      BY InvWhole, LostType
    <3>2. /\ Typed(Lost) /\ Lost.session = Abort(session)
          /\ ~Active(session) => Lost.control = Control
      BY <3>1, StructsTyped DEF Lost, Struct
    <3>3. Later(session, Lost.session)
      BY <3>2, InvWhole, EndedOnward DEF Later, TypeOK
    <3> QED BY <3>2, <3>3, WorldIs, CarriedWhole, WithControlOp
  <2> HIDE DEF y
  <2> QED BY <2>1, <2>2, <2>3, CommitWorldOp, CallStepOver
<1>12. ASSUME StationTick PROVE FALSE
  <2>1. op \in Operations /\ op.left = 0
    BY WorldIs DEF StationInv, StationTypeOK, Kept, Agreed, Finished
  <2>2. op' = [op EXCEPT !.left = Min0(op.left)]
    BY <1>12 DEF StationTick
  <2> QED BY <2>1, <2>2 DEF Min0, Operations
<1> QED
  BY <1>1, <1>2, <1>3, <1>4, <1>5, <1>6, <1>7, <1>8, <1>9, <1>10, <1>11, <1>12
     DEF StationNext

\* The outcome of an operation stands until the next one: no step, packet, tick
\* or repeated hangup turns a failure into a success or changes its reason.
THEOREM OutcomesStand == StationSpec => OutcomeStands
<1> DEFINE Stands == op.stage \in {"ended", "failed"} /\ op'.stage # "preparing"
                       => [op' EXCEPT !.cleanup = op.cleanup, !.owns = op.owns,
                                      !.promoted = op.promoted, !.sent = op.sent] = op
<1>1. StationInv /\ StationInv' /\ [StationNext]_stationVars => [Stands]_stationVars
  <2> SUFFICES ASSUME StationInv, StationInv', StationNext, Finished(op),
                      op'.stage # "preparing"
               PROVE  [op' EXCEPT !.cleanup = op.cleanup, !.owns = op.owns,
                                  !.promoted = op.promoted, !.sent = op.sent] = op
    BY DEF Finished
  <2>1. SameOutcome(op, op')
    BY OutcomeKept
  <2>2. op \in Operations /\ op' \in Operations
    BY DEF StationInv, StationTypeOK
  <2> QED BY <2>1, <2>2 DEF SameOutcome, Operations
<1> QED BY <1>1, StationInvariant, PTL DEF StationSpec, OutcomeStands

-----------------------------------------------------------------------------
(* The station that was told of a call is told of its end *)

Under(o) == o.stage \in {"calling", "talking"}

OnlyCall(cmd, g) == cmd.type = "call" /\ cmd.generation = g

\* Placed call g is not over: it has no record yet, and nothing but its CALL
\* is to be sent or to be acknowledged.
Calls(x, g) ==
  /\ x.session.generation = g
  /\ x.session.state \in {"preview", "talking"}
  /\ DispatchActive(x.dispatch) => OnlyCall(x.dispatch.cmd, g)
  /\ x.ack.state = "waiting" => OnlyCall(x.ack.cmd, g)
  /\ x.control.terminal.generation < g

\* Call g has just ended, for one of these reasons.
Gone(x, g, reasons) ==
  /\ x.session.generation = g
  /\ ~Active(x.session)
  /\ x.control.terminal.generation = g
  /\ x.control.terminal.reason \in reasons

\* The record is of this call or of an earlier one.
Dated(s, c) == c.terminal.generation <= s.generation

LEMMA PlacedActive ==
  ASSUME NEW s, s.state \in {"preview", "talking"}
  PROVE  Active(s)
BY DEF Active

\* What is recorded is recorded of the call that was.
LEMMA RecordDated ==
  ASSUME NEW c, NEW reason, NEW why, NEW g
  PROVE  LET k == RecordTerminal(c, reason, why, g)
         IN k.terminal = c.terminal \/ k.terminal.generation = g
BY DEF RecordTerminal

LEMMA ClassifyDated ==
  ASSUME NEW c \in Controls, NEW s \in Sessions, NEW t, NEW flags, NEW disconnected,
         NEW expired
  PROVE  LET k == Classify(c, s, t, flags, disconnected, expired)
         IN k.terminal = c.terminal \/ k.terminal.generation = s.generation
<1> DEFINE Of(reason, why) == RecordTerminal(c, reason, why, s.generation)
           why0 == IF expired THEN "confirmation_timeout" ELSE "none"
           k == Classify(c, s, t, flags, disconnected, expired)
           Good(x) == x.terminal = c.terminal \/ x.terminal.generation = s.generation
<1>1. \A reason, why : Good(Of(reason, why))
  BY RecordDated
<1>2. Of("preempted", "preempted") \in Controls
  BY RecordTerminalType, SessionParts DEF EndReasons, Faults
<1>3. \A x \in Controls : \A why : [x EXCEPT !.fault = why].terminal = x.terminal
  BY DEF Controls
<1>4. \A why : Good([c EXCEPT !.fault = why])
  BY <1>3
<1>5. \A why : Good([Of("preempted", "preempted") EXCEPT !.fault = why])
  BY <1>1, <1>2, <1>3
<1> DEFINE over == [Of("preempted", "preempted") EXCEPT !.fault = "none"]
           told == [c EXCEPT !.fault = why0]
           begun == [c EXCEPT !.fault = "none"]
           gone == IF flags.local THEN "local_hangup" ELSE "peer_hangup"
<1>6. k \in {Of("heartbeat_timeout", "heartbeat_timeout"), over, told, begun, c,
            Of("session_timeout", "none"), Of(gone, why0), Of("unknown", why0)}
  <2>1. CASE Active(s)
    BY <2>1 DEF Classify
  <2>2. CASE ~Active(s)
    BY <2>2 DEF Classify
  <2> QED BY <2>1, <2>2
<1>7. Good(over) /\ Good(told) /\ Good(begun)
  BY <1>4, <1>5
<1> HIDE DEF Of, k, over, told, begun, gone
<1>8. Good(k)
  BY <1>1, <1>6, <1>7
<1> QED BY <1>8 DEF k

\* The timers end a placed call for its heartbeat or its deadline, and say so.
LEMMA StepTimersCalls ==
  ASSUME NEW s \in Sessions, NEW d \in Deadlines, NEW a \in Acks,
         NEW h \in Handshakes, NEW c \in Controls,
         s.state \in {"preview", "talking"}, c.terminal.generation < s.generation,
         a.state = "waiting" => OnlyCall(a.cmd, s.generation)
  PROVE  LET t == StepTimers(s, d, a, h, c)
         IN /\ \/ t.session = s /\ t.control.terminal = c.terminal
               \/ /\ Ends(s, t.session)
                  /\ t.control.terminal.generation = s.generation
                  /\ t.control.terminal.reason \in {"heartbeat_timeout", "session_timeout"}
            /\ t.ack.state = "waiting" => OnlyCall(t.ack.cmd, s.generation)
<1> DEFINE beat == HandshakeTick(h, s)
           d1 == IF beat.disconnected THEN Disarmed ELSE d
           run == RuntimeTick(a, beat.session, d1)
           k == Classify(c, s, run.session, run.flags, beat.disconnected, run.expired)
           t == StepTimers(s, d, a, h, c)
           tick == DeadlineTick(d1, beat.session)
           heard == AckTick(a, tick.session)
           flags == [NoFlags EXCEPT !.timedOut = tick.timedOut,
                                    !.ended = FALSE, !.local = FALSE]
<1> SUFFICES /\ \/ t.session = s /\ t.control.terminal = c.terminal
                \/ /\ Ends(s, t.session)
                   /\ t.control.terminal.generation = s.generation
                   /\ t.control.terminal.reason \in {"heartbeat_timeout", "session_timeout"}
             /\ t.ack.state = "waiting" => OnlyCall(t.ack.cmd, s.generation)
  OBVIOUS
<1>1. Active(s)
  BY PlacedActive
<1>2. /\ beat.session \in Sessions
      /\ beat.session = s \/ Ends(s, beat.session)
      /\ beat.disconnected \in BOOLEAN
      /\ beat.disconnected => Ends(s, beat.session)
      /\ ~beat.disconnected => beat.session = s
  BY HandshakeTickType, HandshakeTickMoves DEF HandshakeTick
<1>3. d1 \in Deadlines
  BY DisarmedType
<1>4. /\ t.session = run.session /\ t.ack = run.ack /\ t.control = k
  BY DEF StepTimers, TimersAfter
<1> HIDE DEF beat, d1, t
<1>5. IF tick.timedOut THEN Ends(beat.session, tick.session)
      ELSE tick.session = beat.session
  BY <1>2, <1>3, DeadlineTickMoves
<1> HIDE DEF tick
<1>6. /\ HangupOver(a, heard) = FALSE
      /\ heard.state = "waiting" => OnlyCall(heard.cmd, s.generation)
  BY DEF HangupOver, AckTick, AckResolved, Acks, OnlyCall
<1> HIDE DEF heard
<1>7. /\ run.session = tick.session /\ run.ack = heard
      /\ run.flags.timedOut = tick.timedOut /\ ~run.flags.preempted
      /\ ~run.flags.ended /\ ~run.flags.local
  <2>1. run.flags = [NoFlags EXCEPT !.timedOut = tick.timedOut,
                                    !.ended = FALSE, !.local = FALSE]
    BY <1>6 DEF RuntimeTick, tick, heard
  <2>2. run.session = tick.session /\ run.ack = heard
    BY <1>6 DEF RuntimeTick, tick, heard
  <2> QED BY <2>1, <2>2 DEF NoFlags
<1> HIDE DEF run
<1>8. c.terminal.generation # s.generation /\ s.generation # 0
  BY SessionParts DEF Controls, Terminals, Generations
<1>9. \A reason, why :
        /\ RecordTerminal(c, reason, why, s.generation).terminal.generation = s.generation
        /\ RecordTerminal(c, reason, why, s.generation).terminal.reason = reason
  BY <1>8, RecordTerminalFirst
<1>10. CASE beat.disconnected
  <2>1. k = RecordTerminal(c, "heartbeat_timeout", "heartbeat_timeout", s.generation)
    BY <1>1, <1>10 DEF Classify
  <2>2. Ends(s, run.session)
    BY <1>2, <1>5, <1>7, <1>10 DEF Ends, Active
  <2> QED BY <1>4, <1>6, <1>7, <1>9, <2>1, <2>2
<1>11. CASE ~beat.disconnected /\ tick.timedOut
  <2>1. k = RecordTerminal(c, "session_timeout", "none", s.generation)
    BY <1>1, <1>7, <1>11 DEF Classify
  <2>2. Ends(s, run.session)
    BY <1>2, <1>5, <1>7, <1>11
  <2> QED BY <1>4, <1>6, <1>7, <1>9, <2>1, <2>2
<1>12. CASE ~beat.disconnected /\ ~tick.timedOut
  <2>1. run.session = s
    BY <1>2, <1>5, <1>7, <1>12
  <2>2. k.terminal = c.terminal
    <3>1. \A why : [c EXCEPT !.fault = why].terminal = c.terminal
      BY DEF Controls
    <3> QED BY <1>1, <1>7, <1>12, <2>1, <3>1 DEF Classify
  <2> QED BY <1>4, <1>6, <1>7, <2>1, <2>2
<1> QED BY <1>10, <1>11, <1>12

LEMMA StepDispatchCalls ==
  ASSUME NEW t, t.session \in Sessions, t.control \in Controls,
         NEW slot \in Dispatches, NEW before, NEW sent \in BOOLEAN, NEW g,
         DispatchActive(slot) => OnlyCall(slot.cmd, g),
         t.ack.state = "waiting" => OnlyCall(t.ack.cmd, g)
  PROVE  LET m == StepDispatch(t, slot, before, sent)
         IN /\ Stays(t.session, m.session)
            /\ m.control.terminal = t.control.terminal
            /\ DispatchActive(m.dispatch) => OnlyCall(m.dispatch.cmd, g)
            /\ m.ack.state = "waiting" => OnlyCall(m.ack.cmd, g)
<1> DEFINE next == DispatchStep(slot, t.session, sent)
           lost == DispatchActive(slot) /\ next.state \in {"failed", "timeout", "cancelled"}
           left == IF lost THEN DispatchFault(t.control, next, t.session) ELSE t.control.fault
           hung == /\ lost
                   /\ next.state # "cancelled"
                   /\ next.cmd.type = "hangup"
                   /\ next.cmd.generation = t.session.generation
           told == [t.control EXCEPT !.fault = left]
           fresh == DispatchActive(slot) /\ next.state = "sent"
           pick == [src |-> Local, dst |-> next.cmd.peer]
           echo == IF next.cmd.type \in {"answer", "call"}
                   THEN ReceivePick(pick, t.session, t.deadline)
                   ELSE Received(t.session, t.deadline, NoFlags)
           m == StepDispatch(t, slot, before, sent)
<1> SUFFICES /\ Stays(t.session, m.session)
             /\ m.control.terminal = t.control.terminal
             /\ DispatchActive(m.dispatch) => OnlyCall(m.dispatch.cmd, g)
             /\ m.ack.state = "waiting" => OnlyCall(m.ack.cmd, g)
  OBVIOUS
<1>1. /\ next.cmd = slot.cmd
      /\ DispatchActive(next) => DispatchActive(slot)
  BY DispatchStepSent
<1> HIDE DEF next
<1>2. ~hung
  BY <1>1 DEF OnlyCall
<1>3. told.terminal = t.control.terminal
  BY DEF Controls
<1> HIDE DEF told, pick
<1>4. Stays(t.session, echo.session) /\ Stays(t.session, t.session)
  BY ReceivePickKeeps DEF Received, Stays
<1> HIDE DEF echo
<1>5. /\ m.dispatch = next
      /\ m.session = IF fresh THEN echo.session ELSE t.session
      /\ m.ack = IF fresh THEN AwaitAck(next) ELSE t.ack
      /\ m.control = told
  BY <1>2 DEF StepDispatch, next, told, echo, pick
<1> HIDE DEF m
<1>6. AwaitAck(next).cmd = slot.cmd
  BY <1>1 DEF AwaitAck
<1> QED BY <1>1, <1>3, <1>4, <1>5, <1>6

LEMMA StepDispatchDated ==
  ASSUME NEW t, t.session \in Sessions, t.control \in Controls,
         NEW slot \in Dispatches, NEW before, NEW sent \in BOOLEAN
  PROVE  LET m == StepDispatch(t, slot, before, sent)
         IN /\ m.dispatch.cmd = slot.cmd
            /\ \/ m.control.terminal = t.control.terminal
               \/ m.control.terminal.generation = before.generation
<1> DEFINE next == DispatchStep(slot, t.session, sent)
           left == IF DispatchActive(slot) /\ next.state \in {"failed", "timeout", "cancelled"}
                   THEN DispatchFault(t.control, next, t.session) ELSE t.control.fault
           told == [t.control EXCEPT !.fault = left]
           over == RecordTerminal(told, "local_hangup", left, before.generation)
           m == StepDispatch(t, slot, before, sent)
<1> SUFFICES /\ m.dispatch.cmd = slot.cmd
             /\ \/ m.control.terminal = t.control.terminal
                \/ m.control.terminal.generation = before.generation
  OBVIOUS
<1>1. m.control \in {over, told} /\ m.dispatch = next
  BY DEF StepDispatch
<1>2. next.cmd = slot.cmd
  BY DispatchStepSent
<1> HIDE DEF m, next, left
<1>3. told.terminal = t.control.terminal
  BY DEF Controls
<1> HIDE DEF told
<1>4. over.terminal = told.terminal \/ over.terminal.generation = before.generation
  BY RecordDated
<1> HIDE DEF over
<1> QED BY <1>1, <1>2, <1>3, <1>4

\* The step of call control leaves a placed call, or ends it for a reason that
\* its peer brings about itself or can do nothing against.
LEMMA StepFromCalls ==
  ASSUME NEW x, Typed(x), NEW g, Calls(x, g),
         NEW sent1 \in BOOLEAN, NEW sent2 \in BOOLEAN, NEW sent3 \in BOOLEAN
  PROVE  \/ Calls(StepFrom(x, sent1, sent2, sent3), g)
         \/ Gone(StepFrom(x, sent1, sent2, sent3), g,
                 {"heartbeat_timeout", "session_timeout"})
<1> DEFINE t == StepTimers(x.session, x.deadline, x.ack, x.handshake, x.control)
           m == StepDispatch(t, x.dispatch, x.session, sent3)
           r == StepFrom(x, sent1, sent2, sent3)
<1>1. t.session \in Sessions /\ t.control \in Controls
  BY StepTimersType DEF Typed
<1>2. /\ \/ t.session = x.session /\ t.control.terminal = x.control.terminal
         \/ /\ Ends(x.session, t.session)
            /\ t.control.terminal.generation = x.session.generation
            /\ t.control.terminal.reason \in {"heartbeat_timeout", "session_timeout"}
      /\ t.ack.state = "waiting" => OnlyCall(t.ack.cmd, x.session.generation)
  BY StepTimersCalls DEF Typed, Calls
<1> HIDE DEF t
<1>3. /\ Stays(t.session, m.session)
      /\ m.control.terminal = t.control.terminal
      /\ DispatchActive(m.dispatch) => OnlyCall(m.dispatch.cmd, g)
      /\ m.ack.state = "waiting" => OnlyCall(m.ack.cmd, g)
  <2>1. /\ x.dispatch \in Dispatches
        /\ DispatchActive(x.dispatch) => OnlyCall(x.dispatch.cmd, g)
        /\ t.ack.state = "waiting" => OnlyCall(t.ack.cmd, g)
    BY <1>2 DEF Typed, Calls
  <2>2. LET n == StepDispatch(t, x.dispatch, x.session, sent3)
        IN /\ Stays(t.session, n.session)
           /\ n.control.terminal = t.control.terminal
           /\ DispatchActive(n.dispatch) => OnlyCall(n.dispatch.cmd, g)
           /\ n.ack.state = "waiting" => OnlyCall(n.ack.cmd, g)
    BY <1>1, <2>1, StepDispatchCalls
  <2> QED BY <2>2
<1> HIDE DEF m
<1>4. /\ r.session = m.session /\ r.ack = m.ack /\ r.dispatch = m.dispatch
      /\ r.control = m.control
  BY DEF StepFrom, StepSlots, StepDone, t, m
<1> HIDE DEF r
<1>5. CASE t.session = x.session /\ t.control.terminal = x.control.terminal
  <2>1. Calls(r, g)
    BY <1>3, <1>4, <1>5 DEF Calls, Stays
  <2> QED BY <2>1 DEF r
<1>6. CASE /\ Ends(x.session, t.session)
           /\ t.control.terminal.generation = x.session.generation
           /\ t.control.terminal.reason \in {"heartbeat_timeout", "session_timeout"}
  <2>1. Gone(r, g, {"heartbeat_timeout", "session_timeout"})
    BY <1>3, <1>4, <1>6 DEF Calls, Gone, Stays, Ends, Active
  <2> QED BY <2>1 DEF r
<1> QED BY <1>2, <1>5, <1>6

LEMMA StepFromDated ==
  ASSUME NEW x, Typed(x), Dated(x.session, x.control),
         NEW sent1 \in BOOLEAN, NEW sent2 \in BOOLEAN, NEW sent3 \in BOOLEAN
  PROVE  LET r == StepFrom(x, sent1, sent2, sent3)
         IN r.dispatch.cmd = x.dispatch.cmd /\ Dated(r.session, r.control)
<1> DEFINE s == x.session
           beat == HandshakeTick(x.handshake, s)
           run == RuntimeTick(x.ack, beat.session,
                              IF beat.disconnected THEN Disarmed ELSE x.deadline)
           t == StepTimers(s, x.deadline, x.ack, x.handshake, x.control)
           m == StepDispatch(t, x.dispatch, s, sent3)
           r == StepFrom(x, sent1, sent2, sent3)
<1> SUFFICES r.dispatch.cmd = x.dispatch.cmd /\ Dated(r.session, r.control)
  OBVIOUS
<1>1. t.session \in Sessions /\ t.control \in Controls
  BY StepTimersType DEF Typed
<1>2. Onward(s, t.session)
  BY StepTimersOnward DEF Typed
<1>3. t.control.terminal = x.control.terminal \/ t.control.terminal.generation = s.generation
  <2>1. t.control = Classify(x.control, s, run.session, run.flags, beat.disconnected,
                             run.expired)
    BY DEF StepTimers, TimersAfter
  <2> HIDE DEF run, beat, t
  <2> QED BY <2>1, ClassifyDated DEF Typed
<1> HIDE DEF t
<1>4. Onward(t.session, m.session)
  BY <1>1, StepDispatchOnward DEF Typed
<1>5. /\ m.dispatch.cmd = x.dispatch.cmd
      /\ \/ m.control.terminal = t.control.terminal
         \/ m.control.terminal.generation = s.generation
  BY <1>1, StepDispatchDated DEF Typed
<1> HIDE DEF m
<1>6. r.session = m.session /\ r.control = m.control /\ r.dispatch = m.dispatch
  BY DEF StepFrom, StepSlots, StepDone, t, m
<1> HIDE DEF r
<1>7. s.generation \in Nat
  BY SessionParts DEF Typed
<1> QED BY <1>2, <1>3, <1>4, <1>5, <1>6, <1>7 DEF Dated, Onward

-----------------------------------------------------------------------------
(* What a packet makes of a placed call *)

\* What became of the placed call s, in the session and in the flags.
WentOn(s, r) ==
  /\ r.session.generation = s.generation
  /\ r.flags.preempted = FALSE
  /\ \/ /\ r.session.state \in {"preview", "talking"}
        /\ r.flags.timedOut = FALSE
     \/ /\ r.session.state = "ended"
        /\ r.flags.timedOut = TRUE \/ r.flags.ended = TRUE

\* A packet that is no call to the household lets a placed call go on or ends it,
\* and the flags say how.
LEMMA ReceiveDatagramCalls ==
  ASSUME NEW f, ~IncomingCall(f), NEW s \in Sessions, s.state \in {"preview", "talking"},
         NEW d
  PROVE  WentOn(s, ReceiveDatagram(f, s, d))
<1> DEFINE Good(r) == WentOn(s, r)
<1>1. /\ Ended(s).state = "ended" /\ Ended(s).generation = s.generation
      /\ Active(s)
  BY PlacedActive DEF Ended, Sessions
<1>2. Good(Received(s, d, NoFlags))
  BY DEF Received, NoFlags, WentOn
<1>3. Good(ReceiveHangup(f, s, d))
  <2> DEFINE outbound == f.src = Local /\ f.dst = s.peer
             flags == [NoFlags EXCEPT !.ended = TRUE, !.local = outbound]
  <2>1. flags.preempted = FALSE /\ flags.ended = TRUE
    BY DEF NoFlags
  <2>2. ReceiveHangup(f, s, d) \in {Received(Ended(s), Disarmed, flags),
                                    Received(s, d, NoFlags)}
    BY DEF ReceiveHangup
  <2> HIDE DEF flags
  <2>3. Good(Received(Ended(s), Disarmed, flags))
    BY <1>1, <2>1 DEF Received, WentOn
  <2> HIDE DEF Good
  <2> QED BY <1>2, <2>2, <2>3
<1>4. Good(ReceiveTimeSync(f, s, d))
  <2> DEFINE t == DeadlineTick(Arm(s, f.left), s)
             flags == [NoFlags EXCEPT !.timedOut = t.timedOut]
  <2>1. t.timedOut \in BOOLEAN
    BY DEF DeadlineTick, DeadlineReached, DeadlineCurrent, Arm
  <2>2. t.session = IF t.timedOut THEN Ended(s) ELSE s
    BY DEF DeadlineTick
  <2>3. flags.preempted = FALSE /\ flags.timedOut = t.timedOut
    BY DEF NoFlags
  <2>4. ReceiveTimeSync(f, s, d) \in {Received(t.session, t.deadline, flags),
                                      Received(s, d, NoFlags)}
    BY DEF ReceiveTimeSync
  <2> HIDE DEF flags, t
  <2>5. Good(Received(t.session, t.deadline, flags))
    BY <1>1, <2>1, <2>2, <2>3 DEF Received, WentOn
  <2> HIDE DEF Good
  <2> QED BY <1>2, <2>4, <2>5
<1>5. Good(ReceivePick(f, s, d))
  <2> DEFINE p == [s EXCEPT !.pickGen = s.generation, !.pickLeft = PickTimeout]
  <2>1. p.state = s.state /\ p.generation = s.generation
    BY DEF Sessions
  <2>2. ReceivePick(f, s, d) \in {Received(p, d, NoFlags), Received(s, d, NoFlags)}
    BY DEF ReceivePick
  <2> HIDE DEF p
  <2>3. Good(Received(p, d, NoFlags))
    BY <2>1 DEF Received, NoFlags, WentOn
  <2> HIDE DEF Good
  <2> QED BY <1>2, <2>2, <2>3
<1>6. Good(ReceivePickAck(f, s, d))
  <2> DEFINE talking == [s EXCEPT !.state = "talking", !.pickGen = 0, !.pickLeft = 0]
             closed == [s EXCEPT !.pickGen = 0]
  <2>1. /\ talking.state = "talking" /\ talking.generation = s.generation
        /\ closed.state = s.state /\ closed.generation = s.generation
    BY DEF Sessions
  <2>2. ReceivePickAck(f, s, d) \in {Received(talking, Arm(talking, TalkTimeout), NoFlags),
                                     Received(closed, d, NoFlags),
                                     Received(s, d, NoFlags)}
    BY DEF ReceivePickAck
  <2> HIDE DEF talking, closed
  <2>3. /\ Good(Received(talking, Arm(talking, TalkTimeout), NoFlags))
        /\ Good(Received(closed, d, NoFlags))
    BY <2>1 DEF Received, NoFlags, WentOn
  <2> HIDE DEF Good
  <2> QED BY <1>2, <2>2, <2>3
<1>7. f.kind = "call" => ReceiveCall(f, s, d) = Received(s, d, NoFlags)
  BY DEF ReceiveCall, IncomingCall
<1> HIDE DEF Good
<1>8. Good(ReceiveDatagram(f, s, d))
  BY <1>2, <1>3, <1>4, <1>5, <1>6, <1>7 DEF ReceiveDatagram
<1> QED BY <1>8 DEF Good

\* What an acknowledgement that is not a hangup's can come to.
LEMMA AckTickCalls ==
  ASSUME NEW a \in Acks, NEW g, a.state = "waiting" => OnlyCall(a.cmd, g), NEW s
  PROVE  LET k == AckTick(a, s)
         IN /\ HangupOver(a, k) = FALSE
            /\ k \in Acks
            /\ k.state = "waiting" => OnlyCall(k.cmd, g)
            /\ k.state = "waiting" => a.state = "waiting"
<1>1. AckTick(a, s) \in Acks
  BY AckTickType
<1> QED BY <1>1 DEF HangupOver, AckTick, AckResolved, Acks, OnlyCall

LEMMA RuntimeReceiveCalls ==
  ASSUME NEW a \in Acks, NEW g, a.state = "waiting" => OnlyCall(a.cmd, g),
         NEW f, ~IncomingCall(f), NEW s \in Sessions, s.state \in {"preview", "talking"},
         NEW d
  PROVE  LET r == RuntimeReceive(a, f, s, d)
         IN /\ WentOn(s, r)
            /\ r.ack.state = "waiting" => OnlyCall(r.ack.cmd, g)
<1> DEFINE told == AckTick(a, s)
           r == ReceiveDatagram(f, s, d)
           yes == AckResolved(told, "confirmed")
           both == [r.flags EXCEPT !.local = @ \/ FALSE]
           exp == a.state = "waiting" /\ told.state = "expired"
           Done3(k, t, e, flags) ==
             [ok |-> TRUE, ack |-> k, session |-> t, deadline |-> e,
              expired |-> exp, flags |-> flags]
           q == RuntimeReceive(a, f, s, d)
           Fine(k) == k.state = "waiting" => OnlyCall(k.cmd, g)
<1> SUFFICES WentOn(s, q) /\ Fine(q.ack)
  OBVIOUS
<1>1. LET k == AckTick(a, s)
      IN /\ HangupOver(a, k) = FALSE
         /\ k \in Acks
         /\ k.state = "waiting" => OnlyCall(k.cmd, g)
         /\ k.state = "waiting" => a.state = "waiting"
  BY AckTickCalls
<1>2. HangupOver(a, told) = FALSE /\ told \in Acks /\ Fine(told) /\ Fine(a)
  BY <1>1
<1>3. ~(AckConfirmed(told, s, f) /\ told.cmd.type = "hangup")
  BY <1>2 DEF AckConfirmed, OnlyCall
<1>4. q = IF ExpectedAck(told, f)
          THEN IF ~AckConfirmed(told, s, f) THEN Done3(told, s, d, NoFlags)
               ELSE Done3(yes, r.session, r.deadline, r.flags)
          ELSE IF ~r.ok THEN [Done3(a, s, d, NoFlags) EXCEPT !.ok = FALSE]
          ELSE Done3(AckTick(told, r.session), r.session, r.deadline, both)
  BY <1>2, <1>3 DEF RuntimeReceive
<1>5. WentOn(s, r)
  BY ReceiveDatagramCalls
<1>6. /\ \A k, e : WentOn(s, Done3(k, s, e, NoFlags))
      /\ WentOn(s, [Done3(a, s, d, NoFlags) EXCEPT !.ok = FALSE])
  BY DEF WentOn, NoFlags
<1>7. Fine(yes)
  BY <1>2 DEF AckResolved, Acks
<1> HIDE DEF told
<1>8. Fine(AckTick(told, r.session))
  <2>1. LET k == AckTick(told, r.session)
        IN /\ HangupOver(told, k) = FALSE
           /\ k \in Acks
           /\ k.state = "waiting" => OnlyCall(k.cmd, g)
           /\ k.state = "waiting" => told.state = "waiting"
    BY <1>2, AckTickCalls
  <2> QED BY <2>1
<1>9. /\ both.preempted = r.flags.preempted /\ both.timedOut = r.flags.timedOut
      /\ both.ended = r.flags.ended
  OBVIOUS
<1> HIDE DEF both, r, yes
<1>10. \A k, e : /\ WentOn(s, Done3(k, r.session, e, r.flags))
                 /\ WentOn(s, Done3(k, r.session, e, both))
  BY <1>5, <1>9 DEF WentOn
<1>11. /\ \A k, t, e, flags : Done3(k, t, e, flags).ack = k
       /\ [Done3(a, s, d, NoFlags) EXCEPT !.ok = FALSE].ack = a
  OBVIOUS
<1> HIDE DEF Fine, exp, q, Done3
<1> QED BY <1>2, <1>4, <1>6, <1>7, <1>8, <1>10, <1>11

\* The packets that end a placed call, and what is put on record of it.
PacketReasons == {"peer_hangup", "local_hangup", "session_timeout"}

LEMMA ReceiveFromCalls ==
  ASSUME NEW y \in Worlds, NEW g, Calls(y, g), NEW f, ~IncomingCall(f)
  PROVE  LET x == ReceiveFrom(y, f).to
         IN Calls(x, g) \/ Gone(x, g, PacketReasons)
<1> DEFINE x == ReceiveFrom(y, f).to
<1> SUFFICES Calls(x, g) \/ Gone(x, g, PacketReasons)
  OBVIOUS
<1> Typed(y)
  BY WorldParts
<1>1. CASE f.kind \in {"ask", "reply"}
  <2>1. /\ x.session = y.session /\ x.ack = y.ack /\ x.dispatch = y.dispatch
        /\ x.control = y.control
    BY <1>1 DEF ReceiveFrom, ReceiveHeartbeat, Worlds
  <2> HIDE DEF x
  <2> QED BY <2>1 DEF Calls
<1>2. CASE f.kind \notin {"ask", "reply"}
  <2> DEFINE s == y.session
             r == RuntimeReceive(y.ack, f, s, y.deadline)
             c == Classify(y.control, s, r.session, r.flags, FALSE, r.expired)
             why == IF r.expired THEN "confirmation_timeout" ELSE "none"
  <2>1. /\ x.session = r.session /\ x.ack = r.ack /\ x.dispatch = y.dispatch
        /\ x.control = c
    BY <1>2 DEF ReceiveFrom, ReceiveControl, ControlReceived, Worlds
  <2> HIDE DEF x
  <2>2. /\ s \in Sessions /\ s.state \in {"preview", "talking"} /\ y.ack \in Acks
        /\ s.generation = g
        /\ y.ack.state = "waiting" => OnlyCall(y.ack.cmd, g)
        /\ y.control \in Controls /\ y.control.terminal.generation < g
    BY DEF Typed, Calls
  <2> HIDE DEF s
  <2>3. /\ r.session.generation = g
        /\ r.ack.state = "waiting" => OnlyCall(r.ack.cmd, g)
        /\ r.flags.preempted = FALSE
        /\ \/ /\ r.session.state \in {"preview", "talking"}
              /\ r.flags.timedOut = FALSE
           \/ /\ r.session.state = "ended"
              /\ r.flags.timedOut = TRUE \/ r.flags.ended = TRUE
    <3>1. LET q == RuntimeReceive(y.ack, f, s, y.deadline)
          IN /\ WentOn(s, q)
             /\ q.ack.state = "waiting" => OnlyCall(q.ack.cmd, g)
      BY <2>2, RuntimeReceiveCalls
    <3> HIDE DEF r
    <3> QED BY <2>2, <3>1 DEF WentOn, r
  <2>4. y.control.terminal.generation # g /\ g # 0
    BY <2>2, SessionParts DEF Controls, Terminals, Generations
  <2>5. \A reason, fine :
          /\ RecordTerminal(y.control, reason, fine, g).terminal.generation = g
          /\ RecordTerminal(y.control, reason, fine, g).terminal.reason = reason
    BY <2>4, RecordTerminalFirst
  <2>6. Active(s)
    BY <2>2, PlacedActive
  <2> HIDE DEF r
  <2>7. CASE r.session.state \in {"preview", "talking"} /\ r.flags.timedOut = FALSE
    <3>1. \A fine : [y.control EXCEPT !.fault = fine].terminal = y.control.terminal
      BY <2>2 DEF Controls
    <3>2. c.terminal = y.control.terminal
      BY <2>3, <2>6, <2>7, <3>1 DEF Classify
    <3> HIDE DEF c
    <3>3. x.dispatch = y.dispatch /\ (DispatchActive(y.dispatch) => OnlyCall(y.dispatch.cmd, g))
      BY <2>1 DEF Calls
    <3> QED BY <2>1, <2>2, <2>3, <2>7, <3>2, <3>3 DEF Calls
  <2>8. CASE r.session.state = "ended" /\ (r.flags.timedOut = TRUE \/ r.flags.ended = TRUE)
    <3>1. c \in {RecordTerminal(y.control, "session_timeout", "none", g),
                 RecordTerminal(y.control, "local_hangup", why, g),
                 RecordTerminal(y.control, "peer_hangup", why, g)}
      BY <2>2, <2>3, <2>6, <2>8 DEF Classify
    <3> HIDE DEF c, why
    <3>2. c.terminal.generation = g /\ c.terminal.reason \in PacketReasons
      BY <2>5, <3>1 DEF PacketReasons
    <3> QED BY <2>1, <2>3, <2>8, <3>2 DEF Gone, Active
  <2> QED BY <2>3, <2>7, <2>8
<1> QED BY <1>1, <1>2

LEMMA ReceiveFromDated ==
  ASSUME NEW y \in Worlds, Dated(y.session, y.control), NEW f, Framed(f)
  PROVE  LET x == ReceiveFrom(y, f).to
         IN x.dispatch = y.dispatch /\ Dated(x.session, x.control)
<1> DEFINE x == ReceiveFrom(y, f).to
<1> SUFFICES x.dispatch = y.dispatch /\ Dated(x.session, x.control)
  OBVIOUS
<1> Typed(y)
  BY WorldParts
<1>1. CASE f.kind \in {"ask", "reply"}
  <2>1. x.session = y.session /\ x.dispatch = y.dispatch /\ x.control = y.control
    BY <1>1 DEF ReceiveFrom, ReceiveHeartbeat, Worlds
  <2> HIDE DEF x
  <2> QED BY <2>1
<1>2. CASE f.kind \notin {"ask", "reply"}
  <2> DEFINE r == RuntimeReceive(y.ack, f, y.session, y.deadline)
             no == FALSE
             c == Classify(y.control, y.session, r.session, r.flags, no, r.expired)
  <2>1. x.session = r.session /\ x.dispatch = y.dispatch /\ x.control = c
    BY <1>2 DEF ReceiveFrom, ReceiveControl, ControlReceived, Worlds
  <2> HIDE DEF no
  <2> HIDE DEF x
  <2>2. Later(y.session, r.session)
    BY RuntimeReceiveLater DEF Typed
  <2> HIDE DEF r
  <2>3. c.terminal = y.control.terminal \/ c.terminal.generation = y.session.generation
    BY ClassifyDated DEF Typed
  <2> HIDE DEF c
  <2>4. y.session.generation \in Nat /\ y.control.terminal.generation \in Nat
    BY SessionParts, MediaCounts DEF Typed, Controls, Terminals
  <2>5. \/ r.session.generation = y.session.generation
        \/ r.session.generation = y.session.generation + 1
    BY <2>2 DEF Later, Onward, Fresh
  <2> QED BY <2>1, <2>3, <2>4, <2>5 DEF Dated
<1> QED BY <1>1, <1>2

-----------------------------------------------------------------------------
(* The end of an operation and its hangup *)

\* The hangup of call g is the last command of the slot.
Hung(z, g) == z.dispatch.cmd.type = "hangup" /\ z.dispatch.cmd.generation = g

\* Cancelling frees the slot of a placed call and forgets no command.
LEMMA CancelFrees ==
  ASSUME NEW y \in Worlds, NEW g
  PROVE  /\ CancelCommands(y, g).dispatch.cmd = y.dispatch.cmd
         /\ Calls(y, g) => Free(CancelCommands(y, g))
<1> DEFINE c == CancelCommands(y, g)
           d == Superseded(y.dispatch, g)
           a == AckSuperseded(y.ack, g)
<1> Typed(y)
  BY WorldParts
<1>1. /\ d.cmd = y.dispatch.cmd
      /\ y.dispatch.cmd.generation = g => ~DispatchActive(d)
      /\ y.dispatch.cmd.generation # g => d = y.dispatch
      /\ y.ack.cmd.generation = g => a.state # "waiting"
      /\ y.ack.cmd.generation # g => a = y.ack
  BY DEF Superseded, Finish, AckSuperseded, AckResolved, DispatchActive, Typed,
         Dispatches, Acks
<1> HIDE DEF d, a
<1>2. g # 0 => c.dispatch = d /\ c.ack = a
  BY DEF CancelCommands, Worlds, d, a
<1>3. g = 0 => c = y
  BY DEF CancelCommands
<1>4. Calls(y, g) => g # 0
  <2>1. y.session.generation \in Nat
    BY SessionParts DEF Typed, Generations
  <2>2. y.control.terminal.generation \in Nat
    BY DEF Typed, Controls, Terminals, Generations
  <2> QED BY <2>1, <2>2 DEF Calls
<1> HIDE DEF c
<1>5. c.dispatch.cmd = y.dispatch.cmd
  BY <1>1, <1>2, <1>3
<1>6. Calls(y, g) => Free(c)
  BY <1>1, <1>2, <1>4 DEF Calls, Free, OnlyCall
<1> QED BY <1>5, <1>6 DEF c

\* What an operation that ends without a hangup leaves behind.
Closed(y, z, reason) ==
  /\ Finished(z.op)
  /\ z.op.reason = reason
  /\ z.dispatch.cmd = y.dispatch.cmd
  /\ Dated(y.session, y.control) => Dated(z.session, z.control)

LEMMA ConcludeCloses ==
  ASSUME NEW y, Whole(y), y.op.station \in Registered,
         NEW verdict \in Verdicts, NEW stops \in BOOLEAN
  PROVE  Closed(y, Conclude(y, verdict, stops), verdict.reason)
<1> DEFINE reason == verdict.reason
           why == verdict.fault
           c == ReleaseControl(y, reason, why)
           clean == Cleanup(c, reason, stops)
           t == clean.to
           n == Settled(Judged(t.op, verdict.error \/ ~clean.ok, verdict, ~clean.ok))
           z == Conclude(y, verdict, stops)
<1> y \in Worlds /\ Kept(y) /\ Typed(y)
  BY WorldParts DEF Whole
<1>1. reason \in EndReasons /\ why \in Faults
  BY DEF Verdicts
<1>2. LET x == ReleaseControl(y, reason, why)
      IN /\ x \in Worlds
         /\ x.op = y.op /\ x.media = y.media /\ x.last = y.last
         /\ x.session = IF OwnerMatches(y) THEN Abort(y.session) ELSE y.session
         /\ OwnerMatches(y) => /\ x.control.terminal.generation = y.op.call
                               /\ x.control.terminal.reason = reason
         /\ ~OwnerMatches(y) => x.control = y.control
  BY <1>1, ReleaseControlIs
<1>3. c.dispatch.cmd = y.dispatch.cmd
  <2>1. c.dispatch = CancelCommands(y, y.op.call).dispatch
    <3>1. CancelCommands(y, y.op.call) \in Worlds
      BY CancelIs
    <3> QED BY <3>1 DEF ReleaseControl, Worlds
  <2> QED BY <2>1, CancelFrees
<1>4. /\ c \in Worlds /\ c.op = y.op /\ c.media = y.media
      /\ c.session = IF OwnerMatches(y) THEN Abort(y.session) ELSE y.session
      /\ OwnerMatches(y) => c.control.terminal.generation = y.op.call
      /\ ~OwnerMatches(y) => c.control = y.control
  BY <1>2
<1> HIDE DEF c, reason, why
<1>5. Cleaned(c, Cleanup(c, reason, stops))
  <2>1. c.op.station \in Registered /\ Fetched(c.op, c.media)
    BY <1>4 DEF Kept
  <2> QED BY <1>4, <2>1, CleanupIs
<1>6. t \in Worlds /\ t.session = c.session /\ t.control = c.control
  BY <1>5 DEF Cleaned
<1>7. t.dispatch = c.dispatch
  BY <1>4 DEF Cleanup, Worlds
<1>8. z = [t EXCEPT !.op = n]
  BY <1>6 DEF Conclude, Concluded, Worlds, c, reason, why
<1> HIDE DEF clean, n
<1>9. z.dispatch = t.dispatch /\ z.session = t.session /\ z.control = t.control
  BY <1>6, <1>8 DEF Worlds
<1> HIDE DEF z
<1>10. Dated(y.session, y.control) => Dated(z.session, z.control)
  <2>1. Abort(y.session).generation = y.session.generation /\ y.session.generation \in Nat
    BY EndedOnward, SessionParts DEF Typed, Onward
  <2>2. CASE OwnerMatches(y)
    BY <1>4, <1>6, <1>9, <2>1, <2>2 DEF Dated, OwnerMatches
  <2>3. CASE ~OwnerMatches(y)
    BY <1>4, <1>6, <1>9, <2>3
  <2> QED BY <2>2, <2>3
<1>11. LET w == Conclude(y, verdict, stops)
       IN /\ w \in Worlds
          /\ Kept(w)
          /\ Over(y.op, w.op, verdict)
          /\ w.session.generation = y.session.generation
  BY ConcludeIs
<1>12. Finished(z.op) /\ z.op.reason = reason
  BY <1>11 DEF Over, Finished, z, reason
<1> QED BY <1>3, <1>6, <1>7, <1>9, <1>10, <1>12 DEF Closed, z, reason

\* How an operation ends: it tells its peer, which it does whenever it can, or
\* it is over for this reason, or for the one that it was ending for.
EndsAs(y, z, error, reason) ==
  /\ Dated(y.session, y.control) => Dated(z.session, z.control)
  /\ \/ /\ Tells(y, error, reason)
        /\ z.op.stage = "ending" /\ y.op.stage # "ending" /\ Hung(z, y.op.call)
     \/ /\ Finished(z.op)
        /\ z.dispatch.cmd = y.dispatch.cmd
        /\ y.op.stage # "ending" => z.op.reason = reason
        /\ ~(Tells(y, error, reason) /\ Calls(y, y.op.call))

LEMMA EndOperationEnds ==
  ASSUME NEW y, Whole(y), y.op.station \in Registered, NEW error \in BOOLEAN,
         NEW reason \in EndReasons, NEW why \in Faults, NEW stops \in BOOLEAN
  PROVE  EndsAs(y, EndOperation(y, error, reason, why, stops), error, reason)
<1> DEFINE c == CancelCommands(y, y.op.call)
           q == Queued(CommandFor("hangup", y.session))
           n == [y.op EXCEPT !.stage = "ending", !.left = EndTimeout, !.error = TRUE,
                             !.reason = reason, !.fault = why]
           x == [c EXCEPT !.dispatch = q, !.op = n]
           v == Verdict(y.op, error, reason, why)
           over == Conclude(y, v, stops)
           z == EndOperation(y, error, reason, why, stops)
<1> y \in Worlds /\ Kept(y) /\ y.op \in Operations
  BY WorldParts DEF Whole
<1>1. LET d == CancelCommands(y, y.op.call)
      IN /\ d \in Worlds
         /\ d.op = y.op /\ d.media = y.media /\ d.last = y.last
         /\ d.session = y.session /\ d.control = y.control
  BY CancelIs
<1>2. /\ c \in Worlds /\ c.op = y.op /\ c.session = y.session /\ c.control = y.control
  BY <1>1
<1>3. Calls(y, y.op.call) => Free(c)
  BY CancelFrees
<1>4. z = IF Tells(y, error, reason) /\ Free(c) THEN x ELSE over
  BY <1>2 DEF EndOperation
<1> HIDE DEF c
<1>5. v \in Verdicts /\ (y.op.stage # "ending" => v.reason = reason)
  BY VerdictType DEF Verdict
<1> HIDE DEF v
<1>6. Closed(y, over, v.reason)
  BY <1>5, ConcludeCloses
<1> HIDE DEF over
<1>7. CASE Tells(y, error, reason) /\ Free(c)
  <2>1. q.cmd.type = "hangup" /\ q.cmd.generation = y.session.generation
    BY DEF Queued, CommandFor
  <2> HIDE DEF q
  <2>2. n.stage = "ending"
    BY DEF Operations
  <2> HIDE DEF n
  <2>3. /\ x.dispatch = q /\ x.op = n /\ x.session = y.session /\ x.control = y.control
    BY <1>2 DEF Worlds
  <2> HIDE DEF x
  <2> QED BY <1>4, <1>7, <2>1, <2>2, <2>3 DEF EndsAs, Hung, Tells, OwnerMatches
<1>8. CASE ~(Tells(y, error, reason) /\ Free(c))
  <2> HIDE DEF x
  <2> QED BY <1>3, <1>4, <1>5, <1>6, <1>8 DEF EndsAs, Closed
<1> QED BY <1>7, <1>8

\* What the station of call g was told of it: the call still runs, or its hangup
\* was queued, or it is over for a reason that the station needs not be told.
Accounted(z, g, R) ==
  \/ Under(z.op) /\ z.op.sent /\ z.op.call = g
  \/ (z.op.stage = "ending" \/ Finished(z.op)) /\ Hung(z, g)
  \/ Finished(z.op) /\ z.op.reason \in R

\* The world that a step of the operation leaves.
Steady(z) ==
  /\ Dated(z.session, z.control)
  /\ Under(z.op) => /\ OwnerMatches(z)
                    /\ Calls(z, z.op.call)
                    /\ Keyed(z.media, z.op.station, z.op.media)

\* The media of a call that another call took over are the operation's, or they
\* are not at fault.
Taken(y) ==
  \/ Keyed(y.media, y.op.station, y.op.media)
  \/ LET m == y.media[y.op.station]
     IN m.active /\ m.state # "failed" /\ m.pending = "none"

\* The world that a step of the operation finds.
Finds(y, R) ==
  /\ Dated(y.session, y.control)
  /\ Under(y.op) =>
       \/ OwnerMatches(y) /\ Calls(y, y.op.call)
       \/ /\ OwnerMatches(y) /\ Gone(y, y.op.call, R)
          /\ Keyed(y.media, y.op.station, y.op.media)
       \/ ~OwnerMatches(y) /\ Taken(y)

Good(y, z, g, R) == Steady(z) /\ (Accounted(y, g, R) => Accounted(z, g, R))

\* An operation that ends is accounted for if its reason excuses it or if it
\* could tell its peer.
LEMMA EndsAsGood ==
  ASSUME NEW y, NEW z, NEW error, NEW reason, NEW g, NEW R, OpActive(y.op),
         EndsAs(y, z, error, reason), Dated(y.session, y.control),
         Under(y.op) /\ y.op.sent
           => reason \in R \/ (Tells(y, error, reason) /\ Calls(y, y.op.call))
  PROVE  Good(y, z, g, R)
<1>1. Steady(z)
  BY DEF EndsAs, Steady, Finished, Under
<1>2. ASSUME Accounted(y, g, R)
      PROVE  Accounted(z, g, R)
  <2>1. CASE z.op.stage = "ending" /\ y.op.stage # "ending" /\ Hung(z, y.op.call)
    BY <1>2, <2>1 DEF Accounted, OpActive, Under, Finished
  <2>2. CASE /\ Finished(z.op)
             /\ z.dispatch.cmd = y.dispatch.cmd
             /\ y.op.stage # "ending" => z.op.reason = reason
             /\ ~(Tells(y, error, reason) /\ Calls(y, y.op.call))
    BY <1>2, <2>2 DEF Accounted, OpActive, Under, Finished, Hung
  <2> QED BY <2>1, <2>2 DEF EndsAs
<1> QED BY <1>1, <1>2 DEF Good

LEMMA EndGood ==
  ASSUME NEW y, Whole(y), OpActive(y.op), y.op.station \in Registered,
         NEW error \in BOOLEAN, NEW reason \in EndReasons, NEW why \in Faults,
         NEW stops \in BOOLEAN, NEW g, NEW R, Dated(y.session, y.control),
         Under(y.op) /\ y.op.sent
           => reason \in R \/ (Tells(y, error, reason) /\ Calls(y, y.op.call))
  PROVE  Good(y, EndOperation(y, error, reason, why, stops), g, R)
<1> DEFINE z == EndOperation(y, error, reason, why, stops)
<1>1. EndsAs(y, z, error, reason)
  BY EndOperationEnds
<1> HIDE DEF z
<1>2. Good(y, z, g, R)
  BY <1>1, EndsAsGood
<1> QED BY <1>2 DEF z

\* The same of an operation that fails: a call that is under way tells its peer
\* unless it makes way for another.
LEMMA FailsGood ==
  ASSUME NEW y, Whole(y), OpActive(y.op), y.op.station \in Registered,
         NEW reason \in EndReasons, NEW why \in Faults,
         NEW stops \in BOOLEAN, NEW g, NEW R, Dated(y.session, y.control),
         Under(y.op) /\ y.op.sent
           => \/ reason \in R
              \/ /\ OwnerMatches(y) /\ Calls(y, y.op.call)
                 /\ reason \notin {"preempted", "runtime_reset"}
  PROVE  Good(y, EndOperation(y, TRUE, reason, why, stops), g, R)
<1> DEFINE yes == TRUE
<1>1. yes \in BOOLEAN /\ yes
  OBVIOUS
<1> HIDE DEF yes
<1>2. Under(y.op) /\ y.op.sent
        => reason \in R \/ (Tells(y, yes, reason) /\ Calls(y, y.op.call))
  BY <1>1, PlacedActive DEF Tells, Calls, Under
<1>3. Good(y, EndOperation(y, yes, reason, why, stops), g, R)
  BY <1>1, <1>2, EndGood
<1> QED BY <1>3 DEF yes

\* What the operation remembers of who asked for its preview does not matter.
Alike(y, z) ==
  /\ z.op.stage = y.op.stage /\ z.op.station = y.op.station
  /\ z.op.media = y.op.media /\ z.op.call = y.op.call
  /\ z.op.sent = y.op.sent /\ z.op.reason = y.op.reason
  /\ z.session = y.session /\ z.media = y.media /\ z.control = y.control
  /\ z.dispatch = y.dispatch /\ z.ack = y.ack

LEMMA SeenAlike ==
  ASSUME NEW y \in Worlds, NEW owns
  PROVE  Alike(y, [y EXCEPT !.op.owns = owns])
<1> DEFINE n == [y.op EXCEPT !.owns = owns]
           z == [y EXCEPT !.op = n]
<1> y.op \in Operations
  BY WorldParts
<1>1. /\ n.stage = y.op.stage /\ n.station = y.op.station
      /\ n.media = y.op.media /\ n.call = y.op.call /\ n.sent = y.op.sent
      /\ n.reason = y.op.reason
  BY DEF Operations
<1>2. [y EXCEPT !.op.owns = owns] = z
  BY DEF Worlds
<1> HIDE DEF n
<1>3. /\ z.op = n /\ z.session = y.session /\ z.media = y.media
      /\ z.control = y.control /\ z.dispatch = y.dispatch /\ z.ack = y.ack
  BY DEF Worlds
<1> QED BY <1>1, <1>2, <1>3 DEF Alike

LEMMA AlikeGood ==
  ASSUME NEW y, NEW x, Alike(y, x), NEW R
  PROVE  /\ Finds(y, R) => Finds(x, R)
         /\ \A z, g : Good(x, z, g, R) => Good(y, z, g, R)
<1>1. /\ OwnerMatches(x) <=> OwnerMatches(y)
      /\ Under(x.op) <=> Under(y.op)
      /\ Finished(x.op) <=> Finished(y.op)
      /\ \A g : Hung(x, g) <=> Hung(y, g)
      /\ \A g : Calls(x, g) <=> Calls(y, g)
      /\ \A g : Gone(x, g, R) <=> Gone(y, g, R)
      /\ Taken(x) <=> Taken(y)
  BY DEF Alike, OwnerMatches, Under, Finished, Hung, Calls, Gone, Taken
<1>2. Finds(y, R) => Finds(x, R)
  BY <1>1 DEF Finds, Alike
<1>3. \A g : Accounted(y, g, R) => Accounted(x, g, R)
  BY <1>1 DEF Accounted, Alike
<1> QED BY <1>2, <1>3 DEF Good

LEMMA StepOverGood ==
  ASSUME NEW y, Whole(y), OpActive(y.op), y.op.station \in Registered,
         OwnerMatches(y), NEW R, Finds(y, R), ~Active(y.session),
         NEW stops \in BOOLEAN, NEW g
  PROVE  Good(y, StepOver(y, stops), g, R)
<1> DEFINE t == y.control.terminal
           known == t.generation = y.op.call
           bad == y.op.error \/ (known /\ t.fault # "none")
           reason == IF known THEN t.reason ELSE "unknown"
           why == IF known THEN t.fault ELSE "unknown"
<1>1. t \in Terminals
  BY WorldParts DEF Whole, Typed, Controls
<1>2. y.op.error \in BOOLEAN
  BY WorldParts DEF Whole, Operations
<1>3. bad \in BOOLEAN /\ reason \in EndReasons /\ why \in Faults
  BY <1>1, <1>2 DEF Terminals, EndReasons, Faults
<1>4. StepOver(y, stops) = EndOperation(y, bad, reason, why, stops)
  BY DEF StepOver
<1>5. Under(y.op) => reason \in R
  BY PlacedActive DEF Finds, Calls, Gone
<1> HIDE DEF bad, reason, why
<1> QED BY <1>3, <1>4, <1>5, EndGood DEF Finds

LEMMA StepCallGood ==
  ASSUME NEW y, Whole(y), OpActive(y.op), y.op.station \in Registered,
         y.op.stage # "preparing", OwnerMatches(y), NEW R, Finds(y, R),
         y.op.stage # "ending" => Keyed(y.media, y.op.station, y.op.media),
         NEW m, NEW stops \in BOOLEAN, NEW g
  PROVE  Good(y, StepCall(y, m, stops), g, R)
<1> DEFINE End(reason, why) == EndOperation(y, TRUE, reason, why, stops)
           talking == [y EXCEPT !.op.stage = "talking"]
<1>1. CASE ~Active(y.session)
  BY <1>1, StepOverGood DEF StepCall
<1>2. CASE Active(y.session)
  <2>0. Under(y.op) => Calls(y, y.op.call)
    BY <1>2 DEF Finds, Gone
  <2>1. y.control.fault \in Faults
    BY WorldParts DEF Whole, Typed, Controls
  <2>2. \A reason \in EndReasons, why \in Faults :
          reason \notin {"preempted", "runtime_reset"} => Good(y, End(reason, why), g, R)
    BY <2>0, FailsGood DEF Finds
  <2> HIDE DEF End
  <2>3. /\ Good(y, End("unknown", "unknown"), g, R)
        /\ Good(y, End("unknown", y.control.fault), g, R)
        /\ Good(y, End("confirmation_timeout", "confirmation_timeout"), g, R)
        /\ Good(y, End("local_hangup", "dispatch_timeout"), g, R)
    BY <2>1, <2>2 DEF EndReasons, Faults
  <2>4. Steady(y) /\ Good(y, y, g, R)
    BY <2>0 DEF Good, Steady, Finds, OpActive, Under
  <2>5. y.session.state = "talking" /\ y.op.stage # "ending" => Good(y, talking, g, R)
    <3> SUFFICES ASSUME y.op.stage # "ending"
                 PROVE  Good(y, talking, g, R)
      OBVIOUS
    <3> DEFINE n == [y.op EXCEPT !.stage = "talking"]
    <3> y \in Worlds /\ y.op \in Operations
      BY WorldParts DEF Whole
    <3>1. /\ n.stage = "talking" /\ n.station = y.op.station /\ n.media = y.op.media
          /\ n.call = y.op.call /\ n.sent = y.op.sent
      BY DEF Operations
    <3>2. talking = [y EXCEPT !.op = n]
      BY DEF Worlds
    <3> HIDE DEF n
    <3>3. /\ talking.op = n /\ talking.media = y.media /\ talking.session = y.session
          /\ talking.control = y.control /\ talking.dispatch = y.dispatch
          /\ talking.ack = y.ack
      BY <3>2 DEF Worlds
    <3> HIDE DEF talking
    <3>4. Under(y.op) /\ Under(talking.op)
      BY <3>1, <3>3 DEF Under, OpActive
    <3>5. OwnerMatches(talking) /\ Calls(talking, y.op.call)
      BY <2>0, <3>1, <3>3, <3>4 DEF OwnerMatches, Calls
    <3>6. Steady(talking)
      BY <2>4, <3>1, <3>3, <3>4, <3>5 DEF Steady
    <3>7. Accounted(y, g, R) => Accounted(talking, g, R)
      BY <3>1, <3>3, <3>4 DEF Accounted, Under, Finished
    <3> QED BY <3>6, <3>7 DEF Good
  <2>6. \/ StepCall(y, m, stops) \in {y, End("unknown", "unknown"),
                                      End("unknown", y.control.fault),
                                      End("confirmation_timeout", "confirmation_timeout"),
                                      End("local_hangup", "dispatch_timeout")}
        \/ /\ y.session.state = "talking" /\ y.op.stage # "ending"
           /\ StepCall(y, m, stops) = talking
    BY <1>2 DEF StepCall, End
  <2> HIDE DEF talking
  <2> QED BY <2>3, <2>4, <2>5, <2>6
<1> QED BY <1>1, <1>2

LEMMA StepSentGood ==
  ASSUME NEW y, Whole(y), OpActive(y.op), y.op.station \in Registered,
         y.op.stage # "preparing", OwnerMatches(y), NEW R, Finds(y, R),
         y.op.stage # "ending" => Keyed(y.media, y.op.station, y.op.media),
         NEW m, NEW stops \in BOOLEAN, NEW g
  PROVE  Good(y, StepSent(y, m, stops), g, R)
<1> DEFINE fresh == ~y.op.sent /\ y.dispatch.state = "sent" /\ y.dispatch.cmd.type = "call"
           mark == MarkSent(y.media, y.op.station, y.op.media, y.op.call)
           told == [y EXCEPT !.op.sent = TRUE, !.media = mark.media]
           end == EndOperation(told, TRUE, "unknown", "unknown", stops)
<1>1. CASE ~fresh
  BY <1>1, StepCallGood DEF StepSent
<1>2. CASE fresh
  <2>1. StepSent(y, m, stops) \in {StepCall(told, m, stops), end}
    BY <1>2 DEF StepSent
  <2>2. Whole(told) /\ Knows(y, told)
    BY ToldIs
  <2> HIDE DEF told
  <2>3. ~Accounted(y, g, R)
    BY <1>2 DEF Accounted, Hung, Finished, OpActive
  <2>4. /\ OwnerMatches(told) <=> OwnerMatches(y)
        /\ Under(told.op) <=> Under(y.op)
        /\ Calls(told, told.op.call) <=> Calls(y, y.op.call)
        /\ Gone(told, told.op.call, R) <=> Gone(y, y.op.call, R)
        /\ Keyed(told.media, told.op.station, told.op.media)
             <=> Keyed(y.media, y.op.station, y.op.media)
    BY <2>2 DEF Knows, OwnerMatches, Under, Calls, Gone, Keyed
  <2>5. Finds(told, R)
    BY <2>2, <2>4 DEF Finds, Knows
  <2>6. /\ OpActive(told.op) /\ told.op.station \in Registered
        /\ told.op.stage # "preparing"
        /\ told.op.stage # "ending" => Keyed(told.media, told.op.station, told.op.media)
    BY <2>2, <2>4 DEF Knows, OpActive
  <2>7. Steady(StepCall(told, m, stops))
    BY <2>2, <2>4, <2>5, <2>6, StepCallGood DEF Good
  <2>8. Steady(end)
    <3> DEFINE yes == TRUE
    <3>1. yes \in BOOLEAN
      OBVIOUS
    <3> HIDE DEF yes
    <3>2. EndsAs(told, EndOperation(told, yes, "unknown", "unknown", stops), yes, "unknown")
      BY <2>2, <2>6, <3>1, EndOperationEnds DEF EndReasons, Faults
    <3>3. Steady(EndOperation(told, yes, "unknown", "unknown", stops))
      BY <2>5, <3>2 DEF EndsAs, Steady, Finds, Finished, Under
    <3> QED BY <3>3 DEF yes
  <2> HIDE DEF end
  <2> QED BY <2>1, <2>3, <2>7, <2>8 DEF Good
<1> QED BY <1>1, <1>2

\* The call that is installed is the one that runs, with its CALL to be sent.
LEMMA InstallCallSound ==
  ASSUME NEW y, Whole(y), y.op.station \in Registered, NEW room,
         Check(y.media, y.op.station, y.op.media, room) = "ok",
         MayInstall(y), NEW stops, Dated(y.session, y.control)
  PROVE  Steady(InstallCall(y, stops))
<1> DEFINE z == InstallCall(y, stops)
           g == y.session.generation
<1>1. Installed(y, z)
  BY InstallCallIs
<1> HIDE DEF z
<1>2. g \in Nat /\ y.control.terminal.generation \in Nat
  <2> Typed(y)
    BY WorldParts DEF Whole
  <2> QED BY SessionParts, MediaCounts DEF Typed, Controls, Terminals
<1>3. y.control.terminal.generation <= g
  BY DEF Dated
<1> HIDE DEF g
<1>4. g + 1 # 0 /\ y.control.terminal.generation < g + 1
      /\ y.control.terminal.generation <= g + 1
  BY <1>2, <1>3
<1>5. z.session.generation = g + 1 /\ z.op.call = g + 1
  BY <1>1 DEF Installed, g
<1>6. z.control.terminal = y.control.terminal
  BY <1>1 DEF Installed
<1>7. Dated(z.session, z.control)
  BY <1>4, <1>5, <1>6 DEF Dated
<1>8. OwnerMatches(z)
  BY <1>1, <1>4, <1>5 DEF Installed, OwnerMatches
<1>9. Calls(z, z.op.call)
  <2>1. z.ack.state # "waiting"
    BY <1>1 DEF Installed, MayInstall, Free
  <2>2. OnlyCall(z.dispatch.cmd, g + 1)
    BY <1>1, <1>5 DEF Installed, OnlyCall
  <2>3. z.session.state = "preview"
    BY <1>1 DEF Installed
  <2> QED BY <1>4, <1>5, <1>6, <2>1, <2>2, <2>3 DEF Calls
<1>10. Keyed(z.media, z.op.station, z.op.media)
  BY <1>1 DEF Installed
<1> QED BY <1>7, <1>8, <1>9, <1>10 DEF Steady, z

LEMMA StepPreparingGood ==
  ASSUME NEW y, Whole(y), y.op.stage = "preparing", y.op.station \in Registered,
         NEW R, Finds(y, R), NEW room, NEW stops \in BOOLEAN, NEW g
  PROVE  Good(y, StepPreparing(y, room, stops), g, R)
<1> DEFINE answer == Check(y.media, y.op.station, y.op.media, room)
           gone == EndOperation(y, TRUE, "preempted", "preempted", stops)
           late == EndOperation(y, TRUE, "confirmation_timeout", "confirmation_timeout", stops)
           bad == EndOperation(y, TRUE, "unknown", "dispatch_failed", stops)
<1>0. OpActive(y.op) /\ ~Under(y.op) /\ ~Accounted(y, g, R)
  BY DEF OpActive, Under, Accounted, Finished
<1>1. Good(y, gone, g, R) /\ Good(y, late, g, R) /\ Good(y, bad, g, R)
  BY <1>0, FailsGood DEF Finds, EndReasons, Faults
<1>2. answer = "ok" /\ MayInstall(y) => Good(y, InstallCall(y, stops), g, R)
  BY <1>0, InstallCallSound DEF Finds, Good
<1>3. Good(y, y, g, R)
  BY <1>0 DEF Good, Steady, Finds
<1>4. \/ StepPreparing(y, room, stops) \in {gone, late, bad, y}
      \/ answer = "ok" /\ MayInstall(y)
           /\ StepPreparing(y, room, stops) = InstallCall(y, stops)
  BY DEF StepPreparing
<1> HIDE DEF answer, gone, late, bad
<1> QED BY <1>1, <1>2, <1>3, <1>4

LEMMA StationStepGood ==
  ASSUME NEW y, Whole(y), NEW R, Finds(y, R), "preempted" \in R,
         NEW room, NEW stops \in BOOLEAN, NEW g
  PROVE  Good(y, StationStep(y, room, stops), g, R)
<1> DEFINE o == y.op
           m == y.media[o.station]
           owns == Owns(y)
           seen == [y EXCEPT !.op.owns = owns]
           bad == EndOperation(y, TRUE, "unknown", "unknown", stops)
           gone == EndOperation(y, TRUE, "preempted", "preempted", stops)
           other == EndOperation(seen, TRUE, "preempted", "preempted", stops)
           lost == ~m.active \/ m.state = "failed" \/ m.pending # "none"
           keyed == Keyed(y.media, o.station, o.media)
           z == StationStep(y, room, stops)
<1>1. CASE ~OpActive(o)
  <2>1. z = y
    BY <1>1 DEF StationStep
  <2>2. Steady(y)
    BY <1>1 DEF Finds, Steady, Under, OpActive
  <2> QED BY <2>1, <2>2 DEF Good
<1>2. CASE OpActive(o)
  <2>1. o.station \in Registered
    BY <1>2 DEF Whole, Kept, Numbered, OpActive
  <2>2. lost /\ ~keyed => Good(y, bad, g, R)
    <3>1. lost /\ ~keyed /\ Under(o) => OwnerMatches(y) /\ Calls(y, o.call)
      BY DEF Finds, Taken
    <3> QED BY <1>2, <2>1, <3>1, FailsGood DEF Finds, EndReasons, Faults
  <2>3. Good(y, gone, g, R)
    BY <1>2, <2>1, FailsGood DEF Finds, EndReasons, Faults
  <2>4. \/ lost /\ ~keyed /\ z = bad
        \/ z = gone
        \/ o.stage = "preparing" /\ z = StepPreparing(seen, room, stops)
        \/ z = other
        \/ /\ o.stage # "preparing" /\ (o.stage # "ending" => keyed) /\ OwnerMatches(seen)
           /\ z = StepSent(seen, m, stops)
    BY <1>2 DEF StationStep
  <2> HIDE DEF bad, gone, lost
  <2>5. owns \in BOOLEAN
    BY OwnsType
  <2> HIDE DEF owns
  <2>6. Whole(seen) /\ Alike(y, seen)
    BY <2>5, OwnedWhole, SeenAlike DEF Whole
  <2> HIDE DEF seen
  <2>7. /\ Finds(seen, R)
        /\ \A x : Good(seen, x, g, R) => Good(y, x, g, R)
    BY <2>6, AlikeGood
  <2>8. /\ OpActive(seen.op) /\ seen.op.station \in Registered
        /\ seen.op.stage = o.stage
        /\ keyed <=> Keyed(seen.media, seen.op.station, seen.op.media)
    BY <1>2, <2>1, <2>6 DEF Alike, OpActive
  <2>9. Good(seen, other, g, R)
    BY <2>6, <2>7, <2>8, FailsGood DEF Finds, EndReasons, Faults
  <2>10. o.stage = "preparing" => Good(seen, StepPreparing(seen, room, stops), g, R)
    BY <2>6, <2>7, <2>8, StepPreparingGood
  <2> HIDE DEF keyed, m
  <2>11. o.stage # "preparing" /\ (o.stage # "ending" => keyed) /\ OwnerMatches(seen)
           => Good(seen, StepSent(seen, m, stops), g, R)
    BY <2>6, <2>7, <2>8, StepSentGood
  <2> HIDE DEF other, z
  <2>12. Good(y, z, g, R)
    BY <2>2, <2>3, <2>4, <2>7, <2>9, <2>10, <2>11
  <2> QED BY <2>12 DEF z
<1> QED BY <1>1, <1>2

-----------------------------------------------------------------------------
(* A step of the main loop and a packet *)

LEMMA AccountedKept ==
  ASSUME NEW y, NEW z, z.op = y.op, z.dispatch.cmd = y.dispatch.cmd, NEW g, NEW R
  PROVE  Accounted(y, g, R) => Accounted(z, g, R)
BY DEF Accounted, Hung

LEMMA GoodTwice ==
  ASSUME NEW x, NEW y, NEW z, NEW g, NEW R, Good(y, z, g, R),
         Accounted(x, g, R) => Accounted(y, g, R)
  PROVE  Good(x, z, g, R)
BY DEF Good

\* Releasing the media of a call that ended changes the media alone.
LEMMA ReleaseEndedGood ==
  ASSUME NEW y \in Worlds, Steady(y), NEW stops, NEW g, NEW R
  PROVE  Good(y, ReleaseEnded(y, stops), g, R)
<1> DEFINE z == ReleaseEnded(y, stops)
<1>1. /\ z.op = y.op /\ z.session = y.session /\ z.control = y.control
      /\ z.dispatch = y.dispatch /\ z.ack = y.ack
  BY DEF ReleaseEnded, Worlds
<1>2. y.session.state = "ended" \/ z = y
  BY DEF ReleaseEnded
<1> HIDE DEF z
<1>3. Steady(z)
  <2>1. CASE y.session.state = "ended"
    BY <1>1, <2>1 DEF Steady, Calls
  <2>2. CASE z = y
    BY <2>2
  <2> QED BY <1>2, <2>1, <2>2
<1>4. Good(y, z, g, R)
  BY <1>1, <1>3, AccountedKept DEF Good
<1> QED BY <1>4 DEF z

LEMMA WithControlAll ==
  ASSUME NEW y \in Worlds, NEW r
  PROVE  LET z == WithControl(y, r)
         IN /\ z.op = y.op /\ z.media = y.media
            /\ z.session = r.session /\ z.control = r.control
            /\ z.dispatch = r.dispatch /\ z.ack = r.ack
BY DEF WithControl, Worlds

\* What call control makes of its part leaves the call of the operation running,
\* or gone for one of these reasons.
LEMMA CarriedFinds ==
  ASSUME NEW y \in Worlds, Steady(y), NEW r, Carries(y, r), NEW R,
         Dated(r.session, r.control),
         Under(y.op) => Calls(r, y.op.call) \/ Gone(r, y.op.call, R)
  PROVE  Finds(WithControl(y, r), R)
<1> DEFINE z == WithControl(y, r)
<1>1. LET w == WithControl(y, r)
      IN /\ w.op = y.op /\ w.media = y.media
         /\ w.session = r.session /\ w.control = r.control
         /\ w.dispatch = r.dispatch /\ w.ack = r.ack
  BY WithControlAll
<1>2. /\ z.op = y.op /\ z.media = y.media
      /\ z.session = r.session /\ z.control = r.control
      /\ z.dispatch = r.dispatch /\ z.ack = r.ack
  BY <1>1
<1> HIDE DEF z
<1>3. Dated(z.session, z.control)
  BY <1>2
<1>4. ASSUME Under(z.op)
      PROVE  /\ OwnerMatches(z)
             /\ Calls(z, z.op.call) \/ Gone(z, z.op.call, R)
             /\ Keyed(z.media, z.op.station, z.op.media)
  <2>1. /\ OwnerMatches(y) /\ Keyed(y.media, y.op.station, y.op.media)
        /\ Calls(r, y.op.call) \/ Gone(r, y.op.call, R)
    BY <1>2, <1>4 DEF Steady
  <2>2. Calls(z, z.op.call) \/ Gone(z, z.op.call, R)
    BY <1>2, <2>1 DEF Calls, Gone
  <2>3. r.session.generation = y.session.generation
    BY <2>1 DEF Calls, Gone, OwnerMatches
  <2>4. y.session.generation \in Nat
    BY WorldParts, SessionParts DEF Typed
  <2>5. Onward(y.session, r.session)
    BY <2>3, <2>4 DEF Carries, Later, Fresh
  <2> QED BY <1>2, <2>1, <2>2, <2>5 DEF OwnerMatches, Onward
<1>5. Finds(z, R)
  BY <1>3, <1>4 DEF Finds
<1> QED BY <1>5 DEF z

LEMMA CallStepGood ==
  ASSUME NEW y, Whole(y), NEW R, Finds(y, R),
         {"preempted", "heartbeat_timeout", "session_timeout"} \subseteq R,
         NEW sent1 \in BOOLEAN, NEW sent2 \in BOOLEAN, NEW sent3 \in BOOLEAN,
         NEW room, NEW stops \in BOOLEAN, NEW g
  PROVE  Good(y, CallStep(y, sent1, sent2, sent3, room, stops).to, g, R)
<1> DEFINE a == StationStep(y, room, stops)
           k == StepFrom(a, sent1, sent2, sent3)
           b == WithControl(a, k)
           c == StationStep(b, room, stops)
           z == ReleaseEnded(c, stops)
<1>1. CallStep(y, sent1, sent2, sent3, room, stops).to = z
  BY DEF CallStep, StationAfter
<1>2. Whole(a) /\ Good(y, a, g, R)
  BY StationStepKept, StationStepGood
<1> HIDE DEF a
<1>3. a \in Worlds /\ Typed(a) /\ Steady(a)
  BY <1>2, WorldParts DEF Whole, Good
<1>4. LET q == StepFrom(a, sent1, sent2, sent3)
      IN /\ Typed(q)
         /\ q.wire \subseteq Commands
         /\ WithControl(a, q) \in Worlds
         /\ Carries(a, WithControl(a, q))
  BY <1>3, StepFromWorld
<1>5. LET r == StepFrom(a, sent1, sent2, sent3)
      IN r.dispatch.cmd = a.dispatch.cmd /\ Dated(r.session, r.control)
  BY <1>3, StepFromDated DEF Steady
<1>6. Under(a.op) => Calls(k, a.op.call)
                       \/ Gone(k, a.op.call, {"heartbeat_timeout", "session_timeout"})
  BY <1>3, StepFromCalls DEF Steady
<1>7. /\ b \in Worlds /\ Carries(a, b)
      /\ k.dispatch.cmd = a.dispatch.cmd /\ Dated(k.session, k.control)
  BY <1>4, <1>5
<1>8. Under(a.op) => Calls(k, a.op.call) \/ Gone(k, a.op.call, R)
  BY <1>6 DEF Gone
<1> HIDE DEF k
<1>9. LET w == WithControl(a, k)
      IN /\ w.op = a.op /\ w.media = a.media
         /\ w.session = k.session /\ w.control = k.control
         /\ w.dispatch = k.dispatch /\ w.ack = k.ack
  BY <1>3, WithControlAll
<1>10. Finds(b, R)
  <2>1. /\ b.op = a.op /\ b.session = k.session /\ b.control = k.control
        /\ b.dispatch = k.dispatch /\ b.ack = k.ack
    BY <1>9
  <2>2. WithControl(a, b) = b
    BY <1>3 DEF WithControl, Worlds
  <2>3. Under(a.op) => Calls(b, a.op.call) \/ Gone(b, a.op.call, R)
    BY <1>8, <2>1 DEF Calls, Gone
  <2>4. Dated(b.session, b.control)
    BY <1>7, <2>1
  <2> HIDE DEF b
  <2>5. Finds(WithControl(a, b), R)
    BY <1>3, <1>7, <2>3, <2>4, CarriedFinds
  <2> QED BY <2>2, <2>5
<1>11. Whole(b)
  BY <1>2, <1>7, CarriesKept DEF Whole
<1>12. b.op = a.op /\ b.dispatch.cmd = a.dispatch.cmd
  BY <1>7, <1>9
<1> HIDE DEF b
<1>13. Accounted(y, g, R) => Accounted(b, g, R)
  BY <1>2, <1>12, AccountedKept DEF Good
<1>14. Whole(c) /\ Good(b, c, g, R)
  BY <1>10, <1>11, StationStepKept, StationStepGood
<1> HIDE DEF c
<1>15. Good(c, z, g, R)
  BY <1>14, ReleaseEndedGood DEF Whole, Good
<1> HIDE DEF z
<1>16. Accounted(y, g, R) => Accounted(c, g, R)
  BY <1>13, <1>14 DEF Good
<1> QED BY <1>1, <1>15, <1>16, GoodTwice

LEMMA ReceiveControlFrameGood ==
  ASSUME NEW y, Whole(y), Steady(y), NEW f, Framed(f), ~IncomingCall(f),
         NEW R, PacketReasons \cup {"preempted"} \subseteq R,
         NEW room, NEW stops \in BOOLEAN, NEW g
  PROVE  Good(y, ReceiveControlFrame(y, f, room, stops), g, R)
<1> DEFINE k == ReceiveFrom(y, f).to
           b == WithControl(y, k)
           c == StationStep(b, room, stops)
           z == ReleaseEnded(c, stops)
<1> y \in Worlds
  BY DEF Whole
<1>1. ReceiveControlFrame(y, f, room, stops) = z
  BY DEF ReceiveControlFrame
<1>2. LET x == ReceiveFrom(y, f).to
      IN Typed(x) /\ Carries(y, x)
  BY ReceiveFromWorld
<1>3. LET x == ReceiveFrom(y, f).to
      IN x.dispatch = y.dispatch /\ Dated(x.session, x.control)
  BY ReceiveFromDated DEF Steady
<1>4. Under(y.op) => LET x == ReceiveFrom(y, f).to
                     IN Calls(x, y.op.call) \/ Gone(x, y.op.call, PacketReasons)
  BY ReceiveFromCalls DEF Steady
<1>5. /\ Typed(k) /\ Carries(y, k) /\ k.dispatch = y.dispatch
      /\ Dated(k.session, k.control)
  BY <1>2, <1>3
<1>6. Under(y.op) => Calls(k, y.op.call) \/ Gone(k, y.op.call, R)
  BY <1>4 DEF Gone
<1> HIDE DEF k
<1>7. Whole(b)
  BY <1>5, CarriedWhole DEF Carries
<1>8. Finds(b, R)
  BY <1>5, <1>6, CarriedFinds
<1>9. LET w == WithControl(y, k)
      IN /\ w.op = y.op /\ w.media = y.media
         /\ w.session = k.session /\ w.control = k.control
         /\ w.dispatch = k.dispatch /\ w.ack = k.ack
  BY WithControlAll
<1>10. b.op = y.op /\ b.dispatch.cmd = y.dispatch.cmd
  BY <1>5, <1>9
<1> HIDE DEF b
<1>11. Accounted(y, g, R) => Accounted(b, g, R)
  BY <1>10, AccountedKept
<1>12. Whole(c) /\ Good(b, c, g, R)
  BY <1>7, <1>8, StationStepKept, StationStepGood
<1> HIDE DEF c
<1>13. Good(c, z, g, R)
  BY <1>12, ReleaseEndedGood DEF Whole, Good
<1> HIDE DEF z
<1>14. Accounted(y, g, R) => Accounted(c, g, R)
  BY <1>11, <1>12 DEF Good
<1> QED BY <1>1, <1>13, <1>14, GoodTwice

-----------------------------------------------------------------------------
(* The frame of a caller *)

\* A CALL is taken only while no call runs, and then it has its session at once.
LEMMA CallTaken ==
  ASSUME NEW a \in Acks, NEW g, a.state = "waiting" => OnlyCall(a.cmd, g),
         NEW f, IncomingCall(f), NEW s \in Sessions, s.state # "ringing", NEW d
  PROVE  LET q == RuntimeReceive(a, f, s, d)
         IN q.ok => ~Active(s) /\ q.session.generation = s.generation + 1
<1> DEFINE told == AckTick(a, s)
           r == ReceiveDatagram(f, s, d)
           q == RuntimeReceive(a, f, s, d)
<1> SUFFICES q.ok => ~Active(s) /\ q.session.generation = s.generation + 1
  OBVIOUS
<1>2. HangupOver(a, told) = FALSE
  BY DEF HangupOver, AckTick, AckResolved, Acks, OnlyCall
<1>3. ~ExpectedAck(told, f)
  BY DEF ExpectedAck, IncomingCall
<1>4. r.ok => ~Active(s) /\ r.session.generation = s.generation + 1
  BY DEF ReceiveDatagram, ReceiveCall, IncomingCall, Received, Refused, Start, Active
<1>5. q.ok => r.ok /\ q.session = r.session
  <2> HIDE DEF told, r
  <2>1. ~r.ok => q.ok = FALSE
    BY <1>2, <1>3 DEF RuntimeReceive, told, r
  <2>2. r.ok => q.session = r.session
    BY <1>2, <1>3 DEF RuntimeReceive, told, r
  <2>3. r.ok \in BOOLEAN
    BY DEF r, ReceiveDatagram, ReceiveCall, IncomingCall, Received, Refused
  <2> QED BY <2>1, <2>2, <2>3
<1> HIDE DEF q, r
<1> QED BY <1>4, <1>5

\* The copy on which the frame is tried.
LEMMA TriedAlike ==
  ASSUME NEW y \in Worlds, NEW f
  PROVE  LET t == Tried(y, f)
         IN /\ t.dispatch = y.dispatch /\ t.ack = y.ack /\ t.control = y.control
            /\ t.session.generation = y.session.generation
            /\ ~Yielding(y, f) => t = y
            /\ t.session.state = "ringing" => y.session.state = "ringing"
<1> DEFINE s == Abort(y.session)
           x == [y EXCEPT !.session = s, !.deadline = Disarmed]
           t == Tried(y, f)
<1> SUFFICES /\ t.dispatch = y.dispatch /\ t.ack = y.ack /\ t.control = y.control
             /\ t.session.generation = y.session.generation
             /\ ~Yielding(y, f) => t = y
             /\ t.session.state = "ringing" => y.session.state = "ringing"
  OBVIOUS
<1>1. /\ s.generation = y.session.generation
      /\ s.state = "ringing" => y.session.state = "ringing"
  <2>1. Onward(y.session, Abort(y.session)) /\ ~Active(Abort(y.session))
    BY WorldParts, EndedOnward DEF Typed
  <2> QED BY <2>1 DEF Onward, Active
<1>2. t = IF Yielding(y, f) THEN x ELSE y
  BY DEF Tried
<1> HIDE DEF s
<1>3. /\ x.session = s /\ x.dispatch = y.dispatch /\ x.ack = y.ack
      /\ x.control = y.control
  BY DEF Worlds
<1> HIDE DEF x, t
<1> QED BY <1>1, <1>2, <1>3

\* The session of a caller leaves the media of its station as they are, or it
\* takes them over alive.
LEMMA IncomingTaken ==
  ASSUME NEW ms \in Medias, NEW p \in Registered, NEW g, Keyed(ms, p, g),
         NEW l, NEW c, NEW works
  PROVE  LET n == IncomingMedia(ms, l, p, c, works).media
         IN \/ Keyed(n, p, g)
            \/ n[p].active /\ n[p].state # "failed" /\ n[p].pending = "none"
<1> DEFINE next == NewMedia(l + 1, "call", c)
           n == IncomingMedia(ms, l, p, c, works).media
<1>1. n \in {ms, [ms EXCEPT ![p] = next]}
  BY DEF IncomingMedia, Done, Keyed
<1>2. next.active /\ next.state # "failed" /\ next.pending = "none"
  BY DEF NewMedia, NoMedia
<1> HIDE DEF next, n
<1>3. [ms EXCEPT ![p] = next][p] = next
  BY DEF Medias
<1> QED BY <1>1, <1>2, <1>3 DEF n

LEMMA WithIncomingIs ==
  ASSUME NEW y \in Worlds, NEW f, NEW g, NEW works
  PROVE  LET z == WithIncoming(y, f, g, works)
         IN /\ z.op = y.op
            /\ z.media = IncomingMedia(y.media, y.last, f.src, g, works).media
BY DEF WithIncoming, WithMedia, Worlds

\* The operation of another station makes way for the caller.
LEMMA YieldedOver ==
  ASSUME NEW y, Whole(y), Dated(y.session, y.control), NEW f, NEW stops \in BOOLEAN
  PROVE  LET a == Yielded(y, f, stops)
         IN \/ /\ a = y
               /\ y.op.stage \in {"preparing", "calling"} => y.op.station = f.src
            \/ /\ y.op.stage \in {"preparing", "calling"}
               /\ Finished(a.op) /\ a.op.reason = "preempted"
<1> DEFINE yes == TRUE
           end == EndOperation(y, yes, "preempted", "preempted", stops)
           a == Yielded(y, f, stops)
<1>1. CASE y.op.stage \in {"preparing", "calling"} /\ y.op.station # f.src
  <2>1. y.op.station \in Registered
    BY <1>1 DEF Whole, Kept, Numbered
  <2>2. yes \in BOOLEAN /\ a = end
    BY <1>1 DEF Yielded
  <2> HIDE DEF yes
  <2>3. EndsAs(y, end, yes, "preempted")
    BY <2>1, <2>2, EndOperationEnds DEF EndReasons, Faults
  <2>4. Finished(end.op) /\ end.op.reason = "preempted"
    BY <1>1, <2>3 DEF EndsAs, Tells
  <2> QED BY <1>1, <2>2, <2>4
<1>2. CASE ~(y.op.stage \in {"preparing", "calling"} /\ y.op.station # f.src)
  BY <1>2 DEF Yielded
<1> QED BY <1>1, <1>2

\* What the operation finds once a caller has its session: its own is over, or
\* it is the caller's station that it called.
LEMMA CallReceivedGood ==
  ASSUME NEW y, Whole(y), Steady(y), NEW f, Framed(f), IncomingCall(f),
         ReceiveFrom(Tried(y, f), f).ok,
         NEW R, "preempted" \in R, NEW works \in BOOLEAN, NEW stops \in BOOLEAN, NEW g
  PROVE  LET c == CallReceived(y, ReceiveFrom(Tried(y, f), f).to, f, works, stops)
         IN Finds(c, R) /\ (Accounted(y, g, R) => Accounted(c, g, R))
<1> DEFINE t == Tried(y, f)
           r == ReceiveFrom(t, f)
           k == r.to
           h == k.session.generation
           accepted == h # y.session.generation
           a == Yielded(y, f, stops)
           b == WithIncoming(a, f, h, works)
           e == IF accepted /\ f.src \in Registered THEN b ELSE y
           c == CallReceived(y, k, f, works, stops)
<1> SUFFICES Finds(c, R) /\ (Accounted(y, g, R) => Accounted(c, g, R))
  OBVIOUS
<1> y \in Worlds
  BY DEF Whole
<1>1. /\ t.dispatch = y.dispatch /\ t.ack = y.ack /\ t.control = y.control
      /\ t.session.generation = y.session.generation
      /\ ~Yielding(y, f) => t = y
      /\ t.session.state = "ringing" => y.session.state = "ringing"
  BY TriedAlike
<1>2. t \in Worlds
  BY TriedIs
<1>3. r.ok
  OBVIOUS
<1>4. c = WithControl(e, k)
  BY DEF CallReceived
<1> HIDE DEF c, t
<1>5. /\ t.ack \in Acks /\ t.session \in Sessions
  BY <1>2, WorldParts DEF Typed
<1>6. k.dispatch = y.dispatch /\ Dated(k.session, k.control)
  <2>1. Dated(t.session, t.control)
    BY <1>1 DEF Steady, Dated
  <2>2. LET x == ReceiveFrom(t, f).to
        IN x.dispatch = t.dispatch /\ Dated(x.session, x.control)
    BY <1>2, <2>1, ReceiveFromDated
  <2> QED BY <1>1, <2>2
<1>7. LET x == ReceiveFrom(t, f).to
      IN Typed(x) /\ Carries(t, x)
  BY <1>2, ReceiveFromWorld
<1>8. h \in Generations
  BY <1>7, SessionParts DEF Typed
<1>9. Under(y.op) => ~Active(t.session) /\ h = y.session.generation + 1
  <2> SUFFICES ASSUME Under(y.op)
               PROVE  ~Active(t.session) /\ h = y.session.generation + 1
    OBVIOUS
  <2> DEFINE q == RuntimeReceive(t.ack, f, t.session, t.deadline)
  <2>1. r.ok = q.ok /\ k.session = q.session
    <3>1. r = ControlReceived(t, q)
      BY DEF IncomingCall, ReceiveFrom, ReceiveControl
    <3> HIDE DEF q, r
    <3> QED BY <1>2, <3>1 DEF ControlReceived, Worlds
  <2>2. /\ t.ack.state = "waiting" => OnlyCall(t.ack.cmd, y.op.call)
        /\ t.session.state # "ringing"
    BY <1>1 DEF Steady, Calls
  <2>3. q.ok => ~Active(t.session) /\ q.session.generation = t.session.generation + 1
    BY <1>5, <2>2, CallTaken
  <2> HIDE DEF q, r
  <2> QED BY <1>1, <1>3, <2>1, <2>3
<1> HIDE DEF r, h
<1>10. LET x == Yielded(y, f, stops)
       IN \/ /\ x = y
             /\ y.op.stage \in {"preparing", "calling"} => y.op.station = f.src
          \/ /\ y.op.stage \in {"preparing", "calling"}
             /\ Finished(x.op) /\ x.op.reason = "preempted"
  BY YieldedOver DEF Steady
<1>11. \/ /\ a = y
          /\ y.op.stage \in {"preparing", "calling"} => y.op.station = f.src
       \/ /\ y.op.stage \in {"preparing", "calling"}
          /\ Finished(a.op) /\ a.op.reason = "preempted"
  BY <1>10
<1>12. a \in Worlds
  BY YieldedKept DEF Whole
<1> HIDE DEF a
<1>13. f.src \in Registered => b \in Worlds
  BY <1>8, <1>12, YieldedKept, WithIncomingKept DEF Whole, a
<1>14. LET z == WithIncoming(a, f, h, works)
       IN /\ z.op = a.op
          /\ z.media = IncomingMedia(a.media, a.last, f.src, h, works).media
  BY <1>12, WithIncomingIs
<1>15. b.op = a.op /\ b.media = IncomingMedia(a.media, a.last, f.src, h, works).media
  BY <1>14
<1> HIDE DEF b
<1>16. e \in Worlds
  BY <1>13
<1> HIDE DEF e
<1>17. LET z == WithControl(e, k)
       IN /\ z.op = e.op /\ z.media = e.media
          /\ z.session = k.session /\ z.control = k.control
          /\ z.dispatch = k.dispatch /\ z.ack = k.ack
  BY <1>16, WithControlAll
<1>18. /\ c.op = e.op /\ c.media = e.media /\ c.session = k.session
       /\ c.control = k.control /\ c.dispatch = y.dispatch
  BY <1>4, <1>6, <1>17
<1>19. Dated(c.session, c.control)
  BY <1>6, <1>18
<1> HIDE DEF k
<1>20. CASE c.op = y.op /\ ~Under(y.op)
  BY <1>18, <1>19, <1>20, AccountedKept DEF Finds
<1>21. CASE /\ y.op.stage \in {"preparing", "calling"}
            /\ Finished(c.op) /\ c.op.reason = "preempted"
  BY <1>19, <1>21 DEF Finds, Under, Finished, Accounted
<1>22. CASE c.op = y.op /\ Under(y.op)
  <2>1. Yielding(y, f)
    BY <1>1, <1>9, <1>22, PlacedActive DEF Steady, Calls
  <2>2. y.session.generation \in Nat /\ y.op.call = y.session.generation
    BY <1>22, WorldParts, SessionParts DEF Typed, Steady, OwnerMatches
  <2>3. accepted /\ f.src \in Registered
    BY <1>9, <1>22, <2>1, <2>2 DEF Yielding
  <2>4. c.op = a.op /\ c.media = b.media
    BY <1>15, <1>18, <2>3 DEF e
  <2>5. a = y /\ y.op.station = f.src
    BY <1>11, <1>22, <2>1, <2>4 DEF Yielding, Under, Finished
  <2>6. ~OwnerMatches(c)
    <3>1. c.session.generation = y.session.generation + 1
      BY <1>9, <1>18, <1>22 DEF h
    <3> QED BY <1>22, <2>2, <3>1 DEF OwnerMatches
  <2>7. Taken(c)
    <3>1. Keyed(y.media, y.op.station, y.op.media)
      BY <1>22 DEF Steady
    <3> DEFINE n == IncomingMedia(y.media, y.last, f.src, h, works).media
    <3>2. y.media \in Medias /\ f.src \in Registered
      BY <2>3, WorldParts
    <3>3. LET x == IncomingMedia(y.media, y.last, f.src, h, works).media
          IN \/ Keyed(x, f.src, y.op.media)
             \/ /\ x[f.src].active /\ x[f.src].state # "failed"
                /\ x[f.src].pending = "none"
      BY <2>5, <3>1, <3>2, IncomingTaken
    <3>4. c.media = n
      BY <1>15, <2>4, <2>5
    <3> HIDE DEF n
    <3> QED BY <1>22, <2>5, <3>3, <3>4 DEF Taken, n
  <2>8. Finds(c, R)
    BY <1>19, <2>6, <2>7 DEF Finds
  <2> QED BY <1>18, <1>22, <2>8, AccountedKept
<1> QED BY <1>11, <1>15, <1>18, <1>20, <1>21, <1>22 DEF e

LEMMA ReceiveCallFrameGood ==
  ASSUME NEW y, Whole(y), Steady(y), NEW f, Framed(f), IncomingCall(f),
         NEW R, "preempted" \in R, NEW works \in BOOLEAN, NEW room,
         NEW stops \in BOOLEAN, NEW g
  PROVE  Good(y, ReceiveCallFrame(y, f, works, room, stops), g, R)
<1> DEFINE r == ReceiveFrom(Tried(y, f), f)
           c == CallReceived(y, r.to, f, works, stops)
           d == StationStep(c, room, stops)
<1>1. CASE ~r.ok
  BY <1>1 DEF ReceiveCallFrame, Good
<1>2. CASE r.ok
  <2>1. ReceiveCallFrame(y, f, works, room, stops) = d
    BY <1>2 DEF ReceiveCallFrame
  <2>2. Whole(c)
    BY CallReceivedWhole
  <2>3. LET x == CallReceived(y, ReceiveFrom(Tried(y, f), f).to, f, works, stops)
        IN Finds(x, R) /\ (Accounted(y, g, R) => Accounted(x, g, R))
    BY <1>2, CallReceivedGood
  <2>4. Finds(c, R) /\ (Accounted(y, g, R) => Accounted(c, g, R))
    BY <2>3
  <2> HIDE DEF c
  <2>5. Good(c, d, g, R)
    BY <2>2, <2>4, StationStepGood
  <2> HIDE DEF d
  <2> QED BY <2>1, <2>4, <2>5, GoodTwice
<1> QED BY <1>1, <1>2

-----------------------------------------------------------------------------
(* Hangups *)

\* What every step keeps of a call that is under way, and of the record.
Fits(z) ==
  /\ Dated(z.session, z.control)
  /\ Under(z.op) => OwnerMatches(z) /\ Calls(z, z.op.call)

LEMMA FitsFinds ==
  ASSUME NEW z
  PROVE  /\ Steady(z) => Fits(z)
         /\ Fits(z) => \A R : Finds(z, R)
BY DEF Steady, Fits, Finds

LEMMA EndFits ==
  ASSUME NEW y, Whole(y), y.op.station \in Registered, Dated(y.session, y.control),
         NEW error \in BOOLEAN, NEW reason \in EndReasons, NEW why \in Faults,
         NEW stops \in BOOLEAN
  PROVE  Fits(EndOperation(y, error, reason, why, stops))
<1> DEFINE z == EndOperation(y, error, reason, why, stops)
<1>1. EndsAs(y, z, error, reason)
  BY EndOperationEnds
<1> HIDE DEF z
<1>2. Fits(z)
  BY <1>1 DEF EndsAs, Fits, Finished, Under
<1> QED BY <1>2 DEF z

\* A user who hangs up the call of the operation tells its station.
LEMMA HangupOperationTells ==
  ASSUME NEW y, Whole(y), Fits(y), NEW stops \in BOOLEAN, NEW R
  PROVE  LET z == HangupOperation(y, stops)
         IN Fits(z) /\ (Under(y.op) /\ y.op.sent => Accounted(z, y.op.call, R))
<1> DEFINE o == y.op
           c == CancelCommands(y, o.call)
           q == Queued(CommandFor("hangup", y.session))
           n == [o EXCEPT !.stage = "ending", !.left = EndTimeout]
           x == [c EXCEPT !.dispatch = q, !.op = n]
           no == FALSE
           z == HangupOperation(y, stops)
           Tells1(w) == Fits(w) /\ (Under(o) /\ o.sent => Accounted(w, o.call, R))
<1> SUFFICES Tells1(z)
  OBVIOUS
<1> y \in Worlds /\ Kept(y) /\ o \in Operations
  BY WorldParts DEF Whole
<1> Dated(y.session, y.control)
  BY DEF Fits
<1>1. Tells1(y)
  BY DEF Accounted
<1>2. CASE Finished(o) /\ o.cleanup
  <2>1. o.error \in BOOLEAN /\ o.reason \in EndReasons /\ o.fault \in Faults
    BY DEF Operations
  <2>2. o.station \in Registered
    BY <1>2 DEF Kept, Numbered, Finished
  <2>3. z = EndOperation(y, o.error, o.reason, o.fault, stops)
    BY <1>2 DEF HangupOperation, RetryCleanup, Finished, OpActive
  <2>4. Fits(z)
    BY <2>1, <2>2, <2>3, EndFits
  <2> QED BY <1>2, <2>4 DEF Finished, Under
<1>3. CASE OpActive(o) /\ ~o.sent /\ o.stage # "ending"
  <2>1. o.station \in Registered
    BY <1>3 DEF Kept, Numbered, OpActive
  <2>2. no \in BOOLEAN /\ z = EndOperation(y, no, "local_hangup", "cancelled", stops)
    BY <1>3 DEF HangupOperation
  <2> HIDE DEF no
  <2>3. Fits(z)
    BY <2>1, <2>2, EndFits DEF EndReasons, Faults
  <2> QED BY <1>3, <2>3
<1>4. CASE OpActive(o) /\ o.sent /\ o.stage # "ending" /\ OwnerMatches(y)
  <2>1. Under(o)
    BY <1>4 DEF Kept, Numbered, OwnerMatches, OpActive, Under
  <2>2. Free(c) /\ Active(y.session)
    BY <2>1, CancelFrees, PlacedActive DEF Fits, Calls
  <2>3. LET d == CancelCommands(y, o.call)
        IN /\ d \in Worlds
           /\ d.op = y.op /\ d.media = y.media /\ d.last = y.last
           /\ d.session = y.session /\ d.control = y.control
    BY CancelIs
  <2>4. z = x
    BY <1>4, <2>2, <2>3 DEF HangupOperation
  <2>5. q.cmd.type = "hangup" /\ q.cmd.generation = o.call
    BY <1>4 DEF Queued, CommandFor, OwnerMatches
  <2>6. n.stage = "ending"
    BY DEF Operations
  <2> HIDE DEF c, q, n
  <2>7. /\ x.dispatch = q /\ x.op = n
        /\ x.session = y.session /\ x.control = y.control
    BY <2>3 DEF c, Worlds
  <2> HIDE DEF x, z
  <2>8. Fits(z) /\ Accounted(z, o.call, R)
    BY <2>4, <2>5, <2>6, <2>7 DEF Fits, Under, Accounted, Hung
  <2> QED BY <2>8
<1>5. \/ z = y
      \/ Finished(o) /\ o.cleanup
      \/ OpActive(o) /\ ~o.sent /\ o.stage # "ending"
      \/ OpActive(o) /\ o.sent /\ o.stage # "ending" /\ OwnerMatches(y)
  <2> o.sent \in BOOLEAN /\ o.cleanup \in BOOLEAN
    BY DEF Operations
  <2>1. o.cleanup => Finished(o)
    BY DEF Kept, Finished
  <2> QED BY <2>1 DEF HangupOperation
<1> HIDE DEF z, Tells1
<1> QED BY <1>1, <1>2, <1>3, <1>4, <1>5

\* The hangup of an incoming call does not reach an operation.
LEMMA HangupCallFits ==
  ASSUME NEW y, Whole(y), ~Under(y.op), Dated(y.session, y.control),
         Active(y.session), NEW stops
  PROVE  Fits(HangupCall(y, y.session.generation, stops))
<1> DEFINE g == y.session.generation
           z == HangupFrom(y, g)
           e == ReleaseEnded(z, stops)
           w == HangupCall(y, g, stops)
<1> y \in Worlds /\ Typed(y)
  BY WorldParts DEF Whole
<1>1. g \in Generations /\ g \in Nat
  BY SessionParts DEF Typed
<1>2. w.op = y.op
  BY <1>1, HangupCallSame
<1>3. z \in Worlds /\ Carries(y, z)
  BY <1>1, HangupFromWorld
<1>4. w \in {z, e}
  BY DEF HangupCall
<1> HIDE DEF g, w
<1>5. z.session.generation = g
  <2>1. z.session = y.session \/ z.session = Abort(y.session)
    BY DEF HangupFrom, Worlds
  <2>2. Onward(y.session, Abort(y.session))
    BY EndedOnward DEF Typed
  <2> HIDE DEF z
  <2> QED BY <2>1, <2>2 DEF Onward, g
<1>6. z.control = y.control \/ z.control.terminal.generation = g
  BY DEF HangupFrom, Worlds
<1> HIDE DEF z
<1>7. Dated(z.session, z.control)
  BY <1>1, <1>5, <1>6 DEF Dated, g
<1>8. e.session = z.session /\ e.control = z.control
  BY <1>3 DEF ReleaseEnded, Worlds
<1> HIDE DEF e
<1>9. Fits(w)
  BY <1>2, <1>4, <1>7, <1>8 DEF Fits
<1> QED BY <1>9 DEF w, g

-----------------------------------------------------------------------------
(* The actions and the call of the operation *)

\* Why the station of a call that is over needs not be told by the operation.
Excuses ==
  {"peer_hangup", "session_timeout", "preempted", "heartbeat_timeout", "runtime_reset"}
    \cup (IF phase = "packet" THEN {"local_hangup"} ELSE {})

TellInv ==
  /\ StationInv
  /\ Fits(World)
  /\ phase = "packet" => Steady(World)

\* The step reaches world z with the invariant, and accounts for its call.
Reaches(z) ==
  /\ Fits(z)
  /\ phase' = "packet" => Steady(z)
  /\ op.sent /\ Under(op) => Accounted(z, op.call, Excuses)

LEMMA GoodReaches ==
  ASSUME NEW z, Good(World, z, op.call, Excuses)
  PROVE  Reaches(z)
<1>1. op.sent /\ Under(op) => Accounted(World, op.call, Excuses)
  BY WorldIs DEF Accounted
<1> QED BY <1>1, FitsFinds DEF Good, Reaches

\* What time, the media and a viewer change of a world.
Resembles(y, z) ==
  /\ z.op.stage = y.op.stage /\ z.op.station = y.op.station
  /\ z.op.call = y.op.call /\ z.op.sent = y.op.sent
  /\ z.session.state = y.session.state /\ z.session.peer = y.session.peer
  /\ z.session.generation = y.session.generation
  /\ DispatchActive(z.dispatch) = DispatchActive(y.dispatch)
  /\ z.dispatch.cmd = y.dispatch.cmd
  /\ z.ack.state = y.ack.state /\ z.ack.cmd = y.ack.cmd
  /\ z.control.terminal = y.control.terminal

LEMMA ResemblesReaches ==
  ASSUME TellInv, NEW z, Resembles(World, z), phase' # "packet"
  PROVE  Reaches(z)
<1> DEFINE y == World
<1> y.op = op
  BY WorldIs
<1>1. Fits(y) /\ Resembles(y, z)
  BY DEF TellInv
<1> HIDE DEF y
<1>2. Fits(z)
  BY <1>1 DEF Fits, Resembles, Dated, Under, OwnerMatches, Calls
<1>3. op.sent /\ Under(op) => Accounted(z, op.call, Excuses)
  BY <1>1 DEF Resembles, Accounted, Under
<1> QED BY <1>2, <1>3 DEF Reaches

LEMMA CommitReaches ==
  ASSUME TellInv, NEW r, r.to \in Worlds, Reaches(r.to), Steady(r.to),
         NEW next \in {"poll", "packet"}, CommitWorld(r, next)
  PROVE  Reaches(World')
<1>1. CASE r.ok
  <2>1. World' = r.to
    BY <1>1, WorldInstalled DEF CommitWorld
  <2> QED BY <2>1 DEF Reaches
<1>2. CASE ~r.ok
  <2>1. /\ UNCHANGED <<session, deadline, dispatch, ack, handshake,
                       handshakeDispatch, terminal, fault, op, media, last>>
        /\ phase' = "stopped"
    BY <1>2 DEF CommitWorld
  <2>2. World' = World
    BY <2>1 DEF World, Control
  <2>3. Resembles(World, World) /\ phase' # "packet"
    BY <2>1 DEF Resembles
  <2> QED BY <2>2, <2>3, ResemblesReaches
<1> QED BY <1>1, <1>2

LEMMA StationCallStepTells ==
  ASSUME TellInv, StationCallStep
  PROVE  Reaches(World')
<1>1. PICK sent1 \in Outcomes(handshakeDispatch), sent2 \in Beats(op),
           sent3 \in Sends(op, dispatch), room \in Rooms(op), stops \in Stops(media) :
        CommitWorld(CallStep(World, sent1, sent2, sent3, room, stops), "packet")
  BY DEF StationCallStep
<1> DEFINE r == CallStep(World, sent1, sent2, sent3, room, stops)
<1>2. sent1 \in BOOLEAN /\ sent2 \in BOOLEAN /\ sent3 \in BOOLEAN /\ stops \in BOOLEAN
  BY OutcomesType, ChoiceTypes
<1>3. Whole(World) /\ Finds(World, Excuses)
  BY InvWhole, FitsFinds DEF TellInv
<1>4. {"preempted", "heartbeat_timeout", "session_timeout"} \subseteq Excuses
  BY DEF Excuses
<1>5. Good(World, r.to, op.call, Excuses)
  BY <1>2, <1>3, <1>4, CallStepGood
<1>6. LET q == CallStep(World, sent1, sent2, sent3, room, stops)
      IN q.wire \subseteq Commands /\ Whole(q.to)
  BY <1>2, <1>3, CallStepKept
<1>7. r.to \in Worlds /\ Reaches(r.to) /\ Steady(r.to)
  BY <1>5, <1>6, GoodReaches DEF Whole, Good
<1> HIDE DEF r
<1> QED BY <1>1, <1>7, CommitReaches DEF r

LEMMA StationReceiveCallTells ==
  ASSUME TellInv, StationReceiveCall
  PROVE  Reaches(World')
<1>1. PICK f \in {h \in Heard : IncomingCall(h)}, works \in BOOLEAN,
           room \in Rooms(op), stops \in Stops(media) :
        InstallWorld(ReceiveCallFrame(World, f, works, room, stops))
  BY DEF StationReceiveCall
<1> DEFINE z == ReceiveCallFrame(World, f, works, room, stops)
<1>2. Framed(f) /\ IncomingCall(f) /\ stops \in BOOLEAN
  BY FramesFramed, ChoiceTypes DEF Heard
<1>3. Whole(World) /\ Steady(World)
  BY InvWhole DEF TellInv, StationReceiveCall
<1>4. Good(World, z, op.call, Excuses)
  BY <1>2, <1>3, ReceiveCallFrameGood DEF Excuses
<1>5. z \in Worlds
  BY <1>2, <1>3, ReceiveCallFrameKept DEF Whole
<1> HIDE DEF z
<1>6. World' = z
  BY <1>1, <1>5, WorldInstalled DEF z
<1> QED BY <1>4, <1>6, GoodReaches

LEMMA StationReceiveTells ==
  ASSUME TellInv, StationReceive
  PROVE  Reaches(World')
<1>1. PICK f \in {h \in Heard : ~IncomingCall(h)},
           room \in Rooms(op), stops \in Stops(media) :
        InstallWorld(ReceiveControlFrame(World, f, room, stops))
  BY DEF StationReceive
<1> DEFINE z == ReceiveControlFrame(World, f, room, stops)
<1>2. Framed(f) /\ ~IncomingCall(f) /\ stops \in BOOLEAN
  BY FramesFramed, ChoiceTypes DEF Heard
<1>3. Whole(World) /\ Steady(World) /\ phase = "packet"
  BY InvWhole DEF TellInv, StationReceive
<1>4. PacketReasons \cup {"preempted"} \subseteq Excuses
  BY <1>3 DEF PacketReasons, Excuses
<1>5. Good(World, z, op.call, Excuses)
  BY <1>2, <1>3, <1>4, ReceiveControlFrameGood
<1>6. z \in Worlds
  BY <1>2, <1>3, ReceiveControlFrameKept DEF Whole
<1> HIDE DEF z
<1>7. World' = z
  BY <1>1, <1>6, WorldInstalled DEF z
<1> QED BY <1>5, <1>7, GoodReaches

\* The network is lost: the operation ends for it before anything is stepped.
LEMMA StationCaptureLostTells ==
  ASSUME TellInv, StationCaptureLost
  PROVE  Reaches(World')
<1> DEFINE y == WithControl(World, Lost)
           no == FALSE
           yes == TRUE
<1>1. PICK room \in Rooms(op), stops \in Stops(media) :
        CommitWorld(CallStep(IF OpActive(op)
                             THEN EndOperation(y, yes, "runtime_reset", "runtime_reset", stops)
                             ELSE y, no, no, no, room, stops), "poll")
  BY DEF StationCaptureLost
<1> DEFINE x == IF OpActive(op)
                THEN EndOperation(y, yes, "runtime_reset", "runtime_reset", stops) ELSE y
           r == CallStep(x, no, no, no, room, stops)
<1>2. stops \in BOOLEAN /\ no \in BOOLEAN /\ yes \in BOOLEAN
  BY ChoiceTypes
<1> HIDE DEF no, yes
<1>3. Lost \in Structs /\ Typed(Lost)
  BY InvWhole, LostType, StructsTyped DEF TellInv
<1>4. session \in Sessions /\ session.generation \in Nat /\ Control \in Controls
  BY InvWhole, ControlType, SessionParts DEF TellInv, TypeOK
<1>5. /\ Lost.session = Abort(session)
      /\ ~Active(session) => Lost.control = Control
      /\ \/ Lost.control.terminal = Control.terminal
         \/ Lost.control.terminal.generation = session.generation
  <2>1. LET k == RecordTerminal(Control, "unknown", "none", session.generation)
        IN k.terminal = Control.terminal \/ k.terminal.generation = session.generation
    BY RecordDated
  <2> QED BY <2>1 DEF Lost, Struct
<1>6. Onward(session, Lost.session)
  BY <1>4, <1>5, EndedOnward
<1>7. Whole(y)
  BY <1>3, <1>5, <1>6, InvWhole, WorldIs, CarriedWhole DEF Later, TellInv
<1>8. y.op = op /\ Dated(y.session, y.control)
  <2>1. LET w == WithControl(World, Lost)
        IN /\ w \in Worlds
           /\ w.op = World.op /\ w.media = World.media /\ w.last = World.last
           /\ w.session = Lost.session /\ w.control = Lost.control
    BY <1>3, InvWhole, WithControlIs DEF TellInv
  <2>2. Dated(session, Control)
    BY WorldIs DEF TellInv, Fits
  <2>3. Dated(Lost.session, Lost.control)
    BY <1>4, <1>5, <1>6, <2>2 DEF Dated, Onward
  <2> QED BY <2>1, <2>3, WorldIs
<1> HIDE DEF y
<1>9. /\ Whole(x) /\ Finds(x, Excuses)
      /\ op.sent /\ Under(op) => Accounted(x, op.call, Excuses)
  <2>1. CASE OpActive(op)
    <3>1. y.op.station \in Registered
      BY <1>7, <1>8, <2>1 DEF Whole, Kept, Numbered, OpActive
    <3> DEFINE e == EndOperation(y, yes, "runtime_reset", "runtime_reset", stops)
    <3>2. EndsAs(y, e, yes, "runtime_reset")
      BY <1>2, <1>7, <3>1, EndOperationEnds DEF EndReasons, Faults
    <3>3. LET w == EndOperation(y, yes, "runtime_reset", "runtime_reset", stops)
          IN Whole(w) /\ w.session.generation = y.session.generation
      BY <1>2, <1>7, <3>1, EndOperationKept DEF EndReasons, Faults
    <3>4. Whole(e)
      BY <3>3
    <3> HIDE DEF e
    <3>5. /\ Dated(e.session, e.control)
          /\ Finished(e.op)
          /\ op.stage # "ending" => e.op.reason = "runtime_reset"
      BY <1>8, <3>2 DEF EndsAs, Tells
    <3>6. Finds(e, Excuses)
      BY <3>5 DEF Finds, Finished, Under
    <3>7. Under(op) => Accounted(e, op.call, Excuses)
      BY <3>5 DEF Accounted, Under, Excuses
    <3> QED BY <2>1, <3>4, <3>6, <3>7 DEF e
  <2>2. CASE ~OpActive(op)
    BY <1>7, <1>8, <2>2 DEF Finds, OpActive, Under
  <2> QED BY <2>1, <2>2
<1>10. CommitWorld(r, "poll")
  BY <1>1
<1> HIDE DEF x
<1>11. {"preempted", "heartbeat_timeout", "session_timeout"} \subseteq Excuses
  BY DEF Excuses
<1>12. Good(x, r.to, op.call, Excuses)
  BY <1>2, <1>9, <1>11, CallStepGood
<1>13. LET q == CallStep(x, no, no, no, room, stops)
       IN q.wire \subseteq Commands /\ Whole(q.to)
  BY <1>2, <1>9, CallStepKept
<1>14. r.to \in Worlds /\ Steady(r.to)
  BY <1>12, <1>13 DEF Whole, Good
<1> HIDE DEF r
<1>15. Reaches(r.to)
  BY <1>9, <1>12, <1>14, FitsFinds DEF Reaches, Good
<1> QED BY <1>10, <1>14, <1>15, CommitReaches

LEMMA HangupReaches ==
  ASSUME TellInv, phase' # "packet", NEW stops \in BOOLEAN,
         \/ InstallWorld(HangupOperation(World, stops))
         \/ /\ ~Under(op) /\ Active(session)
            /\ InstallWorld(HangupCall(World, session.generation, stops))
  PROVE  Reaches(World')
<1>1. Whole(World) /\ Fits(World) /\ session.generation \in Generations
  BY InvWhole, SessionParts DEF TellInv, TypeOK
<1>2. CASE InstallWorld(HangupOperation(World, stops))
  <2> DEFINE z == HangupOperation(World, stops)
  <2>1. LET w == HangupOperation(World, stops)
        IN Fits(w) /\ (Under(World.op) /\ World.op.sent
                         => Accounted(w, World.op.call, Excuses))
    BY <1>1, HangupOperationTells
  <2>2. Reaches(z)
    BY <2>1, WorldIs DEF Reaches
  <2>3. z \in Worlds
    BY <1>1, HangupOperationKept DEF Whole
  <2> HIDE DEF z
  <2>4. World' = z
    BY <1>2, <2>3, WorldInstalled DEF z
  <2> QED BY <2>2, <2>4
<1>3. CASE /\ ~Under(op) /\ Active(session)
           /\ InstallWorld(HangupCall(World, session.generation, stops))
  <2> DEFINE g == World.session.generation
             z == HangupCall(World, g, stops)
  <2>1. ~Under(World.op) /\ Active(World.session) /\ Dated(World.session, World.control)
    BY <1>1, <1>3, WorldIs DEF Fits
  <2>2. Fits(z)
    BY <1>1, <2>1, HangupCallFits
  <2>3. g = session.generation
    BY WorldIs
  <2> HIDE DEF g
  <2>4. z \in Worlds
    BY <1>1, <2>1, <2>3, HangupCallKept DEF Whole
  <2>5. World' = z
    BY <1>3, <2>3, <2>4, WorldInstalled
  <2> HIDE DEF z
  <2> QED BY <1>3, <2>2, <2>5 DEF Reaches
<1> QED BY <1>2, <1>3

LEMMA HangupGenerationTells ==
  ASSUME TellInv, NEW g, HangupGeneration(g)
  PROVE  Reaches(World')
<1>1. PICK stops \in Stops(media) :
        \/ InstallWorld(HangupOperation(World, stops))
        \/ /\ ~(OpActive(op) /\ g = op.call) /\ Active(session)
           /\ InstallWorld(HangupCall(World, g, stops))
  BY DEF HangupGeneration
<1>2. g = session.generation /\ phase' # "packet"
  BY DEF HangupGeneration
<1>3. Under(op) => OpActive(op) /\ session.generation = op.call
  BY WorldIs DEF TellInv, Fits, OwnerMatches, Under, OpActive
<1>4. stops \in BOOLEAN
  BY ChoiceTypes
<1> QED BY <1>1, <1>2, <1>3, <1>4, HangupReaches

LEMMA HangupStationTells ==
  ASSUME TellInv, NEW p, NEW generation, HangupStation(p, generation)
  PROVE  Reaches(World')
<1>1. PICK stops \in Stops(media) :
        \/ InstallWorld(HangupOperation(World, stops))
        \/ /\ ~(/\ op.station = p
                /\ \/ generation = op.media
                   \/ generation = 0 /\ (OpActive(op) \/ ~Active(session)))
           /\ Active(session) /\ session.peer = p
           /\ InstallWorld(HangupCall(World, session.generation, stops))
  BY DEF HangupStation
<1>2. /\ phase' # "packet"
      /\ OpActive(op) /\ op.station = p /\ generation # 0 => generation = op.media
  BY DEF HangupStation
<1>3. Under(op) => OpActive(op) /\ session.peer = op.station
  BY WorldIs DEF TellInv, Fits, OwnerMatches, Under, OpActive
<1>4. stops \in BOOLEAN
  BY ChoiceTypes
<1> QED BY <1>1, <1>2, <1>3, <1>4, HangupReaches

LEMMA AnswerCallTells ==
  ASSUME TellInv, NEW g, AnswerCall(g)
  PROVE  Reaches(World')
<1>1. ~Under(op)
  BY WorldIs DEF TellInv, Fits, Calls, AnswerCall, Answer
<1>2. /\ World'.op = op /\ World'.session = session /\ World'.control = Control
      /\ phase' # "packet"
  BY DEF AnswerCall, Answer, World, Control
<1>3. Dated(session, Control)
  BY WorldIs DEF TellInv, Fits
<1> QED BY <1>1, <1>2, <1>3 DEF Reaches, Fits

LEMMA AdmitTells ==
  ASSUME TellInv, NEW p, Admit(p)
  PROVE  Reaches(World')
<1>1. op'.stage = "preparing" /\ ~OpActive(op) /\ UNCHANGED vars /\ phase = "poll"
  BY DEF Admit, NoOperation
<1>2. /\ World'.op = op' /\ World'.session = session /\ World'.control = Control
      /\ phase' # "packet"
  BY <1>1 DEF vars, World, Control
<1>3. Dated(session, Control)
  BY WorldIs DEF TellInv, Fits
<1> QED BY <1>1, <1>2, <1>3 DEF Reaches, Fits, Under, OpActive

LEMMA RequestCallTells ==
  ASSUME TellInv, RequestCall
  PROVE  Reaches(World')
<1>1. PICK stops \in Stops(media) : InstallWorld(InstallCall(World, stops))
  BY DEF RequestCall
<1> DEFINE yes == TRUE
           z == InstallCall(World, stops)
<1>2. /\ Check(media, op.station, op.media, yes) = "ok" /\ MayInstall(World)
      /\ op.stage = "preparing" /\ phase' # "packet"
  BY DEF RequestCall
<1> HIDE DEF yes
<1>3. /\ Check(World.media, World.op.station, World.op.media, yes) = "ok"
      /\ World.op.station \in Registered
      /\ Whole(World) /\ Dated(World.session, World.control)
  <2>1. StationInv /\ Fits(World)
    BY DEF TellInv
  <2>2. World.op.station \in Registered
    BY <1>2, <2>1, WorldIs DEF StationInv, Kept, Numbered
  <2> QED BY <1>2, <2>1, <2>2, WorldIs, InvWhole DEF Fits
<1>4. Steady(z)
  BY <1>2, <1>3, InstallCallSound
<1>5. z \in Worlds
  BY <1>2, <1>3, InstallCallKept DEF Whole
<1> HIDE DEF z
<1>6. World' = z
  BY <1>1, <1>5, WorldInstalled DEF z
<1> QED BY <1>2, <1>4, <1>6, FitsFinds DEF Reaches, Under

\* Viewers and the manager change the media, and who the preview is for.
LEMMA MediaTells ==
  ASSUME TellInv, phase = "poll", UNCHANGED vars,
         op' = op \/ op' = [op EXCEPT !.owns = FALSE]
  PROVE  Reaches(World')
<1>1. op \in Operations
  BY InvWhole DEF TellInv, StationInv, StationTypeOK
<1>2. /\ op'.stage = op.stage /\ op'.station = op.station
      /\ op'.call = op.call /\ op'.sent = op.sent
  BY <1>1 DEF Operations
<1>3. /\ World'.op = op' /\ World'.session = session /\ World'.control = Control
      /\ World'.dispatch = dispatch /\ World'.ack = ack /\ phase' # "packet"
      /\ World.op = op /\ World.session = session /\ World.control = Control
      /\ World.dispatch = dispatch /\ World.ack = ack
  BY DEF vars, World, Control
<1>4. Resembles(World, World')
  BY <1>2, <1>3 DEF Resembles
<1> QED BY <1>3, <1>4, ResemblesReaches

LEMMA StationTickTells ==
  ASSUME TellInv, StationTick
  PROVE  Reaches(World')
<1>1. op \in Operations /\ session \in Sessions /\ dispatch \in Dispatches /\ ack \in Acks
  BY InvWhole DEF TellInv, StationInv, StationTypeOK, TypeOK
<1>2. /\ op'.stage = op.stage /\ op'.station = op.station
      /\ op'.call = op.call /\ op'.sent = op.sent
  BY <1>1 DEF StationTick, Operations
<1>3. /\ session'.state = session.state /\ session'.peer = session.peer
      /\ session'.generation = session.generation
      /\ dispatch'.state = dispatch.state /\ dispatch'.cmd = dispatch.cmd
      /\ ack'.state = ack.state /\ ack'.cmd = ack.cmd
  BY <1>1 DEF StationTick, Tick, Sessions, Dispatches, Acks
<1>4. terminal' = terminal /\ fault' = fault /\ phase' # "packet"
  BY DEF StationTick, Tick
<1>5. /\ World'.op = op' /\ World'.session = session' /\ World'.control = Control
      /\ World'.dispatch = dispatch' /\ World'.ack = ack'
      /\ World.op = op /\ World.session = session /\ World.control = Control
      /\ World.dispatch = dispatch /\ World.ack = ack
  BY <1>4 DEF World, Control
<1>6. Resembles(World, World')
  BY <1>2, <1>3, <1>5 DEF Resembles, DispatchActive
<1> QED BY <1>4, <1>6, ResemblesReaches

LEMMA StationNoPacketTells ==
  ASSUME TellInv, StationNoPacket
  PROVE  Reaches(World')
<1>1. World' = World /\ phase' # "packet"
  BY DEF StationNoPacket, NoPacket, World, Control
<1>2. Resembles(World, World)
  BY DEF Resembles
<1> QED BY <1>1, <1>2, ResemblesReaches

LEMMA StationNextTells ==
  ASSUME TellInv, StationNext
  PROVE  Reaches(World')
<1>1. ASSUME NEW g \in Generations, AnswerCall(g) \/ HangupGeneration(g)
      PROVE  Reaches(World')
  BY <1>1, AnswerCallTells, HangupGenerationTells
<1>2. ASSUME NEW p \in Registered, Admit(p) PROVE Reaches(World')
  BY <1>2, AdmitTells
<1>3. ASSUME NEW p \in Registered, NEW g \in MediaGenerations, HangupStation(p, g)
      PROVE  Reaches(World')
  BY <1>3, HangupStationTells
<1>4. ASSUME NEW p \in Registered,
             MonitorStart(p) \/ MonitorViewer(p) \/ MonitorStop(p) \/ MediaChange(p)
      PROVE  Reaches(World')
  <2>1. /\ phase = "poll" /\ UNCHANGED vars
        /\ op' = op \/ op' = [op EXCEPT !.owns = FALSE]
    BY <1>4 DEF MonitorStart, MonitorViewer, MonitorStop, MediaChange, Shared
  <2> QED BY <2>1, MediaTells
<1> QED
  BY <1>1, <1>2, <1>3, <1>4, RequestCallTells, StationCallStepTells,
     StationReceiveCallTells, StationReceiveTells, StationNoPacketTells,
     StationCaptureLostTells, StationTickTells DEF StationNext

LEMMA TellInitInv == StationInit => TellInv
<1> SUFFICES ASSUME StationInit PROVE TellInv
  OBVIOUS
<1>1. StationInv
  BY StationInitInv
<1>2. op.stage = "none" /\ phase = "poll"
  BY DEF StationInit, Init, NoOperation
<1>3. session.generation \in Nat /\ terminal.generation = 0
  BY <1>1, InvWhole, SessionParts DEF TypeOK, StationInit, Init
<1>4. Dated(session, Control)
  BY <1>3 DEF Dated, Control
<1> QED BY <1>1, <1>2, <1>4, WorldIs DEF TellInv, Fits, Under

LEMMA TellNextInv == TellInv /\ [StationNext]_stationVars => TellInv'
<1> SUFFICES ASSUME TellInv, [StationNext]_stationVars PROVE TellInv'
  OBVIOUS
<1>1. StationInv'
  BY StationNextInv DEF TellInv
<1>2. CASE StationNext
  BY <1>1, <1>2, StationNextTells DEF TellInv, Reaches
<1>3. CASE UNCHANGED stationVars
  <2>1. World' = World /\ phase' = phase
    BY <1>3 DEF stationVars, vars, World, Control
  <2> QED BY <1>1, <2>1 DEF TellInv
<1> QED BY <1>2, <1>3

\* A placed call that is under way is the one that call control runs, with no
\* record of its end and nothing to be sent but its CALL; before a packet is
\* handled, its media are its own.
THEOREM TellInvariant == StationSpec => []TellInv
<1> QED BY TellInitInv, TellNextInv, PTL DEF StationSpec

\* A station that was told of a call is told of its end: whatever step, packet,
\* user or failure ends an operation whose CALL was sent, the hangup of the call
\* is what the slot sent last, unless the peer, the deadline, another caller or
\* the network ended it.
THEOREM PeerTold == StationSpec => PeerIsTold
<1> DEFINE Tell == op.sent /\ op.stage \in {"calling", "talking"}
                     /\ op'.stage \in {"ended", "failed"}
                     => \/ op'.reason \in {"peer_hangup", "session_timeout", "preempted",
                                          "heartbeat_timeout", "runtime_reset"}
                        \/ op'.reason = "local_hangup" /\ phase = "packet"
                        \/ dispatch'.cmd.type = "hangup"
                             /\ dispatch'.cmd.generation = op.call
<1>1. TellInv /\ [StationNext]_stationVars => [Tell]_stationVars
  <2> SUFFICES ASSUME TellInv, StationNext, op.sent, Under(op), Finished(op')
               PROVE  Tell
    BY DEF Under, Finished
  <2>1. Accounted(World', op.call, Excuses)
    BY StationNextTells DEF Reaches
  <2>2. World'.op = op' /\ World'.dispatch = dispatch'
    BY DEF World
  <2>3. op'.reason \in Excuses \/ Hung(World', op.call)
    BY <2>1, <2>2 DEF Accounted, Under, Finished
  <2> QED BY <2>2, <2>3 DEF Excuses, Hung
<1> QED BY <1>1, TellInvariant, PTL DEF StationSpec, PeerIsTold

-----------------------------------------------------------------------------
(* The preview that somebody watches *)

\* The session of an incoming call.
Loose(m) == m.active /\ m.purpose = "call" /\ ~m.handoff

\* Session n is what became of m without a new one taking its place.
Modest(m, n) ==
  /\ n.generation \in {0, m.generation}
  /\ Loose(n) => Loose(m) /\ n.generation = m.generation

Meek(ms, ns) == \A i \in Registered : Modest(ms[i], ns[i])

\* A CALL that was delivered is known to the operation.
Noted(y) ==
  OpActive(y.op) /\ y.op.stage # "preparing"
    /\ y.dispatch.state = "sent" /\ y.dispatch.cmd.type = "call"
  => y.op.sent

\* Sessions are numbered as they come, and that of the operation is no incoming
\* call's.
Counted(y) ==
  /\ \A i \in Registered : y.media[i].generation <= y.last
  /\ OpActive(y.op) =>
       /\ y.op.media <= y.last
       /\ y.media[y.op.station].generation = y.op.media
            => ~Loose(y.media[y.op.station])

\* The operation has announced nothing, and somebody watches its session.
Viewing(y, p, g) ==
  /\ OpActive(y.op) /\ ~y.op.sent
  /\ y.op.station = p /\ y.op.media = g
  /\ Keyed(y.media, p, g)
  /\ y.media[p].viewer /\ y.media[p].pending = "none"
  /\ ~Loose(y.media[p])

\* The operation is over and somebody watches what was its session.
Spared(y, p, g) ==
  /\ ~OpActive(y.op)
  /\ y.media[p].generation = g
  /\ y.media[p].purpose = "preview"
  /\ y.media[p].viewer

\* From world y to world z nothing new begins, and what is watched is spared.
Tends(y, z) ==
  /\ z.last = y.last
  /\ OpActive(z.op) =>
       OpActive(y.op) /\ z.op.station = y.op.station /\ z.op.media = y.op.media
  /\ Meek(y.media, z.media)

Spares(y, z) ==
  \A p \in Registered : \A g :
    Viewing(y, p, g) \/ Spared(y, p, g) => Viewing(z, p, g) \/ Spared(z, p, g)

LEMMA ModestSelf == ASSUME NEW m PROVE Modest(m, m)
BY DEF Modest

LEMMA MeekSelf == ASSUME NEW ms PROVE Meek(ms, ms)
BY ModestSelf DEF Meek

LEMMA MeekTwice ==
  ASSUME NEW ms, NEW ns, NEW os, Meek(ms, ns), Meek(ns, os)
  PROVE  Meek(ms, os)
BY DEF Meek, Modest

LEMMA TendsTwice ==
  ASSUME NEW y, NEW z, NEW w, Tends(y, z), Tends(z, w)
  PROVE  Tends(y, w)
<1>1. Meek(y.media, w.media)
  BY MeekTwice DEF Tends
<1> QED BY <1>1 DEF Tends

LEMMA SparesTwice ==
  ASSUME NEW y, NEW z, NEW w, Spares(y, z), Spares(z, w)
  PROVE  Spares(y, w)
BY DEF Spares

\* Nothing but the operation, its media and the numbers of the sessions matters.
LEMMA SameTends ==
  ASSUME NEW y, NEW z, z.op = y.op, z.media = y.media, z.last = y.last
  PROVE  Tends(y, z) /\ Spares(y, z)
<1>1. Tends(y, z)
  BY MeekSelf DEF Tends
<1>2. Spares(y, z)
  BY DEF Spares, Viewing, Spared
<1> QED BY <1>1, <1>2

LEMMA TendsCounted ==
  ASSUME NEW y, NEW z, y.last \in Nat, Tends(y, z), Counted(y),
         OpActive(y.op) => y.op.station \in Registered
  PROVE  Counted(z)
<1>1. z.last = y.last /\ Meek(y.media, z.media)
  BY DEF Tends
<1>2. \A i \in Registered : z.media[i].generation <= z.last
  BY <1>1 DEF Meek, Modest, Counted
<1>3. ASSUME OpActive(z.op)
      PROVE  /\ z.op.media <= z.last
             /\ z.media[z.op.station].generation = z.op.media
                  => ~Loose(z.media[z.op.station])
  <2>1. /\ OpActive(y.op) /\ z.op.station = y.op.station /\ z.op.media = y.op.media
        /\ y.op.station \in Registered
    BY <1>3 DEF Tends
  <2>2. Modest(y.media[y.op.station], z.media[y.op.station])
    BY <1>1, <2>1 DEF Meek
  <2> QED BY <1>1, <2>1, <2>2 DEF Modest, Counted
<1> QED BY <1>2, <1>3 DEF Counted

LEMMA ReplacedMeek ==
  ASSUME NEW ms \in Medias, NEW p \in Registered, NEW n, Modest(ms[p], n)
  PROVE  Meek(ms, Replaced(ms, p, n))
BY ModestSelf DEF Meek, Replaced, Medias

LEMMA NoMediaModest == ASSUME NEW m PROVE Modest(m, NoMedia)
BY DEF Modest, NoMedia, Loose

LEMMA ReleaseMeek ==
  ASSUME NEW ms \in Medias, NEW p \in Registered, NEW reason, NEW stops
  PROVE  Meek(ms, Release(ms, p, reason, stops).media)
<1> DEFINE n == IF stops THEN NoMedia ELSE Leaving(ms[p], reason)
<1>1. Release(ms, p, reason, stops).media = Replaced(ms, p, n)
  BY ReleaseIs DEF Done
<1>2. ms[p] \in MediaSessions
  BY DEF Medias
<1>3. Modest(ms[p], Leaving(ms[p], reason))
  BY <1>2 DEF Modest, Loose, Leaving, MediaSessions
<1>4. Modest(ms[p], n)
  BY <1>3, NoMediaModest
<1> HIDE DEF n
<1> QED BY <1>1, <1>4, ReplacedMeek

LEMMA RollbackMeek ==
  ASSUME NEW ms \in Medias, NEW p \in Registered, NEW g, NEW c
  PROVE  Meek(ms, Rollback(ms, p, g, c).media)
<1> DEFINE n == Demoted(ms[p])
<1>1. ms[p] \in MediaSessions
  BY DEF Medias
<1>2. Modest(ms[p], n)
  BY <1>1 DEF Modest, Loose, Demoted, MediaSessions
<1>3. Rollback(ms, p, g, c).media \in {ms, Replaced(ms, p, n)}
  BY DEF Rollback, Replaced, Demoted, Medias, Done
<1> HIDE DEF n
<1> QED BY <1>2, <1>3, ReplacedMeek, MeekSelf

LEMMA StopPreviewMeek ==
  ASSUME NEW ms \in Medias, NEW p \in Registered, NEW g, NEW stops
  PROVE  Meek(ms, StopPreview(ms, p, g, stops).media)
<1> DEFINE n == Halted(ms[p])
<1>1. ms[p] \in MediaSessions
  BY DEF Medias
<1>2. Modest(ms[p], n)
  BY <1>1 DEF Modest, Loose, Halted, MediaSessions
<1>3. StopPreview(ms, p, g, stops).media
        \in {ms, Replaced(ms, p, n), Replaced(ms, p, NoMedia)}
  BY DEF StopPreview, Replaced, Halted, Medias, Done
<1> HIDE DEF n
<1> QED BY <1>2, <1>3, ReplacedMeek, NoMediaModest, MeekSelf

\* What the end of an operation makes of the sessions.
LEMMA CleanupMeek ==
  ASSUME NEW y \in Worlds, y.op.station \in Registered, Fetched(y.op, y.media),
         NEW reason, NEW stops \in BOOLEAN
  PROVE  Meek(y.media, Cleanup(y, reason, stops).to.media)
<1> DEFINE o == y.op
           p == o.station
           ms == y.media
           keyed == Keyed(ms, p, o.media)
           undo == Undone(o, ms, reason, stops)
           gone == PreviewGone(o, Owns(y), undo, stops)
           back == Rollback(ms, p, o.media, o.call)
           out == Release(ms, p, OutboundReason(reason), stops)
<1>1. o \in Operations /\ ms \in Medias
  BY WorldParts
<1>2. Cleanup(y, reason, stops).to.media = IF keyed THEN gone.media ELSE ms
  BY DEF Cleanup, Worlds
<1>3. undo.media \in {ms, back.media, out.media}
  BY DEF Undone, ReleaseOutbound, Done
<1>4. Meek(ms, back.media) /\ Meek(ms, out.media)
  BY <1>1, RollbackMeek, ReleaseMeek
<1>5. keyed => undo.media \in Medias
  BY <1>1, UndoneMild DEF Mild
<1> HIDE DEF back, out, undo, keyed
<1>6. Meek(ms, undo.media)
  BY <1>3, <1>4, MeekSelf
<1>7. gone.media \in {undo.media, StopPreview(undo.media, p, o.media, stops).media}
  BY DEF PreviewGone
<1>8. undo.media \in Medias
        => Meek(undo.media, StopPreview(undo.media, p, o.media, stops).media)
  BY StopPreviewMeek
<1> HIDE DEF gone
<1>9. keyed => Meek(ms, gone.media)
  BY <1>5, <1>6, <1>7, <1>8, MeekTwice
<1> QED BY <1>2, <1>9, MeekSelf

LEMMA CleanupSpares ==
  ASSUME NEW y \in Worlds, Fetched(y.op, y.media), NEW p \in Registered, NEW g,
         Viewing(y, p, g), NEW reason, NEW stops
  PROVE  LET m == Cleanup(y, reason, stops).to.media[p]
         IN m.generation = g /\ m.purpose = "preview" /\ m.viewer
<1> DEFINE o == y.op
           ms == y.media
           m == ms[p]
           undo == Undone(o, ms, reason, stops)
           n == Cleanup(y, reason, stops).to.media[p]
<1>1. /\ OpActive(o) /\ ~o.sent /\ o.station = p /\ o.media = g
      /\ Keyed(ms, p, g) /\ m.viewer /\ m.pending = "none" /\ ~Loose(m)
  BY DEF Viewing
<1>2. ms \in Medias /\ m \in MediaSessions
  BY WorldParts DEF Medias
<1>3. m.active /\ m.generation = g
  BY <1>1 DEF Keyed
<1>4. Cleanup(y, reason, stops).to.media = undo.media
  <2>1. ~Owns(y)
    BY <1>1 DEF Owns
  <2>2. PreviewGone(o, Owns(y), undo, stops) = undo
    BY <2>1 DEF PreviewGone, GoesToo
  <2> QED BY <1>1, <2>2 DEF Cleanup, Worlds
<1>5. m.handoff => o.promoted /\ o.call = m.call /\ ~m.sent
  BY <1>1 DEF Fetched, Handed, Mine
<1>6. ~m.handoff => m.purpose = "preview"
  BY <1>1, <1>2, <1>3 DEF Loose, MediaSessions
<1>7. undo.media = IF m.handoff THEN Replaced(ms, p, Demoted(m)) ELSE ms
  <2>1. undo = IF ~o.promoted THEN Done(TRUE, ms) ELSE Rollback(ms, p, g, o.call)
    BY <1>1 DEF Undone
  <2>2. Rollback(ms, p, g, o.call).media
          = IF m.handoff /\ m.call = o.call /\ ~m.sent
            THEN Replaced(ms, p, Demoted(m)) ELSE ms
    BY <1>1, <1>2 DEF Rollback, Replaced, Demoted, Medias, Done
  <2> HIDE DEF undo, m
  <2>3. Done(TRUE, ms).media = ms
    BY DEF Done
  <2> QED BY <1>5, <2>1, <2>2, <2>3
<1>8. n = IF m.handoff THEN Demoted(m) ELSE m
  BY <1>2, <1>4, <1>7 DEF Replaced, Medias
<1>9. /\ Demoted(m).generation = m.generation /\ Demoted(m).purpose = "preview"
      /\ Demoted(m).viewer = m.viewer
  BY <1>2 DEF Demoted, MediaSessions
<1> QED BY <1>1, <1>3, <1>6, <1>8, <1>9

LEMMA ConcludeSpares ==
  ASSUME NEW y, Whole(y), y.op.station \in Registered,
         NEW verdict \in Verdicts, NEW stops \in BOOLEAN
  PROVE  LET z == Conclude(y, verdict, stops)
         IN /\ z.last = y.last /\ Meek(y.media, z.media) /\ ~OpActive(z.op)
            /\ \A p \in Registered : \A g : Viewing(y, p, g) => Spared(z, p, g)
<1> DEFINE reason == verdict.reason
           why == verdict.fault
           c == ReleaseControl(y, reason, why)
           clean == Cleanup(c, reason, stops)
           t == clean.to
           n == Settled(Judged(t.op, verdict.error \/ ~clean.ok, verdict, ~clean.ok))
           z == Conclude(y, verdict, stops)
<1> y \in Worlds /\ Kept(y)
  BY DEF Whole
<1>1. reason \in EndReasons /\ why \in Faults
  BY DEF Verdicts
<1>2. LET x == ReleaseControl(y, reason, why)
      IN /\ x \in Worlds
         /\ x.op = y.op /\ x.media = y.media /\ x.last = y.last
         /\ x.session = IF OwnerMatches(y) THEN Abort(y.session) ELSE y.session
         /\ OwnerMatches(y) => /\ x.control.terminal.generation = y.op.call
                               /\ x.control.terminal.reason = reason
         /\ ~OwnerMatches(y) => x.control = y.control
  BY <1>1, ReleaseControlIs
<1>3. c \in Worlds /\ c.op = y.op /\ c.media = y.media /\ c.last = y.last
  BY <1>2
<1> HIDE DEF c, reason, why
<1>4. c.op.station \in Registered /\ Fetched(c.op, c.media)
  BY <1>3 DEF Kept
<1>5. Cleaned(c, Cleanup(c, reason, stops))
  BY <1>3, <1>4, CleanupIs
<1>6. t \in Worlds /\ t.last = c.last
  BY <1>5 DEF Cleaned
<1>7. Meek(c.media, t.media)
  BY <1>3, <1>4, CleanupMeek
<1>8. \A p \in Registered : \A g : Viewing(c, p, g) =>
        /\ t.media[p].generation = g /\ t.media[p].purpose = "preview"
        /\ t.media[p].viewer
  BY <1>3, <1>4, CleanupSpares
<1>9. z = [t EXCEPT !.op = n]
  BY <1>6 DEF Conclude, Concluded, Worlds, c, reason, why
<1> HIDE DEF clean, n
<1>10. z.media = t.media /\ z.last = t.last
  BY <1>6, <1>9 DEF Worlds
<1>11. ~OpActive(z.op)
  <2>1. LET w == Conclude(y, verdict, stops)
        IN /\ w \in Worlds
           /\ Kept(w)
           /\ Over(y.op, w.op, verdict)
           /\ w.session.generation = y.session.generation
    BY ConcludeIs
  <2> QED BY <2>1 DEF Over, OpActive
<1> HIDE DEF z
<1>12. \A p, g : Viewing(y, p, g) => Viewing(c, p, g)
  BY <1>3 DEF Viewing
<1>13. \A p \in Registered : \A g : Viewing(y, p, g) => Spared(z, p, g)
  BY <1>8, <1>10, <1>11, <1>12 DEF Spared
<1> QED BY <1>3, <1>6, <1>7, <1>10, <1>11, <1>13 DEF z

-----------------------------------------------------------------------------
(* The step of the operation and what is watched *)

\* What becomes of world y when its operation is stepped or ended.
Minds(y, z) ==
  /\ Tends(y, z)
  /\ Noted(z)
  /\ Noted(y) => Spares(y, z)

LEMMA MindsTwice ==
  ASSUME NEW x, NEW y, NEW z, Tends(x, y), Noted(x) => Spares(x, y) /\ Noted(y),
         Minds(y, z)
  PROVE  Minds(x, z)
<1>1. Tends(x, z)
  BY TendsTwice DEF Minds
<1>2. Noted(x) => Spares(x, z)
  BY SparesTwice DEF Minds
<1> QED BY <1>1, <1>2 DEF Minds

LEMMA MindsSelf == ASSUME NEW y, Noted(y) PROVE Minds(y, y)
BY SameTends DEF Minds

\* However an operation ends, nothing new begins, and what is watched while
\* nothing was announced stays.
LEMMA EndTends ==
  ASSUME NEW y, Whole(y), y.op.station \in Registered, NEW error \in BOOLEAN,
         NEW reason \in EndReasons, NEW why \in Faults, NEW stops \in BOOLEAN
  PROVE  LET z == EndOperation(y, error, reason, why, stops)
         IN /\ Tends(y, z) /\ Noted(z)
            /\ \A p \in Registered : \A g : Viewing(y, p, g) => Spared(z, p, g)
<1> DEFINE c == CancelCommands(y, y.op.call)
           q == Queued(CommandFor("hangup", y.session))
           n == [y.op EXCEPT !.stage = "ending", !.left = EndTimeout, !.error = TRUE,
                             !.reason = reason, !.fault = why]
           x == [c EXCEPT !.dispatch = q, !.op = n]
           v == Verdict(y.op, error, reason, why)
           over == Conclude(y, v, stops)
           z == EndOperation(y, error, reason, why, stops)
           Goal == /\ Tends(y, z) /\ Noted(z)
                   /\ \A p \in Registered : \A g : Viewing(y, p, g) => Spared(z, p, g)
<1> SUFFICES Goal
  OBVIOUS
<1> y \in Worlds /\ Kept(y) /\ Typed(y) /\ y.op \in Operations
  BY WorldParts DEF Whole
<1>1. LET d == CancelCommands(y, y.op.call)
      IN /\ d \in Worlds
         /\ d.op = y.op /\ d.media = y.media /\ d.last = y.last
         /\ d.session = y.session /\ d.control = y.control
  BY CancelIs
<1>2. c \in Worlds /\ c.op = y.op /\ c.media = y.media /\ c.last = y.last
  BY <1>1
<1>3. z = IF Tells(y, error, reason) /\ Free(c) THEN x ELSE over
  BY <1>2 DEF EndOperation
<1> HIDE DEF c
<1>4. v \in Verdicts
  BY VerdictType
<1> HIDE DEF v
<1>5. LET w == Conclude(y, v, stops)
      IN /\ w.last = y.last /\ Meek(y.media, w.media) /\ ~OpActive(w.op)
         /\ \A p \in Registered : \A g : Viewing(y, p, g) => Spared(w, p, g)
  BY <1>4, ConcludeSpares
<1>6. /\ Tends(y, over) /\ Noted(over)
      /\ \A p \in Registered : \A g : Viewing(y, p, g) => Spared(over, p, g)
  BY <1>5 DEF Tends, Noted
<1> HIDE DEF over
<1>7. ASSUME Tells(y, error, reason)
      PROVE  /\ Tends(y, x) /\ Noted(x)
             /\ \A p \in Registered : \A g : Viewing(y, p, g) => Spared(x, p, g)
  <2> HIDE DEF q
  <2>1. n.station = y.op.station /\ n.media = y.op.media /\ n.sent = y.op.sent
    BY DEF Operations
  <2> HIDE DEF n
  <2>2. x.op = n /\ x.media = y.media /\ x.last = y.last
    BY <1>2 DEF Worlds
  <2> HIDE DEF x
  <2>3. y.op.sent /\ OwnerMatches(y) /\ Active(y.session)
    BY <1>7 DEF Tells
  <2>4. OpActive(y.op)
    BY <2>3 DEF Kept, Agreed, Numbered, OwnerMatches, OpActive, Operations, Stages
  <2>5. Tends(y, x)
    BY <2>1, <2>2, <2>4, MeekSelf DEF Tends
  <2>6. Noted(x)
    BY <2>1, <2>2, <2>3 DEF Noted
  <2> QED BY <2>3, <2>5, <2>6 DEF Viewing
<1> HIDE DEF x, z
<1> QED BY <1>3, <1>6, <1>7

LEMMA EndMinds ==
  ASSUME NEW y, Whole(y), OpActive(y.op), y.op.station \in Registered,
         NEW error \in BOOLEAN, NEW reason \in EndReasons, NEW why \in Faults,
         NEW stops \in BOOLEAN
  PROVE  Minds(y, EndOperation(y, error, reason, why, stops))
<1> DEFINE z == EndOperation(y, error, reason, why, stops)
<1>1. LET w == EndOperation(y, error, reason, why, stops)
      IN /\ Tends(y, w) /\ Noted(w)
         /\ \A p \in Registered : \A g : Viewing(y, p, g) => Spared(w, p, g)
  BY EndTends
<1>2. /\ Tends(y, z) /\ Noted(z)
      /\ \A p \in Registered : \A g : Viewing(y, p, g) => Spared(z, p, g)
  BY <1>1
<1> HIDE DEF z
<1>3. Spares(y, z)
  BY <1>2 DEF Spares, Spared
<1> QED BY <1>2, <1>3 DEF Minds, z

LEMMA FailsMinds ==
  ASSUME NEW y, Whole(y), OpActive(y.op), y.op.station \in Registered,
         NEW reason \in EndReasons, NEW why \in Faults, NEW stops \in BOOLEAN
  PROVE  Minds(y, EndOperation(y, TRUE, reason, why, stops))
<1> DEFINE yes == TRUE
<1>1. yes \in BOOLEAN
  OBVIOUS
<1> HIDE DEF yes
<1>2. Minds(y, EndOperation(y, yes, reason, why, stops))
  BY <1>1, EndMinds
<1> QED BY <1>2 DEF yes

LEMMA SeenTends ==
  ASSUME NEW y \in Worlds, NEW owns
  PROVE  LET z == [y EXCEPT !.op.owns = owns]
         IN Tends(y, z) /\ Spares(y, z) /\ (Noted(y) => Noted(z))
<1> DEFINE n == [y.op EXCEPT !.owns = owns]
           z == [y EXCEPT !.op = n]
<1> y.op \in Operations
  BY WorldParts
<1>1. /\ n.stage = y.op.stage /\ n.station = y.op.station
      /\ n.media = y.op.media /\ n.sent = y.op.sent
  BY DEF Operations
<1>2. [y EXCEPT !.op.owns = owns] = z
  BY DEF Worlds
<1> HIDE DEF n
<1>3. /\ z.op = n /\ z.media = y.media /\ z.last = y.last /\ z.dispatch = y.dispatch
  BY DEF Worlds
<1> HIDE DEF z
<1>4. Tends(y, z)
  BY <1>1, <1>3, MeekSelf DEF Tends, OpActive
<1>5. Spares(y, z)
  BY <1>1, <1>3 DEF Spares, Viewing, Spared, OpActive
<1>6. Noted(y) => Noted(z)
  BY <1>1, <1>3 DEF Noted, OpActive
<1> QED BY <1>2, <1>4, <1>5, <1>6

LEMMA StepOverMinds ==
  ASSUME NEW y, Whole(y), OpActive(y.op), y.op.station \in Registered,
         NEW stops \in BOOLEAN
  PROVE  Minds(y, StepOver(y, stops))
<1> DEFINE t == y.control.terminal
           known == t.generation = y.op.call
           bad == y.op.error \/ (known /\ t.fault # "none")
           reason == IF known THEN t.reason ELSE "unknown"
           why == IF known THEN t.fault ELSE "unknown"
<1>1. t \in Terminals
  BY WorldParts DEF Whole, Typed, Controls
<1>2. y.op.error \in BOOLEAN
  BY WorldParts DEF Whole, Operations
<1>3. bad \in BOOLEAN /\ reason \in EndReasons /\ why \in Faults
  BY <1>1, <1>2 DEF Terminals, EndReasons, Faults
<1>4. StepOver(y, stops) = EndOperation(y, bad, reason, why, stops)
  BY DEF StepOver
<1> HIDE DEF bad, reason, why
<1> QED BY <1>3, <1>4, EndMinds

LEMMA TalkingMinds ==
  ASSUME NEW y \in Worlds, OpActive(y.op), y.op.stage # "preparing", Noted(y)
  PROVE  Minds(y, [y EXCEPT !.op.stage = "talking"])
<1> DEFINE n == [y.op EXCEPT !.stage = "talking"]
           z == [y EXCEPT !.op = n]
<1> y.op \in Operations
  BY WorldParts
<1>1. /\ n.stage = "talking" /\ n.station = y.op.station
      /\ n.media = y.op.media /\ n.sent = y.op.sent
  BY DEF Operations
<1>2. [y EXCEPT !.op.stage = "talking"] = z
  BY DEF Worlds
<1> HIDE DEF n
<1>3. /\ z.op = n /\ z.media = y.media /\ z.last = y.last /\ z.dispatch = y.dispatch
  BY DEF Worlds
<1> HIDE DEF z
<1>4. Tends(y, z)
  BY <1>1, <1>3, MeekSelf DEF Tends, OpActive
<1>5. Spares(y, z)
  BY <1>1, <1>3 DEF Spares, Viewing, Spared, OpActive
<1>6. Noted(z)
  BY <1>1, <1>3 DEF Noted, OpActive
<1> QED BY <1>2, <1>4, <1>5, <1>6 DEF Minds

LEMMA StepCallMinds ==
  ASSUME NEW y, Whole(y), OpActive(y.op), y.op.station \in Registered,
         y.op.stage # "preparing", Noted(y), NEW m, NEW stops \in BOOLEAN
  PROVE  Minds(y, StepCall(y, m, stops))
<1> DEFINE End(reason, why) == EndOperation(y, TRUE, reason, why, stops)
           talking == [y EXCEPT !.op.stage = "talking"]
<1>1. y.control.fault \in Faults
  BY WorldParts DEF Whole, Typed, Controls
<1>2. /\ Minds(y, End("unknown", "unknown"))
      /\ Minds(y, End("unknown", y.control.fault))
      /\ Minds(y, End("confirmation_timeout", "confirmation_timeout"))
      /\ Minds(y, End("local_hangup", "dispatch_timeout"))
  <2>1. \A reason \in EndReasons, why \in Faults : Minds(y, End(reason, why))
    BY FailsMinds
  <2>2. /\ {"unknown", "confirmation_timeout", "local_hangup"} \subseteq EndReasons
        /\ {"unknown", "confirmation_timeout", "dispatch_timeout"} \subseteq Faults
    BY DEF EndReasons, Faults
  <2> HIDE DEF End
  <2> QED BY <1>1, <2>1, <2>2
<1>3. Minds(y, StepOver(y, stops)) /\ Minds(y, y)
  BY StepOverMinds, MindsSelf
<1>4. Minds(y, talking)
  BY TalkingMinds DEF Whole
<1>5. StepCall(y, m, stops) \in {StepOver(y, stops), y, talking,
                                 End("unknown", "unknown"),
                                 End("unknown", y.control.fault),
                                 End("confirmation_timeout", "confirmation_timeout"),
                                 End("local_hangup", "dispatch_timeout")}
  BY DEF StepCall
<1> HIDE DEF End, talking
<1> QED BY <1>2, <1>3, <1>4, <1>5

\* The session of the operation that is told of its CALL stays the one it is.
LEMMA ToldTends ==
  ASSUME NEW y, Whole(y), y.op.station \in Registered
  PROVE  LET mark == MarkSent(y.media, y.op.station, y.op.media, y.op.call)
             z == [y EXCEPT !.op.sent = TRUE, !.media = mark.media]
         IN Tends(y, z) /\ Noted(z)
<1> DEFINE o == y.op
           p == o.station
           ms == y.media
           mark == MarkSent(ms, p, o.media, o.call)
           n == [o EXCEPT !.sent = TRUE]
           m == [ms[p] EXCEPT !.sent = TRUE]
           told == [y EXCEPT !.op = n, !.media = mark.media]
<1> y \in Worlds /\ o \in Operations /\ ms \in Medias
  BY WorldParts DEF Whole
<1>1. n.stage = o.stage /\ n.station = o.station /\ n.media = o.media /\ n.sent = TRUE
  BY DEF Operations
<1>2. mark.media \in {ms, Replaced(ms, p, m)}
  BY DEF MarkSent, Done, Replaced, Medias
<1>3. ms[p] \in MediaSessions
  BY DEF Medias
<1>4. Modest(ms[p], m)
  BY <1>3 DEF Modest, Loose, MediaSessions
<1>5. [y EXCEPT !.op.sent = TRUE, !.media = mark.media] = told
  BY DEF Worlds
<1> HIDE DEF n, m, mark
<1>6. Meek(ms, mark.media)
  BY <1>2, <1>4, ReplacedMeek, MeekSelf
<1>7. told.op = n /\ told.media = mark.media /\ told.last = y.last
  BY DEF Worlds
<1> HIDE DEF told
<1>8. Tends(y, told)
  BY <1>1, <1>6, <1>7 DEF Tends, OpActive
<1>9. Noted(told)
  BY <1>1, <1>7 DEF Noted
<1> QED BY <1>5, <1>8, <1>9 DEF mark

LEMMA StepSentMinds ==
  ASSUME NEW y, Whole(y), OpActive(y.op), y.op.station \in Registered,
         y.op.stage # "preparing", NEW m, NEW stops \in BOOLEAN
  PROVE  Minds(y, StepSent(y, m, stops))
<1> DEFINE fresh == ~y.op.sent /\ y.dispatch.state = "sent" /\ y.dispatch.cmd.type = "call"
           mark == MarkSent(y.media, y.op.station, y.op.media, y.op.call)
           told == [y EXCEPT !.op.sent = TRUE, !.media = mark.media]
           end == EndOperation(told, TRUE, "unknown", "unknown", stops)
<1>1. CASE ~fresh
  BY <1>1, StepCallMinds DEF StepSent, Noted
<1>2. CASE fresh
  <2>1. StepSent(y, m, stops) \in {StepCall(told, m, stops), end}
    BY <1>2 DEF StepSent
  <2>2. Whole(told) /\ Knows(y, told)
    BY ToldIs
  <2>3. Tends(y, told) /\ Noted(told)
    BY ToldTends
  <2> HIDE DEF told
  <2>4. ~Noted(y)
    BY <1>2 DEF Noted
  <2>5. /\ OpActive(told.op) /\ told.op.station \in Registered
        /\ told.op.stage # "preparing"
    BY <2>2 DEF Knows, OpActive
  <2>6. Minds(told, StepCall(told, m, stops)) /\ Minds(told, end)
    BY <2>2, <2>3, <2>5, StepCallMinds, FailsMinds DEF EndReasons, Faults
  <2> HIDE DEF end
  <2>7. \A z : Minds(told, z) => Minds(y, z)
    BY <2>3, <2>4, MindsTwice
  <2> QED BY <2>1, <2>6, <2>7
<1> QED BY <1>1, <1>2

LEMMA InstallCallMinds ==
  ASSUME NEW y, Whole(y), y.op.stage = "preparing", y.op.station \in Registered, NEW room,
         Check(y.media, y.op.station, y.op.media, room) = "ok",
         MayInstall(y), NEW stops
  PROVE  Minds(y, InstallCall(y, stops))
<1> DEFINE z == InstallCall(y, stops)
           p == y.op.station
<1>1. Installed(y, z)
  BY InstallCallIs
<1> HIDE DEF z
<1>2. /\ z.op.stage = "calling" /\ z.op.station = p /\ z.op.media = y.op.media
      /\ z.op.sent = y.op.sent
      /\ z.dispatch.state = "queued" /\ z.last = y.last
      /\ Keyed(z.media, p, y.op.media)
      /\ z.media[p].handoff /\ z.media[p].pending = "none"
      /\ z.media[p].generation = y.media[p].generation
      /\ z.media[p].viewer = y.media[p].viewer
      /\ \A i \in Registered \ {p} : z.media[i] = y.media[i]
  BY <1>1 DEF Installed
<1>3. OpActive(y.op) /\ OpActive(z.op)
  BY <1>2 DEF OpActive
<1>4. Modest(y.media[p], z.media[p])
  BY <1>2 DEF Modest, Loose
<1>5. Meek(y.media, z.media)
  BY <1>2, <1>4, ModestSelf DEF Meek
<1>6. Tends(y, z)
  BY <1>2, <1>3, <1>5 DEF Tends
<1>7. Noted(z)
  BY <1>2 DEF Noted
<1>8. Spares(y, z)
  BY <1>2, <1>3 DEF Spares, Viewing, Spared, Loose
<1> QED BY <1>6, <1>7, <1>8 DEF Minds, z

LEMMA StepPreparingMinds ==
  ASSUME NEW y, Whole(y), y.op.stage = "preparing", y.op.station \in Registered,
         NEW room, NEW stops \in BOOLEAN
  PROVE  Minds(y, StepPreparing(y, room, stops))
<1> DEFINE answer == Check(y.media, y.op.station, y.op.media, room)
           gone == EndOperation(y, TRUE, "preempted", "preempted", stops)
           late == EndOperation(y, TRUE, "confirmation_timeout", "confirmation_timeout", stops)
           bad == EndOperation(y, TRUE, "unknown", "dispatch_failed", stops)
<1>0. OpActive(y.op) /\ Noted(y)
  BY DEF OpActive, Noted
<1>1. Minds(y, gone) /\ Minds(y, late) /\ Minds(y, bad)
  BY <1>0, FailsMinds DEF EndReasons, Faults
<1>2. answer = "ok" /\ MayInstall(y) => Minds(y, InstallCall(y, stops))
  BY InstallCallMinds
<1>3. Minds(y, y)
  BY <1>0, MindsSelf
<1>4. \/ StepPreparing(y, room, stops) \in {gone, late, bad, y}
      \/ answer = "ok" /\ MayInstall(y)
           /\ StepPreparing(y, room, stops) = InstallCall(y, stops)
  BY DEF StepPreparing
<1> HIDE DEF answer, gone, late, bad
<1> QED BY <1>1, <1>2, <1>3, <1>4

LEMMA StationStepMinds ==
  ASSUME NEW y, Whole(y), NEW room, NEW stops \in BOOLEAN
  PROVE  Minds(y, StationStep(y, room, stops))
<1> DEFINE o == y.op
           m == y.media[o.station]
           owns == Owns(y)
           seen == [y EXCEPT !.op.owns = owns]
           bad == EndOperation(y, TRUE, "unknown", "unknown", stops)
           gone == EndOperation(y, TRUE, "preempted", "preempted", stops)
           other == EndOperation(seen, TRUE, "preempted", "preempted", stops)
           z == StationStep(y, room, stops)
<1>1. CASE ~OpActive(o)
  <2>1. z = y /\ Noted(y)
    BY <1>1 DEF StationStep, Noted
  <2> QED BY <2>1, MindsSelf
<1>2. CASE OpActive(o)
  <2>1. o.station \in Registered
    BY <1>2 DEF Whole, Kept, Numbered, OpActive
  <2>2. Minds(y, bad) /\ Minds(y, gone)
    BY <1>2, <2>1, FailsMinds DEF EndReasons, Faults
  <2>3. \/ z \in {bad, gone, other}
        \/ o.stage = "preparing" /\ z = StepPreparing(seen, room, stops)
        \/ o.stage # "preparing" /\ z = StepSent(seen, m, stops)
    BY <1>2 DEF StationStep
  <2> HIDE DEF bad, gone, z, m
  <2>4. owns \in BOOLEAN
    BY OwnsType
  <2> HIDE DEF owns
  <2>5. Whole(seen) /\ Alike(y, seen)
    BY <2>4, OwnedWhole, SeenAlike DEF Whole
  <2>6. Tends(y, seen) /\ Spares(y, seen) /\ (Noted(y) => Noted(seen))
    BY SeenTends DEF Whole
  <2> HIDE DEF seen
  <2>7. \A w : Minds(seen, w) => Minds(y, w)
    BY <2>6, MindsTwice
  <2>8. OpActive(seen.op) /\ seen.op.station \in Registered /\ seen.op.stage = o.stage
    BY <1>2, <2>1, <2>5 DEF Alike, OpActive
  <2>9. Minds(seen, other)
    BY <2>5, <2>8, FailsMinds DEF EndReasons, Faults
  <2>10. o.stage = "preparing" => Minds(seen, StepPreparing(seen, room, stops))
    BY <2>5, <2>8, StepPreparingMinds
  <2>11. o.stage # "preparing" => Minds(seen, StepSent(seen, m, stops))
    BY <2>5, <2>8, StepSentMinds
  <2> HIDE DEF other
  <2>12. Minds(y, z)
    BY <2>2, <2>3, <2>7, <2>9, <2>10, <2>11
  <2> QED BY <2>12 DEF z
<1> QED BY <1>1, <1>2

\* The media of an incoming call that ended are not the operation's.
LEMMA ReleaseEndedTends ==
  ASSUME NEW y, Whole(y), NEW stops \in BOOLEAN
  PROVE  LET z == ReleaseEnded(y, stops)
         IN Tends(y, z) /\ Spares(y, z) /\ (Noted(y) => Noted(z))
<1> DEFINE p == y.session.peer
           why == IncomingReason(y.control.terminal.reason)
           r == ReleaseIncoming(y.media, p, y.session.generation, why, stops)
           out == Release(y.media, p, why, stops)
           gone == [y EXCEPT !.media = out.media]
           z == ReleaseEnded(y, stops)
<1> y \in Worlds /\ y.media \in Medias
  BY WorldParts DEF Whole
<1>1. \/ z = y
      \/ p \in Registered /\ Loose(y.media[p]) /\ z = gone
  <2>1. \/ z = y
        \/ /\ p \in Registered /\ y.media[p].active /\ y.media[p].purpose = "call"
           /\ z = [y EXCEPT !.media = r.media]
    BY DEF ReleaseEnded
  <2>2. \/ r.media = y.media
        \/ ~y.media[p].handoff /\ r.media = out.media
    BY DEF ReleaseIncoming, Done
  <2>3. [y EXCEPT !.media = y.media] = y
    BY DEF Worlds
  <2> HIDE DEF r, out, z
  <2> QED BY <2>1, <2>2, <2>3 DEF Loose
<1>2. ASSUME p \in Registered, Loose(y.media[p])
      PROVE  Tends(y, gone) /\ Spares(y, gone) /\ (Noted(y) => Noted(gone))
  <2>1. Meek(y.media, out.media)
    BY <1>2, ReleaseMeek
  <2>2. \A i \in Registered \ {p} : out.media[i] = y.media[i]
    <3> DEFINE n == IF stops THEN NoMedia ELSE Leaving(y.media[p], why)
    <3>1. out.media = Replaced(y.media, p, n)
      BY <1>2, ReleaseIs DEF Done
    <3> HIDE DEF n, out
    <3> QED BY <3>1 DEF Replaced, Medias
  <2> HIDE DEF out
  <2>3. /\ gone.op = y.op /\ gone.media = out.media /\ gone.last = y.last
        /\ gone.dispatch = y.dispatch
    BY DEF Worlds
  <2> HIDE DEF gone
  <2>4. Tends(y, gone)
    BY <2>1, <2>3 DEF Tends
  <2>5. Spares(y, gone)
    <3>1. y.media[p].purpose = "call"
      BY <1>2 DEF Loose
    <3>2. \A i \in Registered : \A g :
            Viewing(y, i, g) \/ Spared(y, i, g) => i # p
      BY <1>2, <3>1 DEF Viewing, Spared
    <3> QED BY <2>2, <2>3, <3>2 DEF Spares, Viewing, Spared, Keyed
  <2>6. Noted(y) => Noted(gone)
    BY <2>3 DEF Noted
  <2> QED BY <2>4, <2>5, <2>6
<1>3. Tends(y, y) /\ Spares(y, y)
  BY SameTends
<1> HIDE DEF gone, z
<1>4. Tends(y, z) /\ Spares(y, z) /\ (Noted(y) => Noted(z))
  BY <1>1, <1>2, <1>3
<1> QED BY <1>4 DEF z

-----------------------------------------------------------------------------
(* A step, a packet and what is watched *)

\* A command is sent in the step that put it on the wire.
LEMMA StepFromSends ==
  ASSUME NEW x, x.dispatch \in Dispatches,
         NEW sent1, NEW sent2, NEW sent3 \in BOOLEAN
  PROVE  LET r == StepFrom(x, sent1, sent2, sent3)
         IN /\ r.dispatch.cmd = x.dispatch.cmd
            /\ r.dispatch.state = "sent"
                 => x.dispatch.state = "sent" \/ x.dispatch.cmd \in r.wire
<1> DEFINE d == x.dispatch
           t == StepTimers(x.session, x.deadline, x.ack, x.handshake, x.control)
           next == DispatchStep(d, t.session, sent3)
           m == StepDispatch(t, d, x.session, sent3)
           r == StepFrom(x, sent1, sent2, sent3)
           Goal == /\ r.dispatch.cmd = d.cmd
                   /\ r.dispatch.state = "sent" => d.state = "sent" \/ d.cmd \in r.wire
<1> SUFFICES Goal
  OBVIOUS
<1>1. r.dispatch = m.dispatch /\ m.wire \subseteq r.wire
  BY DEF StepFrom, StepSlots, StepDone
<1> HIDE DEF r
<1>2. m.dispatch = next /\ m.wire = {cmd \in {d.cmd} : Transmits(d, t.session)}
  BY DEF StepDispatch
<1> HIDE DEF m, t
<1>3. next.cmd = d.cmd
  BY DispatchStepSent
<1>4. next.state = "sent" => d.state = "sent" \/ Transmits(d, t.session)
  BY DEF DispatchStep, Transmits, Finish, AttemptFailed, DispatchActive, Dispatches
<1> HIDE DEF next
<1> QED BY <1>1, <1>2, <1>3, <1>4

\* What call control makes of its part is no matter of the media.
LEMMA WithControlTends ==
  ASSUME NEW y \in Worlds, NEW r
  PROVE  LET z == WithControl(y, r)
         IN /\ Tends(y, z) /\ Spares(y, z)
            /\ z.op = y.op /\ z.dispatch = r.dispatch
<1> DEFINE z == WithControl(y, r)
<1>1. z.op = y.op /\ z.media = y.media /\ z.last = y.last /\ z.dispatch = r.dispatch
  BY DEF WithControl, Worlds
<1> HIDE DEF z
<1>2. Tends(y, z) /\ Spares(y, z)
  BY <1>1, SameTends
<1> QED BY <1>1, <1>2 DEF z

LEMMA ReleaseEndedMinds ==
  ASSUME NEW y, NEW z, Whole(z), Minds(y, z), NEW stops \in BOOLEAN
  PROVE  Minds(y, ReleaseEnded(z, stops))
<1> DEFINE w == ReleaseEnded(z, stops)
<1>1. LET x == ReleaseEnded(z, stops)
      IN Tends(z, x) /\ Spares(z, x) /\ (Noted(z) => Noted(x))
  BY ReleaseEndedTends
<1>2. Tends(z, w) /\ Spares(z, w) /\ (Noted(z) => Noted(w))
  BY <1>1
<1> HIDE DEF w
<1>3. Minds(y, w)
  BY <1>2, TendsTwice, SparesTwice DEF Minds
<1> QED BY <1>3 DEF w

\* The step of call control spares what is watched unless it sent a CALL.
LEMMA CallStepMinds ==
  ASSUME NEW y, Whole(y), NEW sent1 \in BOOLEAN, NEW sent2 \in BOOLEAN,
         NEW sent3 \in BOOLEAN, NEW room, NEW stops \in BOOLEAN
  PROVE  LET r == CallStep(y, sent1, sent2, sent3, room, stops)
         IN /\ Tends(y, r.to) /\ Noted(r.to)
            /\ Noted(y) /\ (\A cmd \in r.wire : cmd.type # "call") => Spares(y, r.to)
<1> DEFINE a == StationStep(y, room, stops)
           k == StepFrom(a, sent1, sent2, sent3)
           b == WithControl(a, k)
           c == StationStep(b, room, stops)
           z == ReleaseEnded(c, stops)
           r == CallStep(y, sent1, sent2, sent3, room, stops)
           quiet == \A cmd \in r.wire : cmd.type # "call"
           Goal == Tends(y, r.to) /\ Noted(r.to) /\ (Noted(y) /\ quiet => Spares(y, r.to))
<1> SUFFICES Goal
  OBVIOUS
<1>1. r.wire = k.wire /\ r.to = z
  BY DEF CallStep, StationAfter
<1> HIDE DEF r
<1>2. Whole(a) /\ Minds(y, a)
  BY StationStepKept, StationStepMinds
<1> HIDE DEF a
<1>3. a \in Worlds /\ a.dispatch \in Dispatches
  BY <1>2, WorldParts DEF Whole, Typed
<1>4. LET q == StepFrom(a, sent1, sent2, sent3)
      IN /\ Typed(q)
         /\ q.wire \subseteq Commands
         /\ WithControl(a, q) \in Worlds
         /\ Carries(a, WithControl(a, q))
  BY <1>3, StepFromWorld
<1>5. LET q == StepFrom(a, sent1, sent2, sent3)
      IN /\ q.dispatch.cmd = a.dispatch.cmd
         /\ q.dispatch.state = "sent"
              => a.dispatch.state = "sent" \/ a.dispatch.cmd \in q.wire
  BY <1>3, StepFromSends
<1>6. /\ b \in Worlds /\ Carries(a, b)
      /\ k.dispatch.cmd = a.dispatch.cmd
      /\ k.dispatch.state = "sent"
           => a.dispatch.state = "sent" \/ a.dispatch.cmd \in k.wire
  BY <1>4, <1>5
<1> HIDE DEF k
<1>7. LET w == WithControl(a, k)
      IN /\ Tends(a, w) /\ Spares(a, w)
         /\ w.op = a.op /\ w.dispatch = k.dispatch
  BY <1>3, WithControlTends
<1>8. Tends(a, b) /\ Spares(a, b) /\ b.op = a.op /\ b.dispatch = k.dispatch
  BY <1>7
<1>9. Whole(b)
  BY <1>2, <1>6, CarriesKept DEF Whole
<1> HIDE DEF b
<1>10. quiet => Noted(b)
  BY <1>1, <1>2, <1>6, <1>8 DEF Minds, Noted
<1>11. Whole(c) /\ Minds(b, c)
  BY <1>9, StationStepKept, StationStepMinds
<1> HIDE DEF c
<1>12. Minds(b, z)
  BY <1>11, ReleaseEndedMinds
<1> HIDE DEF z
<1>13. Tends(y, z)
  <2>1. Tends(y, b)
    BY <1>2, <1>8, TendsTwice DEF Minds
  <2> QED BY <1>12, <2>1, TendsTwice DEF Minds
<1>14. Noted(y) /\ quiet => Spares(y, z)
  <2>1. Noted(y) => Spares(y, b)
    BY <1>2, <1>8, SparesTwice DEF Minds
  <2> QED BY <1>10, <1>12, <2>1, SparesTwice DEF Minds
<1> QED BY <1>1, <1>12, <1>13, <1>14 DEF Minds

LEMMA ReceiveFromSlot ==
  ASSUME NEW y \in Worlds, NEW f
  PROVE  ReceiveFrom(y, f).to.dispatch = y.dispatch
<1> DEFINE x == ReceiveFrom(y, f).to
<1>1. CASE f.kind \in {"ask", "reply"}
  BY <1>1 DEF ReceiveFrom, ReceiveHeartbeat, Worlds
<1>2. CASE f.kind \notin {"ask", "reply"}
  BY <1>2 DEF ReceiveFrom, ReceiveControl, ControlReceived, Worlds
<1> QED BY <1>1, <1>2

LEMMA ReceiveControlFrameMinds ==
  ASSUME NEW y, Whole(y), NEW f, Framed(f), NEW room, NEW stops \in BOOLEAN
  PROVE  Minds(y, ReceiveControlFrame(y, f, room, stops))
<1> DEFINE x == ReceiveFrom(y, f).to
           a == WithControl(y, x)
           b == StationStep(a, room, stops)
           z == ReleaseEnded(b, stops)
<1> y \in Worlds
  BY DEF Whole
<1>1. LET w == ReceiveFrom(y, f).to
      IN Typed(w) /\ Carries(y, w)
  BY ReceiveFromWorld
<1>2. Typed(x) /\ Carries(y, x) /\ x.dispatch = y.dispatch
  BY <1>1, ReceiveFromSlot
<1>3. ReceiveControlFrame(y, f, room, stops) = z
  BY DEF ReceiveControlFrame
<1> HIDE DEF x
<1>4. Whole(a)
  BY <1>2, CarriedWhole DEF Carries
<1>5. LET w == WithControl(y, x)
      IN /\ Tends(y, w) /\ Spares(y, w)
         /\ w.op = y.op /\ w.dispatch = x.dispatch
  BY WithControlTends
<1>6. Tends(y, a) /\ Spares(y, a) /\ (Noted(y) => Noted(a))
  BY <1>2, <1>5 DEF Noted
<1> HIDE DEF a
<1>7. Whole(b) /\ Minds(a, b)
  BY <1>4, StationStepKept, StationStepMinds
<1> HIDE DEF b
<1>8. Minds(a, z)
  BY <1>7, ReleaseEndedMinds
<1> HIDE DEF z
<1> QED BY <1>3, <1>6, <1>8, MindsTwice

-----------------------------------------------------------------------------
(* New sessions and their numbers *)

Numbers(ms, l) == \A i \in Registered : ms[i].generation <= l

\* One session takes the next number; no other one is new.
Added(ms, ns, l, p) ==
  /\ ns[p].generation = l + 1
  /\ \A i \in Registered \ {p} : Modest(ms[i], ns[i])

LEMMA AddedNumbers ==
  ASSUME NEW ms \in Medias, NEW l \in MediaGenerations, Numbers(ms, l), NEW ns,
         NEW p \in Registered, Added(ms, ns, l, p)
  PROVE  LastGeneration(l, ns) = l + 1 /\ Numbers(ns, l + 1)
<1>1. l \in Nat /\ \A i \in Registered : ms[i].generation \in Nat
  BY DEF Medias, MediaSessions, MediaGenerations
<1>2. l + 1 > l
  BY <1>1
<1>3. LastGeneration(l, ns) = l + 1
  BY <1>2 DEF LastGeneration, Added
<1>4. \A i \in Registered : ns[i].generation \in {0, ms[i].generation, l + 1}
  BY DEF Added, Modest
<1>5. Numbers(ns, l + 1)
  BY <1>1, <1>4 DEF Numbers
<1> QED BY <1>3, <1>5

LEMMA SameNumbers ==
  ASSUME NEW ms \in Medias, NEW l \in MediaGenerations, Numbers(ms, l)
  PROVE  LastGeneration(l, ms) = l
BY DEF Numbers, LastGeneration, Medias, MediaSessions, MediaGenerations

LEMMA AddedCounted ==
  ASSUME NEW y \in Worlds, Counted(y), NEW z, NEW p \in Registered,
         Added(y.media, z.media, y.last, p), z.last = LastGeneration(y.last, z.media),
         OpActive(z.op) => /\ OpActive(y.op) /\ y.op.station \in Registered
                           /\ z.op.station = y.op.station /\ z.op.media = y.op.media
  PROVE  Counted(z) /\ z.last = y.last + 1
<1>1. y.media \in Medias /\ y.last \in MediaGenerations /\ y.op \in Operations
  BY WorldParts
<1>2. y.last \in Nat /\ y.op.media \in Nat
  BY <1>1 DEF MediaGenerations, Operations
<1>3. z.last = y.last + 1 /\ Numbers(z.media, z.last)
  BY <1>1, AddedNumbers DEF Counted, Numbers
<1>4. ASSUME OpActive(z.op)
      PROVE  /\ z.op.media <= z.last
             /\ z.media[z.op.station].generation = z.op.media
                  => ~Loose(z.media[z.op.station])
  <2>1. /\ y.op.station \in Registered
        /\ z.op.station = y.op.station /\ z.op.media = y.op.media
        /\ y.op.media <= y.last
        /\ y.media[y.op.station].generation = y.op.media
             => ~Loose(y.media[y.op.station])
    BY <1>4 DEF Counted
  <2>2. z.media[p].generation # z.op.media
    BY <1>2, <2>1 DEF Added
  <2>3. z.op.station # p => Modest(y.media[z.op.station], z.media[z.op.station])
    BY <2>1 DEF Added
  <2> QED BY <1>2, <1>3, <2>1, <2>2, <2>3 DEF Modest
<1> QED BY <1>3, <1>4 DEF Counted, Numbers

LEMMA StartPreviewAdds ==
  ASSUME NEW ms \in Medias, NEW l, NEW p \in Registered, StartPreview(ms, l, p).ok
  PROVE  LET ns == StartPreview(ms, l, p).media
         IN \/ ms[p].active /\ ns = ms
            \/ /\ Added(ms, ns, l, p)
               /\ ns[p].purpose = "preview"
<1> DEFINE n == NewMedia(l + 1, "preview", 0)
           ns == StartPreview(ms, l, p).media
<1>1. (ms[p].active /\ ns = ms) \/ ns = Replaced(ms, p, n)
  BY DEF StartPreview, Replaced, Done
<1>2. n.generation = l + 1 /\ n.purpose = "preview"
  BY DEF NewMedia, NoMedia
<1> HIDE DEF n, ns
<1>3. ns = Replaced(ms, p, n) => Added(ms, ns, l, p) /\ ns[p] = n
  BY <1>2, ModestSelf DEF Replaced, Medias, Added
<1> QED BY <1>1, <1>2, <1>3 DEF ns

LEMMA IncomingMediaAdds ==
  ASSUME NEW ms \in Medias, NEW l, NEW p \in Registered, NEW c, NEW works
  PROVE  LET ns == IncomingMedia(ms, l, p, c, works).media
         IN ns = ms \/ Added(ms, ns, l, p)
<1> DEFINE n == NewMedia(l + 1, "call", c)
           q == OldestPreview(ms)
           less == Replaced(ms, q, NoMedia)
           ns == IncomingMedia(ms, l, p, c, works).media
<1>1. ns \in {ms, Replaced(ms, p, n), Replaced(less, p, n)}
  BY DEF IncomingMedia, Done, Replaced
<1>2. n.generation = l + 1
  BY DEF NewMedia, NoMedia
<1> HIDE DEF n, ns, q
<1>3. \A i \in Registered : Modest(ms[i], less[i])
  BY ModestSelf, NoMediaModest DEF Replaced, Medias
<1>4. DOMAIN less = Registered
  BY DEF Replaced, Medias
<1> HIDE DEF less
<1>5. Added(ms, Replaced(ms, p, n), l, p)
  BY <1>2, ModestSelf DEF Replaced, Medias, Added
<1>6. Added(ms, Replaced(less, p, n), l, p)
  BY <1>2, <1>3, <1>4 DEF Replaced, Added
<1> QED BY <1>1, <1>5, <1>6 DEF ns

-----------------------------------------------------------------------------
(* The frame of a caller and what is watched *)

LEMMA YieldedTends ==
  ASSUME NEW y, Whole(y), NEW f, NEW stops \in BOOLEAN
  PROVE  LET a == Yielded(y, f, stops)
         IN Tends(y, a) /\ Spares(y, a) /\ (a = y \/ ~OpActive(a.op))
<1> DEFINE yes == TRUE
           end == EndOperation(y, yes, "preempted", "preempted", stops)
           a == Yielded(y, f, stops)
<1>1. CASE y.op.stage \in {"preparing", "calling"} /\ y.op.station # f.src
  <2>1. y.op.station \in Registered /\ OpActive(y.op) /\ y.op \in Operations
    BY <1>1, WorldParts DEF Whole, Kept, Numbered, OpActive
  <2>2. a = end /\ yes \in BOOLEAN
    BY <1>1 DEF Yielded
  <2> HIDE DEF yes
  <2> DEFINE v == Verdict(y.op, yes, "preempted", "preempted")
             over == Conclude(y, v, stops)
  <2>3. end = over
    BY DEF EndOperation, Tells
  <2>4. v \in Verdicts
    BY <2>1, <2>2, VerdictType DEF EndReasons, Faults
  <2> HIDE DEF v, end, a
  <2>5. LET w == Conclude(y, v, stops)
        IN /\ w.last = y.last /\ Meek(y.media, w.media) /\ ~OpActive(w.op)
           /\ \A p \in Registered : \A g : Viewing(y, p, g) => Spared(w, p, g)
    BY <2>1, <2>4, ConcludeSpares
  <2>6. /\ over.last = y.last /\ Meek(y.media, over.media) /\ ~OpActive(over.op)
        /\ \A p \in Registered : \A g : Viewing(y, p, g) => Spared(over, p, g)
    BY <2>5
  <2> HIDE DEF over
  <2>7. Tends(y, over) /\ Spares(y, over) /\ ~OpActive(over.op)
    BY <2>1, <2>6 DEF Tends, Spares, Spared
  <2> QED BY <2>2, <2>3, <2>7 DEF a
<1>2. CASE ~(y.op.stage \in {"preparing", "calling"} /\ y.op.station # f.src)
  <2>1. a = y
    BY <1>2 DEF Yielded
  <2> QED BY <2>1, SameTends
<1> QED BY <1>1, <1>2

\* A session for the caller is a new number, or nothing changes.
LEMMA WithIncomingCounted ==
  ASSUME NEW y, Whole(y), Counted(y), NEW f, f.src \in Registered, NEW g, NEW works
  PROVE  LET z == WithIncoming(y, f, g, works)
         IN /\ Counted(z) /\ z.op = y.op
            /\ z.last = y.last => Spares(y, z)
            /\ z.last \in {y.last, y.last + 1}
<1> DEFINE ns == IncomingMedia(y.media, y.last, f.src, g, works).media
           l == LastGeneration(y.last, ns)
           z == WithIncoming(y, f, g, works)
<1> y \in Worlds /\ y.media \in Medias /\ y.last \in MediaGenerations
  BY WorldParts DEF Whole
<1>1. z = [y EXCEPT !.media = ns, !.last = l]
  BY DEF WithIncoming, WithMedia
<1>2. ns = y.media \/ Added(y.media, ns, y.last, f.src)
  BY IncomingMediaAdds
<1> HIDE DEF ns, z
<1>3. z.op = y.op /\ z.media = ns /\ z.last = l
  BY <1>1 DEF Worlds
<1>4. CASE ns = y.media
  <2>1. l = y.last
    BY <1>4, SameNumbers DEF Counted, Numbers
  <2>2. Counted(z) /\ Spares(y, z)
    BY <1>3, <1>4, <2>1, SameTends DEF Counted
  <2> QED BY <1>3, <2>1, <2>2 DEF z
<1>5. CASE Added(y.media, ns, y.last, f.src)
  <2>1. OpActive(y.op) => y.op.station \in Registered
    BY DEF Whole, Kept, Numbered, OpActive
  <2>2. Counted(z) /\ z.last = y.last + 1
    BY <1>3, <1>5, <2>1, AddedCounted
  <2>3. y.last + 1 # y.last
    BY DEF MediaGenerations
  <2> QED BY <1>3, <2>2, <2>3 DEF z
<1> QED BY <1>2, <1>4, <1>5

\* What was watched stays, or the operation is still under way.
Leaves(y, z) ==
  \A p \in Registered : \A g :
    Viewing(y, p, g) => OpActive(z.op) \/ Spared(z, p, g)

LEMMA SparesLeaves ==
  ASSUME NEW y, NEW z, Spares(y, z)
  PROVE  Leaves(y, z)
BY DEF Spares, Leaves, Viewing

LEMMA SameCounted ==
  ASSUME NEW y, NEW z, z.op = y.op, z.media = y.media, z.last = y.last, Counted(y)
  PROVE  Counted(z)
BY DEF Counted

LEMMA WholeCounted ==
  ASSUME NEW y, Whole(y), Counted(y), NEW z, Tends(y, z)
  PROVE  Counted(z)
<1>1. y.last \in Nat
  BY WorldParts DEF Whole, MediaGenerations
<1>2. OpActive(y.op) => y.op.station \in Registered
  BY DEF Whole, Kept, Numbered, OpActive
<1> QED BY <1>1, <1>2, TendsCounted

LEMMA WithControlSame ==
  ASSUME NEW y \in Worlds, NEW r
  PROVE  LET z == WithControl(y, r)
         IN /\ z.op = y.op /\ z.media = y.media /\ z.last = y.last
            /\ z.dispatch = r.dispatch
BY DEF WithControl, Worlds

\* A caller who takes over gives its session a new number, or spares what is
\* watched; what became of the operation, its CALL is no longer on the way.
LEMMA CallReceivedKeeps ==
  ASSUME NEW y, Whole(y), Noted(y), Counted(y), NEW f, Framed(f),
         NEW works \in BOOLEAN, NEW stops \in BOOLEAN
  PROVE  LET c == CallReceived(y, ReceiveFrom(Tried(y, f), f).to, f, works, stops)
         IN Noted(c) /\ Counted(c) /\ (c.last = y.last => Spares(y, c))
<1> DEFINE t == Tried(y, f)
           k == ReceiveFrom(t, f).to
           g == k.session.generation
           a == Yielded(y, f, stops)
           b == WithIncoming(a, f, g, works)
           e == IF g # y.session.generation /\ f.src \in Registered THEN b ELSE y
           c == CallReceived(y, k, f, works, stops)
<1> SUFFICES Noted(c) /\ Counted(c) /\ (c.last = y.last => Spares(y, c))
  OBVIOUS
<1> y \in Worlds
  BY DEF Whole
<1>1. k.dispatch = y.dispatch /\ g \in Generations
  <2>1. t \in Worlds
    BY TriedIs
  <2>2. t.dispatch = y.dispatch
    BY DEF Tried, Worlds
  <2>3. LET x == ReceiveFrom(t, f).to
        IN Typed(x) /\ Carries(t, x)
    BY <2>1, ReceiveFromWorld
  <2>4. g \in Generations
    BY <2>3, SessionParts DEF Typed
  <2> QED BY <2>1, <2>2, <2>4, ReceiveFromSlot
<1>2. c = WithControl(e, k)
  BY DEF CallReceived
<1> HIDE DEF c, k
<1>3. LET x == Yielded(y, f, stops)
      IN Tends(y, x) /\ Spares(y, x) /\ (x = y \/ ~OpActive(x.op))
  BY YieldedTends
<1>4. Tends(y, a) /\ Spares(y, a) /\ (a = y \/ ~OpActive(a.op)) /\ Whole(a)
  BY <1>3, YieldedKept
<1> HIDE DEF a
<1>5. Counted(a) /\ a.last = y.last
  BY <1>4, WholeCounted DEF Tends
<1>6. ASSUME f.src \in Registered
      PROVE  /\ Counted(b) /\ b.op = a.op
             /\ b.last = a.last => Spares(a, b)
  <2>1. LET z == WithIncoming(a, f, g, works)
        IN /\ Counted(z) /\ z.op = a.op
           /\ z.last = a.last => Spares(a, z)
           /\ z.last \in {a.last, a.last + 1}
    BY <1>4, <1>5, <1>6, WithIncomingCounted
  <2> QED BY <2>1
<1>7. f.src \in Registered => b \in Worlds
  BY <1>1, <1>4, WithIncomingKept DEF Whole
<1> HIDE DEF b
<1>8. /\ Counted(e) /\ (e.op = y.op \/ ~OpActive(e.op))
      /\ e.last = y.last => Spares(y, e)
  <2>1. Spares(y, y)
    BY SameTends
  <2>2. f.src \in Registered /\ b.last = y.last => Spares(y, b)
    BY <1>4, <1>5, <1>6, SparesTwice
  <2> QED BY <1>4, <1>6, <2>1, <2>2
<1>9. e \in Worlds
  BY <1>7
<1> HIDE DEF e
<1>10. LET z == WithControl(e, k)
       IN /\ z.op = e.op /\ z.media = e.media /\ z.last = e.last
          /\ z.dispatch = k.dispatch
  BY <1>9, WithControlSame
<1>11. /\ c.op = e.op /\ c.media = e.media /\ c.last = e.last
       /\ c.dispatch = y.dispatch
  BY <1>1, <1>2, <1>10
<1>12. Noted(c)
  BY <1>8, <1>11 DEF Noted
<1>13. Counted(c) /\ Spares(e, c)
  BY <1>8, <1>11, SameCounted, SameTends
<1>14. c.last = y.last => Spares(y, c)
  BY <1>8, <1>11, <1>13, SparesTwice
<1> QED BY <1>12, <1>13, <1>14

LEMMA ReceiveCallFrameKeeps ==
  ASSUME NEW y, Whole(y), Noted(y), Counted(y), NEW f, Framed(f), NEW works \in BOOLEAN,
         NEW room, NEW stops \in BOOLEAN
  PROVE  LET z == ReceiveCallFrame(y, f, works, room, stops)
         IN Noted(z) /\ Counted(z) /\ (z.last = y.last => Leaves(y, z))
<1> DEFINE c == CallReceived(y, ReceiveFrom(Tried(y, f), f).to, f, works, stops)
           b == StationStep(c, room, stops)
           z == ReceiveCallFrame(y, f, works, room, stops)
<1>1. z \in {b, y}
  BY DEF ReceiveCallFrame
<1> HIDE DEF z
<1>2. Whole(c)
  BY CallReceivedWhole
<1>3. LET x == CallReceived(y, ReceiveFrom(Tried(y, f), f).to, f, works, stops)
      IN Noted(x) /\ Counted(x) /\ (x.last = y.last => Spares(y, x))
  BY CallReceivedKeeps
<1>4. Noted(c) /\ Counted(c) /\ (c.last = y.last => Spares(y, c))
  BY <1>3
<1> HIDE DEF c
<1>5. Minds(c, b)
  BY <1>2, StationStepMinds
<1> HIDE DEF b
<1>6. Noted(b) /\ Counted(b) /\ b.last = c.last
  BY <1>2, <1>4, <1>5, WholeCounted DEF Minds, Tends
<1>7. b.last = y.last => Leaves(y, b)
  BY <1>4, <1>5, <1>6, SparesTwice, SparesLeaves DEF Minds
<1>8. Leaves(y, y)
  BY SameTends, SparesLeaves
<1> QED BY <1>1, <1>6, <1>7, <1>8 DEF z

-----------------------------------------------------------------------------
(* A hangup and what is watched *)

LEMMA SupersededNoted ==
  ASSUME NEW d \in Dispatches, NEW g
  PROVE  /\ Superseded(d, g).cmd = d.cmd
         /\ Superseded(d, g).state = "sent" => d.state = "sent"
BY DEF Superseded, Finish, Dispatches

LEMMA HangupOperationKeeps ==
  ASSUME NEW y, Whole(y), Noted(y), NEW stops \in BOOLEAN
  PROVE  LET z == HangupOperation(y, stops)
         IN Tends(y, z) /\ Noted(z) /\ Leaves(y, z)
<1> DEFINE o == y.op
           c == CancelCommands(y, o.call)
           q == Queued(CommandFor("hangup", y.session))
           n == [o EXCEPT !.stage = "ending", !.left = EndTimeout]
           x == [c EXCEPT !.dispatch = q, !.op = n]
           no == FALSE
           yes == TRUE
           retry == RetryCleanup(y, stops)
           end == EndOperation(y, no, "local_hangup", "cancelled", stops)
           bad == EndOperation(c, yes, "local_hangup", "dispatch_failed", stops)
           z == HangupOperation(y, stops)
           Fine(w) == Tends(y, w) /\ Noted(w) /\ Leaves(y, w)
<1> SUFFICES Fine(z)
  OBVIOUS
<1> y \in Worlds /\ Kept(y) /\ Typed(y) /\ o \in Operations
  BY WorldParts DEF Whole
<1>1. LET d == CancelCommands(y, o.call)
      IN /\ d \in Worlds
         /\ d.op = y.op /\ d.media = y.media /\ d.last = y.last
         /\ d.session = y.session /\ d.control = y.control
  BY CancelIs
<1>2. /\ Whole(c) /\ c \in Worlds
      /\ c.op = o /\ c.media = y.media /\ c.last = y.last
  BY <1>1, CancelWhole
<1>3. \/ z = y
      \/ o.cleanup /\ z = retry
      \/ OpActive(o) /\ z = end
      \/ OpActive(o) /\ z = bad
      \/ OpActive(o) /\ z = x
  BY <1>2 DEF HangupOperation
<1> HIDE DEF c, z
<1>5. Tends(y, c) /\ Spares(y, c)
  BY <1>2, SameTends
<1>6. yes \in BOOLEAN /\ no \in BOOLEAN
  OBVIOUS
<1> HIDE DEF yes, no
<1>7. ASSUME o.cleanup PROVE Fine(retry)
  <2>1. o.station \in Registered
    BY <1>7 DEF Kept, Numbered
  <2>2. o.error \in BOOLEAN /\ o.reason \in EndReasons /\ o.fault \in Faults
    BY DEF Operations
  <2>3. LET w == EndOperation(y, o.error, o.reason, o.fault, stops)
        IN /\ Tends(y, w) /\ Noted(w)
           /\ \A p \in Registered : \A g : Viewing(y, p, g) => Spared(w, p, g)
    BY <2>1, <2>2, EndTends
  <2> QED BY <2>3 DEF RetryCleanup, Leaves
<1>8. ASSUME OpActive(o) PROVE Fine(end) /\ Fine(bad)
  <2>1. o.station \in Registered
    BY <1>8 DEF Kept, Numbered, OpActive
  <2>2. LET w == EndOperation(y, no, "local_hangup", "cancelled", stops)
        IN /\ Tends(y, w) /\ Noted(w)
           /\ \A p \in Registered : \A g : Viewing(y, p, g) => Spared(w, p, g)
    BY <1>6, <2>1, EndTends DEF EndReasons, Faults
  <2>3. LET w == EndOperation(c, yes, "local_hangup", "dispatch_failed", stops)
        IN /\ Tends(c, w) /\ Noted(w)
           /\ \A p \in Registered : \A g : Viewing(c, p, g) => Spared(w, p, g)
    BY <1>2, <1>6, <2>1, EndTends DEF EndReasons, Faults
  <2>4. Fine(end)
    BY <2>2 DEF Leaves
  <2>5. /\ Tends(c, bad) /\ Noted(bad)
        /\ \A p \in Registered : \A g : Viewing(c, p, g) => Spared(bad, p, g)
    BY <2>3
  <2> HIDE DEF bad
  <2>6. \A p, g : Viewing(y, p, g) => Viewing(c, p, g)
    BY <1>2 DEF Viewing
  <2>7. Fine(bad)
    BY <1>5, <2>5, <2>6, TendsTwice DEF Leaves
  <2> QED BY <2>4, <2>7
<1>9. ASSUME OpActive(o) PROVE Fine(x)
  <2>1. q.state = "queued"
    BY DEF Queued
  <2> HIDE DEF q
  <2>2. n.stage = "ending" /\ n.station = o.station /\ n.media = o.media
    BY DEF Operations
  <2> HIDE DEF n
  <2>3. x.op = n /\ x.media = y.media /\ x.last = y.last /\ x.dispatch = q
    BY <1>2 DEF Worlds
  <2> HIDE DEF x
  <2>4. Tends(y, x)
    BY <1>9, <2>2, <2>3, MeekSelf DEF Tends
  <2>5. Noted(x)
    BY <2>1, <2>3 DEF Noted
  <2>6. Leaves(y, x)
    BY <2>2, <2>3 DEF Leaves, OpActive
  <2> QED BY <2>4, <2>5, <2>6
<1>10. Fine(y)
  BY SameTends, SparesLeaves
<1> HIDE DEF retry, end, bad, x, Fine
<1> QED BY <1>3, <1>7, <1>8, <1>9, <1>10

LEMMA HangupCallKeeps ==
  ASSUME NEW y, Whole(y), Noted(y), NEW g \in Generations, Active(y.session),
         NEW stops \in BOOLEAN
  PROVE  LET z == HangupCall(y, g, stops)
         IN Tends(y, z) /\ Noted(z) /\ Leaves(y, z)
<1> DEFINE h == HangupFrom(y, g)
           w == ReleaseEnded(h, stops)
           z == HangupCall(y, g, stops)
<1> y \in Worlds /\ y.dispatch \in Dispatches
  BY WorldParts DEF Whole, Typed
<1>1. h \in Worlds /\ Carries(y, h)
  BY HangupFromWorld
<1>2. \/ h.dispatch = Queued(CommandFor("hangup", y.session))
      \/ h.dispatch = Superseded(y.dispatch, g)
  BY DEF HangupFrom, Worlds
<1>3. z \in {h, w}
  BY DEF HangupCall
<1> HIDE DEF h, z
<1>4. Whole(h)
  BY <1>1, CarriesKept DEF Whole
<1>5. Tends(y, h) /\ Spares(y, h)
  BY <1>1, SameTends DEF Carries
<1>6. Noted(h)
  BY <1>1, <1>2, SupersededNoted DEF Carries, Noted, Queued
<1>7. LET x == ReleaseEnded(h, stops)
      IN Tends(h, x) /\ Spares(h, x) /\ (Noted(h) => Noted(x))
  BY <1>4, ReleaseEndedTends
<1>8. Tends(y, w) /\ Noted(w) /\ Spares(y, w)
  BY <1>5, <1>6, <1>7, TendsTwice, SparesTwice
<1> HIDE DEF w
<1> QED BY <1>3, <1>5, <1>6, <1>8, SparesLeaves DEF z

-----------------------------------------------------------------------------
(* Every step and what is watched *)

\* The inductive invariant of the preview that somebody watches.
WatchInv == StationInv /\ Noted(World) /\ Counted(World)

\* The world that a step may lead to: what was watched is left, unless there is
\* a new session or the call was announced.
Lasts(z) ==
  /\ Noted(z)
  /\ Counted(z)
  /\ z.last = last /\ (\A cmd \in wire' : cmd.type # "call") => Leaves(World, z)

LEMMA MindsLasts ==
  ASSUME WatchInv, NEW z, Minds(World, z)
  PROVE  Lasts(z)
<1>1. Whole(World)
  BY InvWhole DEF WatchInv
<1>2. Counted(z)
  BY <1>1, WholeCounted DEF WatchInv, Minds
<1> QED BY <1>2, SparesLeaves DEF WatchInv, Minds, Lasts

LEMMA SameLasts == ASSUME WatchInv, World' = World PROVE Lasts(World')
BY MindsSelf, MindsLasts DEF WatchInv

LEMMA CommitLasts ==
  ASSUME WatchInv, NEW r, r.to \in Worlds, Tends(World, r.to), Noted(r.to),
         (\A cmd \in r.wire : cmd.type # "call") => Leaves(World, r.to),
         NEW next, CommitWorld(r, next)
  PROVE  Lasts(World')
<1>1. CASE r.ok
  <2>1. World' = r.to /\ wire' = r.wire
    BY <1>1, WorldInstalled DEF CommitWorld
  <2>2. Counted(r.to)
    BY InvWhole, WholeCounted DEF WatchInv
  <2> QED BY <2>1, <2>2 DEF Lasts
<1>2. CASE ~r.ok
  <2>1. World' = World
    BY <1>2 DEF CommitWorld, World, Control
  <2> QED BY <2>1, SameLasts
<1> QED BY <1>1, <1>2

LEMMA StationCallStepLasts ==
  ASSUME WatchInv, StationCallStep
  PROVE  Lasts(World')
<1>1. PICK sent1 \in Outcomes(handshakeDispatch), sent2 \in Beats(op),
           sent3 \in Sends(op, dispatch), room \in Rooms(op), stops \in Stops(media) :
        CommitWorld(CallStep(World, sent1, sent2, sent3, room, stops), "packet")
  BY DEF StationCallStep
<1> DEFINE r == CallStep(World, sent1, sent2, sent3, room, stops)
<1>2. sent1 \in BOOLEAN /\ sent2 \in BOOLEAN /\ sent3 \in BOOLEAN /\ stops \in BOOLEAN
  BY OutcomesType, ChoiceTypes
<1>3. Whole(World)
  BY InvWhole DEF WatchInv
<1>4. LET q == CallStep(World, sent1, sent2, sent3, room, stops)
      IN /\ Tends(World, q.to) /\ Noted(q.to)
         /\ Noted(World) /\ (\A cmd \in q.wire : cmd.type # "call") => Spares(World, q.to)
  BY <1>2, <1>3, CallStepMinds
<1>5. LET q == CallStep(World, sent1, sent2, sent3, room, stops)
      IN q.wire \subseteq Commands /\ Whole(q.to)
  BY <1>2, <1>3, CallStepKept
<1>6. /\ Tends(World, r.to) /\ Noted(r.to) /\ r.to \in Worlds
      /\ (\A cmd \in r.wire : cmd.type # "call") => Leaves(World, r.to)
  BY <1>4, <1>5, SparesLeaves DEF WatchInv, Whole
<1> HIDE DEF r
<1> QED BY <1>1, <1>6, CommitLasts DEF r

LEMMA StationReceiveCallLasts ==
  ASSUME WatchInv, StationReceiveCall
  PROVE  Lasts(World')
<1>1. PICK f \in {h \in Heard : IncomingCall(h)}, works \in BOOLEAN,
           room \in Rooms(op), stops \in Stops(media) :
        InstallWorld(ReceiveCallFrame(World, f, works, room, stops))
  BY DEF StationReceiveCall
<1> DEFINE z == ReceiveCallFrame(World, f, works, room, stops)
<1>2. Framed(f) /\ stops \in BOOLEAN
  BY FramesFramed, ChoiceTypes DEF Heard
<1>3. Whole(World) /\ Noted(World) /\ Counted(World) /\ World.last = last
  BY InvWhole, WorldIs DEF WatchInv
<1>4. LET w == ReceiveCallFrame(World, f, works, room, stops)
      IN Noted(w) /\ Counted(w) /\ (w.last = World.last => Leaves(World, w))
  BY <1>2, <1>3, ReceiveCallFrameKeeps
<1>5. z \in Worlds
  BY <1>2, <1>3, ReceiveCallFrameKept DEF Whole
<1>6. Lasts(z)
  BY <1>3, <1>4 DEF Lasts
<1> HIDE DEF z
<1>7. World' = z
  BY <1>1, <1>5, WorldInstalled DEF z
<1> QED BY <1>6, <1>7

LEMMA StationReceiveLasts ==
  ASSUME WatchInv, StationReceive
  PROVE  Lasts(World')
<1>1. PICK f \in {h \in Heard : ~IncomingCall(h)},
           room \in Rooms(op), stops \in Stops(media) :
        InstallWorld(ReceiveControlFrame(World, f, room, stops))
  BY DEF StationReceive
<1> DEFINE z == ReceiveControlFrame(World, f, room, stops)
<1>2. Framed(f) /\ stops \in BOOLEAN
  BY FramesFramed, ChoiceTypes DEF Heard
<1>3. Whole(World)
  BY InvWhole DEF WatchInv
<1>4. Minds(World, z)
  BY <1>2, <1>3, ReceiveControlFrameMinds
<1>5. z \in Worlds
  BY <1>2, <1>3, ReceiveControlFrameKept DEF Whole
<1> HIDE DEF z
<1>6. World' = z
  BY <1>1, <1>5, WorldInstalled DEF z
<1> QED BY <1>4, <1>6, MindsLasts

\* The network is lost: the operation ends for it before anything is stepped.
LEMMA StationCaptureLostLasts ==
  ASSUME WatchInv, StationCaptureLost
  PROVE  Lasts(World')
<1> DEFINE y == WithControl(World, Lost)
           no == FALSE
           yes == TRUE
<1>1. PICK room \in Rooms(op), stops \in Stops(media) :
        CommitWorld(CallStep(IF OpActive(op)
                             THEN EndOperation(y, yes, "runtime_reset", "runtime_reset", stops)
                             ELSE y, no, no, no, room, stops), "poll")
  BY DEF StationCaptureLost
<1> DEFINE e == EndOperation(y, yes, "runtime_reset", "runtime_reset", stops)
           x == IF OpActive(op) THEN e ELSE y
           r == CallStep(x, no, no, no, room, stops)
<1>2. stops \in BOOLEAN /\ no \in BOOLEAN /\ yes \in BOOLEAN
  BY ChoiceTypes
<1> HIDE DEF no, yes
<1>3. Lost \in Structs /\ Typed(Lost)
  BY InvWhole, LostType, StructsTyped DEF WatchInv
<1>4. session \in Sessions
  BY InvWhole DEF WatchInv, TypeOK
<1>5. /\ Lost.session = Abort(session) /\ Lost.dispatch = dispatch
      /\ ~Active(session) => Lost.control = Control
  BY DEF Lost, Struct
<1>6. Whole(y)
  <2>1. Later(session, Lost.session)
    BY <1>4, <1>5, EndedOnward DEF Later
  <2> QED BY <1>3, <1>5, <2>1, InvWhole, WorldIs, CarriedWhole DEF WatchInv
<1>7. /\ Tends(World, y) /\ Spares(World, y) /\ Noted(y)
      /\ y.op = op
  <2>1. LET z == WithControl(World, Lost)
        IN /\ Tends(World, z) /\ Spares(World, z)
           /\ z.op = World.op /\ z.dispatch = Lost.dispatch
    BY InvWhole, WithControlTends DEF WatchInv
  <2>2. World.op = op /\ World.dispatch = dispatch
    BY DEF World
  <2>3. y.op = World.op /\ y.dispatch = World.dispatch
    BY <1>5, <2>1, <2>2
  <2>4. Noted(y)
    BY <2>3 DEF WatchInv, Noted
  <2> QED BY <2>1, <2>2, <2>4
<1> HIDE DEF y
<1>8. Minds(y, x) /\ Whole(x)
  <2>1. CASE OpActive(op)
    <3>1. y.op.station \in Registered
      BY <1>6, <1>7, <2>1 DEF Whole, Kept, Numbered, OpActive
    <3>2. Minds(y, e)
      BY <1>2, <1>6, <1>7, <2>1, <3>1, EndMinds DEF EndReasons, Faults
    <3>3. LET w == EndOperation(y, yes, "runtime_reset", "runtime_reset", stops)
          IN Whole(w) /\ w.session.generation = y.session.generation
      BY <1>2, <1>6, <3>1, EndOperationKept DEF EndReasons, Faults
    <3> QED BY <2>1, <3>2, <3>3
  <2>2. CASE ~OpActive(op)
    BY <1>6, <1>7, <2>2, MindsSelf
  <2> QED BY <2>1, <2>2
<1>9. CommitWorld(r, "poll")
  BY <1>1
<1> HIDE DEF x
<1>10. LET q == CallStep(x, no, no, no, room, stops)
       IN /\ Tends(x, q.to) /\ Noted(q.to)
          /\ Noted(x) /\ (\A cmd \in q.wire : cmd.type # "call") => Spares(x, q.to)
  BY <1>2, <1>8, CallStepMinds
<1>11. LET q == CallStep(x, no, no, no, room, stops)
       IN q.wire \subseteq Commands /\ Whole(q.to)
  BY <1>2, <1>8, CallStepKept
<1>12. /\ Tends(x, r.to) /\ Noted(r.to) /\ r.to \in Worlds
       /\ Noted(x) /\ (\A cmd \in r.wire : cmd.type # "call") => Spares(x, r.to)
  BY <1>10, <1>11 DEF Whole
<1> HIDE DEF r
<1>13. Tends(World, x) /\ Spares(World, x) /\ Noted(x)
  BY <1>7, <1>8, TendsTwice, SparesTwice DEF Minds
<1>14. Tends(World, r.to)
  BY <1>12, <1>13, TendsTwice
<1>15. (\A cmd \in r.wire : cmd.type # "call") => Leaves(World, r.to)
  BY <1>12, <1>13, SparesTwice, SparesLeaves
<1> QED BY <1>9, <1>12, <1>14, <1>15, CommitLasts

LEMMA HangupLasts ==
  ASSUME WatchInv, NEW stops \in BOOLEAN,
         \/ InstallWorld(HangupOperation(World, stops))
         \/ Active(session) /\ InstallWorld(HangupCall(World, session.generation, stops))
  PROVE  Lasts(World')
<1>1. Whole(World) /\ Noted(World) /\ session.generation \in Generations
  BY InvWhole, SessionParts DEF WatchInv, TypeOK
<1>2. ASSUME NEW z \in Worlds, InstallWorld(z),
             Tends(World, z) /\ Noted(z) /\ Leaves(World, z)
      PROVE  Lasts(World')
  <2>1. World' = z
    BY <1>2, WorldInstalled
  <2>2. Counted(z)
    BY <1>1, <1>2, WholeCounted DEF WatchInv
  <2> QED BY <1>2, <2>1, <2>2 DEF Lasts
<1>3. CASE InstallWorld(HangupOperation(World, stops))
  <2> DEFINE z == HangupOperation(World, stops)
  <2>1. LET w == HangupOperation(World, stops)
        IN Tends(World, w) /\ Noted(w) /\ Leaves(World, w)
    BY <1>1, HangupOperationKeeps
  <2>2. z \in Worlds
    BY <1>1, HangupOperationKept DEF Whole
  <2>3. Tends(World, z) /\ Noted(z) /\ Leaves(World, z) /\ InstallWorld(z)
    BY <1>3, <2>1
  <2> HIDE DEF z
  <2> QED BY <1>2, <2>2, <2>3
<1>4. CASE /\ Active(session)
           /\ InstallWorld(HangupCall(World, session.generation, stops))
  <2> DEFINE g == session.generation
             z == HangupCall(World, g, stops)
  <2>1. Active(World.session) /\ g \in Generations /\ InstallWorld(z)
    BY <1>1, <1>4, WorldIs
  <2> HIDE DEF g
  <2>2. LET w == HangupCall(World, g, stops)
        IN Tends(World, w) /\ Noted(w) /\ Leaves(World, w)
    BY <1>1, <2>1, HangupCallKeeps
  <2>3. z \in Worlds
    BY <1>1, <2>1, HangupCallKept DEF Whole
  <2>4. Tends(World, z) /\ Noted(z) /\ Leaves(World, z)
    BY <2>2
  <2> HIDE DEF z
  <2> QED BY <1>2, <2>1, <2>3, <2>4
<1> QED BY <1>3, <1>4

LEMMA HangupGenerationLasts ==
  ASSUME WatchInv, NEW g, HangupGeneration(g)
  PROVE  Lasts(World')
<1>1. PICK stops \in Stops(media) :
        \/ InstallWorld(HangupOperation(World, stops))
        \/ Active(session) /\ InstallWorld(HangupCall(World, g, stops))
  BY DEF HangupGeneration
<1>2. g = session.generation
  BY DEF HangupGeneration
<1>3. stops \in BOOLEAN
  BY ChoiceTypes
<1> QED BY <1>1, <1>2, <1>3, HangupLasts

LEMMA HangupStationLasts ==
  ASSUME WatchInv, NEW p, NEW generation, HangupStation(p, generation)
  PROVE  Lasts(World')
<1>1. PICK stops \in Stops(media) :
        \/ InstallWorld(HangupOperation(World, stops))
        \/ Active(session)
             /\ InstallWorld(HangupCall(World, session.generation, stops))
  BY DEF HangupStation
<1>2. stops \in BOOLEAN
  BY ChoiceTypes
<1> QED BY <1>1, <1>2, HangupLasts

LEMMA RequestCallLasts ==
  ASSUME WatchInv, RequestCall
  PROVE  Lasts(World')
<1>1. PICK stops \in Stops(media) : InstallWorld(InstallCall(World, stops))
  BY DEF RequestCall
<1> DEFINE yes == TRUE
           z == InstallCall(World, stops)
<1>2. /\ Check(media, op.station, op.media, yes) = "ok" /\ MayInstall(World)
      /\ op.stage = "preparing"
  BY DEF RequestCall
<1> HIDE DEF yes
<1>3. /\ Check(World.media, World.op.station, World.op.media, yes) = "ok"
      /\ World.op.station \in Registered /\ World.op.stage = "preparing"
      /\ Whole(World)
  <2>1. StationInv
    BY DEF WatchInv
  <2>2. World.op.station \in Registered
    BY <1>2, <2>1, WorldIs DEF StationInv, Kept, Numbered
  <2> QED BY <1>2, <2>1, <2>2, WorldIs, InvWhole
<1>4. Minds(World, z)
  BY <1>2, <1>3, InstallCallMinds
<1>5. z \in Worlds
  BY <1>2, <1>3, InstallCallKept DEF Whole
<1> HIDE DEF z
<1>6. World' = z
  BY <1>1, <1>5, WorldInstalled DEF z
<1> QED BY <1>4, <1>6, MindsLasts

\* Call control keeps to itself, or what it has to send is only queued.
LEMMA QuietLasts ==
  ASSUME WatchInv, op' = op, media' = media, last' = last,
         dispatch' = dispatch \/ dispatch'.state = "queued"
  PROVE  Lasts(World')
<1>1. /\ World'.op = World.op /\ World'.media = World.media /\ World'.last = World.last
      /\ World'.dispatch = dispatch' /\ World.dispatch = dispatch
  BY DEF World
<1>2. Noted(World')
  BY <1>1 DEF WatchInv, Noted
<1> QED BY <1>1, <1>2, SameTends, MindsLasts DEF Minds

LEMMA AnswerCallLasts ==
  ASSUME WatchInv, NEW g, AnswerCall(g)
  PROVE  Lasts(World')
BY QuietLasts DEF AnswerCall, Answer, Queued

LEMMA StationNoPacketLasts ==
  ASSUME WatchInv, StationNoPacket
  PROVE  Lasts(World')
BY QuietLasts DEF StationNoPacket, NoPacket

LEMMA StationTickLasts ==
  ASSUME WatchInv, StationTick
  PROVE  Lasts(World')
<1>1. op \in Operations /\ dispatch \in Dispatches
  BY InvWhole DEF WatchInv, StationInv, StationTypeOK, TypeOK
<1>2. /\ op'.stage = op.stage /\ op'.station = op.station
      /\ op'.media = op.media /\ op'.sent = op.sent
  BY <1>1 DEF StationTick, Operations
<1>3. dispatch'.state = dispatch.state /\ dispatch'.cmd = dispatch.cmd
  BY <1>1 DEF StationTick, Tick, Dispatches
<1>4. media' = media /\ last' = last
  BY DEF StationTick
<1> DEFINE y == World
           z == World'
<1>5. /\ z.op = op' /\ z.media = media' /\ z.last = last' /\ z.dispatch = dispatch'
      /\ y.op = op /\ y.media = media /\ y.last = last /\ y.dispatch = dispatch
  BY DEF World
<1>6. Noted(y)
  BY DEF WatchInv
<1> HIDE DEF y, z
<1>7. Tends(y, z)
  BY <1>2, <1>4, <1>5, MeekSelf DEF Tends, OpActive
<1>8. Spares(y, z)
  BY <1>2, <1>4, <1>5 DEF Spares, Viewing, Spared, OpActive
<1>9. Noted(z)
  BY <1>2, <1>3, <1>5, <1>6 DEF Noted, OpActive
<1>10. Minds(World, World')
  BY <1>7, <1>8, <1>9 DEF Minds, y, z
<1> QED BY <1>10, MindsLasts

\* A new operation has announced nothing, and its session is a preview.
LEMMA AdmitLasts ==
  ASSUME WatchInv, NEW p \in Registered, Admit(p)
  PROVE  Lasts(World')
<1> DEFINE ns == StartPreview(media, last, p).media
<1>1. /\ StartPreview(media, last, p).ok
      /\ media' = ns /\ last' = LastGeneration(last, ns)
      /\ op'.stage = "preparing" /\ op'.station = p /\ op'.media = ns[p].generation
      /\ ~OpActive(op)
      /\ media[p].active => media[p].purpose = "preview"
  BY DEF Admit, NoOperation
<1>2. media \in Medias /\ last \in MediaGenerations
  BY DEF WatchInv, StationInv, StationTypeOK, Medias
<1>3. LET n == StartPreview(media, last, p).media
      IN \/ media[p].active /\ n = media
         \/ Added(media, n, last, p) /\ n[p].purpose = "preview"
  BY <1>1, <1>2, StartPreviewAdds
<1>4. \/ media[p].active /\ ns = media
      \/ Added(media, ns, last, p) /\ ns[p].purpose = "preview"
  BY <1>3
<1> HIDE DEF ns
<1>5. Numbers(media, last)
  BY WorldIs DEF WatchInv, Counted, Numbers
<1>6. Numbers(ns, last')
  <2>1. CASE ns = media
    BY <1>1, <1>2, <1>5, <2>1, SameNumbers
  <2>2. CASE Added(media, ns, last, p)
    BY <1>1, <1>2, <1>5, <2>2, AddedNumbers
  <2> QED BY <1>4, <2>1, <2>2
<1>7. ~Loose(ns[p])
  BY <1>1, <1>4 DEF Loose
<1>8. World'.op = op' /\ World'.media = ns /\ World'.last = last' /\ World.op = op
  BY <1>1 DEF World
<1>9. Noted(World')
  BY <1>1, <1>8 DEF Noted
<1>10. Counted(World')
  BY <1>1, <1>6, <1>7, <1>8 DEF Counted, Numbers
<1>11. Leaves(World, World')
  BY <1>1, <1>8 DEF Leaves, Viewing
<1> QED BY <1>9, <1>10, <1>11 DEF Lasts

\* Viewers and the manager change the media, and who the preview is for.
LEMMA MediaLasts ==
  ASSUME WatchInv, UNCHANGED vars, op' = op \/ op' = [op EXCEPT !.owns = FALSE],
         \/ last' = last /\ Meek(media, media')
         \/ \E p \in Registered :
              Added(media, media', last, p) /\ last' = LastGeneration(last, media')
  PROVE  Lasts(World')
<1> DEFINE y == World
           z == World'
<1>1. op \in Operations /\ y \in Worlds /\ Whole(y)
  BY InvWhole DEF WatchInv, StationInv, StationTypeOK
<1>2. /\ op'.stage = op.stage /\ op'.station = op.station
      /\ op'.media = op.media /\ op'.sent = op.sent
  BY <1>1 DEF Operations
<1>3. /\ z.op = op' /\ z.media = media' /\ z.last = last' /\ z.dispatch = y.dispatch
      /\ y.op = op /\ y.media = media /\ y.last = last
  BY DEF vars, World
<1>4. Noted(y) /\ Counted(y)
  BY DEF WatchInv
<1> HIDE DEF y, z
<1>5. Noted(z)
  BY <1>2, <1>3, <1>4 DEF Noted, OpActive
<1>6. Leaves(y, z)
  BY <1>2, <1>3 DEF Leaves, Viewing, OpActive
<1>7. Counted(z)
  <2>1. CASE last' = last /\ Meek(media, media')
    <3>1. Tends(y, z)
      BY <1>2, <1>3, <2>1 DEF Tends, OpActive
    <3> QED BY <1>1, <1>4, <3>1, WholeCounted
  <2>2. ASSUME NEW p \in Registered, Added(media, media', last, p),
               last' = LastGeneration(last, media')
        PROVE  Counted(z)
    <3>1. /\ Added(y.media, z.media, y.last, p)
          /\ z.last = LastGeneration(y.last, z.media)
      BY <1>3, <2>2
    <3>2. OpActive(z.op) => /\ OpActive(y.op) /\ y.op.station \in Registered
                            /\ z.op.station = y.op.station /\ z.op.media = y.op.media
      BY <1>1, <1>2, <1>3 DEF Whole, Kept, Numbered, OpActive
    <3> QED BY <1>1, <1>4, <3>1, <3>2, AddedCounted
  <2> QED BY <2>1, <2>2
<1>8. Noted(World') /\ Counted(World') /\ Leaves(World, World')
  BY <1>5, <1>6, <1>7 DEF y, z
<1> QED BY <1>8 DEF Lasts

LEMMA MonitorStartLasts ==
  ASSUME WatchInv, NEW p \in Registered, MonitorStart(p)
  PROVE  Lasts(World')
<1> DEFINE ns == StartPreview(media, last, p).media
<1>1. /\ StartPreview(media, last, p).ok
      /\ media' = ns /\ last' = LastGeneration(last, ns) /\ UNCHANGED vars
      /\ op' = op \/ op' = [op EXCEPT !.owns = FALSE]
  BY DEF MonitorStart, Shared
<1>2. media \in Medias /\ last \in MediaGenerations
  BY DEF WatchInv, StationInv, StationTypeOK, Medias
<1>3. LET n == StartPreview(media, last, p).media
      IN \/ media[p].active /\ n = media
         \/ Added(media, n, last, p) /\ n[p].purpose = "preview"
  BY <1>1, <1>2, StartPreviewAdds
<1>4. ns = media \/ Added(media, ns, last, p)
  BY <1>3
<1> HIDE DEF ns
<1>5. Numbers(media, last)
  BY WorldIs DEF WatchInv, Counted, Numbers
<1>6. ns = media => last' = last /\ Meek(media, media')
  BY <1>1, <1>2, <1>5, SameNumbers, MeekSelf
<1> QED BY <1>1, <1>4, <1>6, MediaLasts

LEMMA ModestMeek ==
  ASSUME media \in Medias, NEW p \in Registered, NEW n, Modest(media[p], n)
  PROVE  Meek(media, [media EXCEPT ![p] = n])
BY ReplacedMeek DEF Replaced

LEMMA MonitorViewerLasts ==
  ASSUME WatchInv, NEW p \in Registered, MonitorViewer(p)
  PROVE  Lasts(World')
<1>1. PICK watching \in BOOLEAN :
        /\ \E m \in Viewed(media[p], watching) : media' = [media EXCEPT ![p] = m]
        /\ op' = IF watching THEN Shared(p) ELSE op
  BY DEF MonitorViewer
<1>2. PICK m \in Viewed(media[p], watching) : media' = [media EXCEPT ![p] = m]
  BY <1>1
<1>3. media \in Medias /\ media[p] \in MediaSessions
  BY DEF WatchInv, StationInv, StationTypeOK, Medias
<1>4. Modest(media[p], m)
  <2>1. PICK s \in {media[p].state, "live"} :
          m = [media[p] EXCEPT !.viewer = watching, !.state = s]
    BY DEF Viewed
  <2> QED BY <1>3, <2>1 DEF MediaSessions, Modest, Loose
<1>5. Meek(media, media')
  BY <1>2, <1>3, <1>4, ModestMeek
<1>6. UNCHANGED vars /\ last' = last /\ (op' = op \/ op' = [op EXCEPT !.owns = FALSE])
  BY <1>1 DEF MonitorViewer, Shared
<1> QED BY <1>5, <1>6, MediaLasts

LEMMA MonitorStopLasts ==
  ASSUME WatchInv, NEW p \in Registered, MonitorStop(p)
  PROVE  Lasts(World')
<1>1. PICK stops \in BOOLEAN :
        media' = StopPreview(media, p, media[p].generation, stops).media
  BY DEF MonitorStop
<1>2. media \in Medias
  BY DEF WatchInv, StationInv, StationTypeOK, Medias
<1>3. Meek(media, media')
  BY <1>1, <1>2, StopPreviewMeek
<1>4. UNCHANGED vars /\ last' = last /\ op' = op
  BY DEF MonitorStop
<1> QED BY <1>3, <1>4, MediaLasts

LEMMA MediaChangeLasts ==
  ASSUME WatchInv, NEW p \in Registered, MediaChange(p)
  PROVE  Lasts(World')
<1>1. PICK m \in MediaChanges(media[p]) : media' = [media EXCEPT ![p] = m]
  BY DEF MediaChange
<1>2. media \in Medias /\ media[p] \in MediaSessions
  BY DEF WatchInv, StationInv, StationTypeOK, Medias
<1>3. Modest(media[p], m)
  <2>1. CASE m = NoMedia
    BY <2>1, NoMediaModest
  <2>2. CASE m # NoMedia
    <3>1. m \in Turns(media[p])
      BY <2>2 DEF MediaChanges
    <3>2. \E s, c, v : m = Turned(media[p], s, c, v)
      BY <3>1 DEF Turns
    <3> QED BY <1>2, <3>2 DEF Turned, MediaSessions, Modest, Loose
  <2> QED BY <2>1, <2>2
<1>4. Meek(media, media')
  BY <1>1, <1>2, <1>3, ModestMeek
<1>5. UNCHANGED vars /\ last' = last /\ op' = op
  BY DEF MediaChange
<1> QED BY <1>4, <1>5, MediaLasts

-----------------------------------------------------------------------------
LEMMA StationNextLasts ==
  ASSUME WatchInv, StationNext
  PROVE  Lasts(World')
<1>1. ASSUME NEW g \in Generations, AnswerCall(g) \/ HangupGeneration(g)
      PROVE  Lasts(World')
  BY <1>1, AnswerCallLasts, HangupGenerationLasts
<1>2. ASSUME NEW p \in Registered,
             Admit(p) \/ MonitorStart(p) \/ MonitorViewer(p) \/ MonitorStop(p)
               \/ MediaChange(p)
      PROVE  Lasts(World')
  BY <1>2, AdmitLasts, MonitorStartLasts, MonitorViewerLasts, MonitorStopLasts,
     MediaChangeLasts
<1>3. ASSUME NEW p \in Registered, NEW g \in MediaGenerations, HangupStation(p, g)
      PROVE  Lasts(World')
  BY <1>3, HangupStationLasts
<1> QED
  BY <1>1, <1>2, <1>3, RequestCallLasts, StationCallStepLasts,
     StationReceiveCallLasts, StationReceiveLasts, StationNoPacketLasts,
     StationCaptureLostLasts, StationTickLasts DEF StationNext

LEMMA WatchInitInv == StationInit => WatchInv
<1> SUFFICES ASSUME StationInit PROVE WatchInv
  OBVIOUS
<1>1. StationInv
  BY StationInitInv
<1>2. ~OpActive(op)
  BY DEF StationInit, NoOperation, OpActive
<1>3. last = 0 /\ \A p \in Registered : media[p].generation = 0
  BY DEF StationInit, NoMedia
<1>4. Noted(World)
  BY <1>2, WorldIs DEF Noted
<1>5. Counted(World)
  BY <1>2, <1>3, WorldIs DEF Counted
<1> QED BY <1>1, <1>4, <1>5 DEF WatchInv

LEMMA WatchNextInv == WatchInv /\ [StationNext]_stationVars => WatchInv'
<1> SUFFICES ASSUME WatchInv, [StationNext]_stationVars PROVE WatchInv'
  OBVIOUS
<1>1. StationInv'
  BY StationNextInv DEF WatchInv
<1>2. CASE StationNext
  BY <1>1, <1>2, StationNextLasts DEF WatchInv, Lasts
<1>3. CASE UNCHANGED stationVars
  <2>1. World' = World
    BY <1>3 DEF stationVars, vars, World, Control
  <2> QED BY <1>1, <2>1 DEF WatchInv
<1> QED BY <1>2, <1>3

\* A CALL that was delivered is known to its operation before anything else
\* happens, the sessions are numbered as they come, and the session of an
\* operation under way is no incoming call's.
THEOREM WatchInvariant == StationSpec => []WatchInv
<1> QED BY WatchInitInv, WatchNextInv, PTL DEF StationSpec

\* A preview that somebody watches survives a call that was never announced,
\* however the operation ends, unless an incoming call takes its place: neither
\* the rollback of the promotion nor the cleanup of the operation's own preview
\* takes it away from its viewers.
THEOREM PreviewsStayWatched == StationSpec => WatchedPreviewKept
<1> DEFINE p == op.station
           Dropped == /\ OpActive(op) /\ ~OpActive(op') /\ ~op.sent
                    /\ Keyed(media, p, op.media)
                    /\ media[p].viewer /\ media[p].pending = "none"
                    /\ last' = last
                    /\ \A cmd \in wire' : cmd.type # "call"
           Remains == media'[p].generation = op.media /\ media'[p].purpose = "preview"
                      /\ media'[p].viewer
<1>1. WatchInv /\ [StationNext]_stationVars => [Dropped => Remains]_stationVars
  <2> SUFFICES ASSUME WatchInv, StationNext, Dropped
               PROVE  Remains
    OBVIOUS
  <2>1. World'.op = op' /\ World'.media = media' /\ World'.last = last'
    BY DEF World
  <2>2. Leaves(World, World')
    BY <2>1, StationNextLasts DEF Lasts
  <2>3. p \in Registered
    BY WorldIs DEF WatchInv, StationInv, Kept, Numbered, OpActive
  <2>4. Viewing(World, p, op.media)
    BY WorldIs DEF WatchInv, Counted, Viewing, Keyed
  <2>5. Spared(World', p, op.media)
    BY <2>1, <2>2, <2>3, <2>4 DEF Leaves
  <2> QED BY <2>1, <2>5 DEF Spared
<1> QED BY <1>1, WatchInvariant, PTL DEF StationSpec, WatchedPreviewKept

-----------------------------------------------------------------------------
(* The session of an incoming call *)

\* Nothing is wrong with the session.
Live(m) == m.pending = "none" /\ m.state = "live" /\ ~m.confirmed

\* Only a session that there is belongs to a call.
Real(m) == m.purpose = "call" => m.active

\* The session of the incoming call that is under way.
Ringing(y, p) ==
  /\ Loose(y.media[p])
  /\ Active(y.session)
  /\ y.media[p].call = y.session.generation

\* The session of an incoming call is not the operation's, belongs to no later
\* call than the current one, and is live while its call lasts.
Clear(y) ==
  /\ y.op.media <= y.last
  /\ \A p \in Registered :
       /\ Real(y.media[p])
       /\ Loose(y.media[p]) =>
            /\ y.op.station = p => y.media[p].generation # y.op.media
            /\ y.media[p].call <= y.session.generation
       /\ Ringing(y, p) => Live(y.media[p])

\* Session n is m, unless m was no incoming call's.
Firm(m, n) ==
  /\ Loose(m) => n = m
  /\ Real(m) => Real(n)

\* A call that is over does not come back under its number.
Forth(s, t) ==
  /\ s.generation \in Nat /\ t.generation \in Nat
  /\ s.generation <= t.generation
  /\ t.generation = s.generation /\ Active(t) => Active(s)

\* From world y to world z the sessions of incoming calls are left alone.
Passes(y, z) ==
  /\ z.op.station = y.op.station /\ z.op.media = y.op.media
  /\ Forth(y.session, z.session)
  /\ \A p \in Registered : Firm(y.media[p], z.media[p])

Heeds(y, z) == Clear(y) => Passes(y, z) /\ Clear(z)

LEMMA ForthSelf == ASSUME NEW s \in Sessions PROVE Forth(s, s)
BY SessionParts DEF Forth

LEMMA ForthTwice ==
  ASSUME NEW s, NEW t, NEW u, Forth(s, t), Forth(t, u)
  PROVE  Forth(s, u)
BY DEF Forth

LEMMA LaterForth ==
  ASSUME NEW s \in Sessions, NEW t \in Sessions, Later(s, t)
  PROVE  Forth(s, t)
<1>1. s.generation \in Nat /\ t.generation \in Nat
  BY SessionParts
<1>2. CASE Onward(s, t)
  BY <1>1, <1>2 DEF Onward, Forth
<1>3. CASE Fresh(s, t)
  BY <1>1, <1>3 DEF Fresh, Forth
<1> QED BY <1>2, <1>3 DEF Later

LEMMA AbortForth ==
  ASSUME NEW s \in Sessions
  PROVE  Forth(s, Abort(s))
<1>1. Abort(s) \in Sessions /\ Onward(s, Abort(s))
  BY EndedType, EndedOnward
<1> QED BY <1>1, LaterForth DEF Later

LEMMA FirmSelf == ASSUME NEW m PROVE Firm(m, m)
BY DEF Firm

LEMMA FirmTwice ==
  ASSUME NEW m, NEW n, NEW o, Firm(m, n), Firm(n, o)
  PROVE  Firm(m, o)
BY DEF Firm

LEMMA PassesTwice ==
  ASSUME NEW y, NEW z, NEW w, Passes(y, z), Passes(z, w)
  PROVE  Passes(y, w)
<1>1. Forth(y.session, w.session)
  BY ForthTwice DEF Passes
<1>2. \A p \in Registered : Firm(y.media[p], w.media[p])
  BY FirmTwice DEF Passes
<1> QED BY <1>1, <1>2 DEF Passes

\* Nothing but the key of the operation, its media and the session matters.
LEMMA SamePasses ==
  ASSUME NEW y, NEW z, z.op.station = y.op.station, z.op.media = y.op.media,
         z.media = y.media, Forth(y.session, z.session)
  PROVE  Passes(y, z)
BY FirmSelf DEF Passes

\* What nothing begins and nothing disturbs stays as it has to be.
LEMMA PassesClear ==
  ASSUME NEW y, y \in Worlds, Clear(y), NEW z, Tends(y, z), Passes(y, z)
  PROVE  Clear(z)
<1>1. /\ z.last = y.last /\ Meek(y.media, z.media)
      /\ z.op.station = y.op.station /\ z.op.media = y.op.media
  BY DEF Tends, Passes
<1>2. ASSUME NEW p \in Registered
      PROVE  /\ Real(z.media[p])
             /\ Loose(z.media[p]) =>
                  /\ z.op.station = p => z.media[p].generation # z.op.media
                  /\ z.media[p].call <= z.session.generation
             /\ Ringing(z, p) => Live(z.media[p])
  <2>1. Firm(y.media[p], z.media[p]) /\ Modest(y.media[p], z.media[p])
    BY <1>1 DEF Passes, Meek
  <2>2. Real(y.media[p]) /\ Real(z.media[p])
    BY <2>1 DEF Clear, Firm
  <2>3. ASSUME Loose(z.media[p])
        PROVE  /\ z.op.station = p => z.media[p].generation # z.op.media
               /\ z.media[p].call <= z.session.generation
               /\ Ringing(z, p) => Live(z.media[p])
    <3>1. Loose(y.media[p]) /\ z.media[p] = y.media[p]
      BY <2>1, <2>3 DEF Firm, Modest
    <3>2. y.media[p].call \in Nat
      BY WorldParts, MediaCounts DEF Medias, MediaSessions
    <3>3. y.media[p].call <= y.session.generation
      BY <3>1 DEF Clear
    <3>4. Forth(y.session, z.session)
      BY DEF Passes
    <3>5. z.media[p].call <= z.session.generation
      BY <3>1, <3>2, <3>3, <3>4 DEF Forth
    <3>6. Ringing(z, p) => Ringing(y, p)
      BY <3>1, <3>2, <3>3, <3>4 DEF Ringing, Forth
    <3> QED BY <1>1, <3>1, <3>5, <3>6 DEF Clear
  <2> QED BY <2>2, <2>3 DEF Ringing
<1> QED BY <1>1, <1>2 DEF Clear

LEMMA HeedsTwice ==
  ASSUME NEW y, NEW z, NEW w, Heeds(y, z), Heeds(z, w)
  PROVE  Heeds(y, w)
BY PassesTwice DEF Heeds

LEMMA HeedsSelf == ASSUME NEW y \in Worlds PROVE Heeds(y, y)
<1>1. Forth(y.session, y.session)
  BY WorldParts, ForthSelf DEF Typed
<1> QED BY <1>1, SamePasses DEF Heeds

LEMMA PassesHeeds ==
  ASSUME NEW y \in Worlds, NEW z, Tends(y, z), Clear(y) => Passes(y, z)
  PROVE  Heeds(y, z)
BY PassesClear DEF Heeds

\* A session that is no incoming call's is replaced.
LEMMA ReplacedFirm ==
  ASSUME NEW ms \in Medias, NEW p \in Registered, NEW n, ~Loose(ms[p]), Real(n)
  PROVE  \A i \in Registered : Firm(ms[i], Replaced(ms, p, n)[i])
BY DEF Firm, Replaced, Medias

LEMMA UndoneFirm ==
  ASSUME NEW o, NEW ms \in Medias, o.station \in Registered,
         ~Loose(ms[o.station]), Real(ms[o.station]), NEW reason, NEW stops
  PROVE  \A i \in Registered : Firm(ms[i], Undone(o, ms, reason, stops).media[i])
<1> DEFINE p == o.station
           m == ms[p]
           why == OutboundReason(reason)
           n == IF stops THEN NoMedia ELSE Leaving(m, why)
           ns == Undone(o, ms, reason, stops).media
<1>1. m \in MediaSessions
  BY DEF Medias
<1>2. ns \in {ms, Replaced(ms, p, Demoted(m)), Replaced(ms, p, n)}
  <2>1. Rollback(ms, p, o.media, o.call).media \in {ms, Replaced(ms, p, Demoted(m))}
    BY DEF Rollback, Done, Replaced, Demoted
  <2>2. Release(ms, p, why, stops).media = Replaced(ms, p, n)
    BY ReleaseIs DEF Done
  <2> HIDE DEF n, why
  <2> QED BY <2>1, <2>2 DEF Undone, ReleaseOutbound, Done, why
<1>3. Real(Demoted(m)) /\ Real(Leaving(m, why)) /\ Real(NoMedia)
  BY <1>1 DEF Real, Demoted, Leaving, NoMedia, MediaSessions
<1> HIDE DEF why
<1>4. Real(n)
  BY <1>3
<1> HIDE DEF n, ns
<1>5. \A i \in Registered : Firm(ms[i], ns[i])
  BY <1>2, <1>3, <1>4, ReplacedFirm, FirmSelf
<1> QED BY <1>5 DEF ns

LEMMA StopPreviewFirm ==
  ASSUME NEW ms \in Medias, NEW p \in Registered, NEW g, NEW stops,
         ~Loose(ms[p]), Real(ms[p])
  PROVE  \A i \in Registered : Firm(ms[i], StopPreview(ms, p, g, stops).media[i])
<1> DEFINE n == Halted(ms[p])
           ns == StopPreview(ms, p, g, stops).media
<1>1. ms[p] \in MediaSessions
  BY DEF Medias
<1>2. Real(n) /\ Real(NoMedia)
  BY <1>1 DEF Real, Halted, NoMedia, MediaSessions
<1>3. ns \in {ms, Replaced(ms, p, n), Replaced(ms, p, NoMedia)}
  BY DEF StopPreview, Replaced, Halted, Medias, Done
<1> HIDE DEF n, ns
<1>4. \A i \in Registered : Firm(ms[i], ns[i])
  BY <1>2, <1>3, ReplacedFirm, FirmSelf
<1> QED BY <1>4 DEF ns

\* The cleanup finds nothing under the key of the operation, or its session.
LEMMA CleanupFirm ==
  ASSUME NEW y \in Worlds, Clear(y), y.op.station \in Registered,
         Fetched(y.op, y.media), NEW reason, NEW stops \in BOOLEAN
  PROVE  \A i \in Registered : Firm(y.media[i], Cleanup(y, reason, stops).to.media[i])
<1> DEFINE o == y.op
           p == o.station
           ms == y.media
           keyed == Keyed(ms, p, o.media)
           undo == Undone(o, ms, reason, stops)
           gone == PreviewGone(o, Owns(y), undo, stops)
           ns == Cleanup(y, reason, stops).to.media
<1>1. o \in Operations /\ ms \in Medias
  BY WorldParts
<1>2. ns = IF keyed THEN gone.media ELSE ms
  BY DEF Cleanup, Worlds
<1>3. Real(ms[p]) /\ (keyed => ~Loose(ms[p]))
  BY DEF Clear, Keyed
<1>4. ASSUME keyed PROVE \A i \in Registered : Firm(ms[i], gone.media[i])
  <2>1. \A i \in Registered : Firm(ms[i], undo.media[i])
    BY <1>1, <1>3, <1>4, UndoneFirm
  <2>2. Meek(ms, undo.media)
    <3>1. undo.media \in {ms, Rollback(ms, p, o.media, o.call).media,
                          Release(ms, p, OutboundReason(reason), stops).media}
      BY DEF Undone, ReleaseOutbound, Done
    <3> HIDE DEF undo
    <3> QED BY <1>1, <3>1, MeekSelf, RollbackMeek, ReleaseMeek
  <2>3. undo.media \in Medias
    BY <1>1, <1>4, UndoneMild DEF Mild
  <2>4. gone.media \in {undo.media, StopPreview(undo.media, p, o.media, stops).media}
    BY DEF PreviewGone
  <2> HIDE DEF undo, gone
  <2>5. ~Loose(undo.media[p]) /\ Real(undo.media[p])
    BY <1>3, <1>4, <2>1, <2>2 DEF Meek, Modest, Firm
  <2>6. \A i \in Registered :
          Firm(undo.media[i], StopPreview(undo.media, p, o.media, stops).media[i])
    BY <2>3, <2>5, StopPreviewFirm
  <2> QED BY <2>1, <2>4, <2>6, FirmTwice
<1> HIDE DEF gone, keyed, ns
<1>5. \A i \in Registered : Firm(ms[i], ns[i])
  BY <1>2, <1>4, FirmSelf
<1> QED BY <1>5 DEF ns

LEMMA ConcludePasses ==
  ASSUME NEW y, Whole(y), Clear(y), y.op.station \in Registered,
         NEW verdict \in Verdicts, NEW stops \in BOOLEAN
  PROVE  Passes(y, Conclude(y, verdict, stops))
<1> DEFINE reason == verdict.reason
           why == verdict.fault
           c == ReleaseControl(y, reason, why)
           clean == Cleanup(c, reason, stops)
           t == clean.to
           n == Settled(Judged(t.op, verdict.error \/ ~clean.ok, verdict, ~clean.ok))
           z == Conclude(y, verdict, stops)
<1> y \in Worlds /\ Kept(y) /\ y.session \in Sessions
  BY WorldParts DEF Whole, Typed
<1>1. reason \in EndReasons /\ why \in Faults
  BY DEF Verdicts
<1>2. LET x == ReleaseControl(y, reason, why)
      IN /\ x \in Worlds
         /\ x.op = y.op /\ x.media = y.media /\ x.last = y.last
         /\ x.session = IF OwnerMatches(y) THEN Abort(y.session) ELSE y.session
         /\ OwnerMatches(y) => /\ x.control.terminal.generation = y.op.call
                               /\ x.control.terminal.reason = reason
         /\ ~OwnerMatches(y) => x.control = y.control
  BY <1>1, ReleaseControlIs
<1>3. /\ c \in Worlds /\ c.op = y.op /\ c.media = y.media /\ c.last = y.last
      /\ c.session \in {y.session, Abort(y.session)}
  BY <1>2
<1> HIDE DEF c, reason, why
<1>4. Forth(y.session, c.session)
  BY <1>3, ForthSelf, AbortForth
<1>5. c.op.station \in Registered /\ Fetched(c.op, c.media)
  BY <1>3 DEF Kept
<1>6. Clear(c)
  <2>1. Passes(y, c)
    BY <1>3, <1>4, SamePasses
  <2>2. Tends(y, c)
    BY <1>3, SameTends
  <2> QED BY <2>1, <2>2, PassesClear
<1>7. Cleaned(c, Cleanup(c, reason, stops))
  BY <1>3, <1>5, CleanupIs
<1>8. t \in Worlds /\ t.session = c.session
  BY <1>7 DEF Cleaned
<1>9. \A i \in Registered : Firm(c.media[i], t.media[i])
  BY <1>3, <1>5, <1>6, CleanupFirm
<1>10. z = [t EXCEPT !.op = n]
  BY <1>8 DEF Conclude, Concluded, Worlds, c, reason, why
<1> HIDE DEF clean, n
<1>11. z.media = t.media /\ z.session = t.session
  BY <1>8, <1>10 DEF Worlds
<1>12. z.op.station = y.op.station /\ z.op.media = y.op.media
  <2>1. LET w == Conclude(y, verdict, stops)
        IN /\ w \in Worlds
           /\ Kept(w)
           /\ Over(y.op, w.op, verdict)
           /\ w.session.generation = y.session.generation
    BY ConcludeIs
  <2> QED BY <2>1 DEF Over
<1> HIDE DEF z
<1>13. Passes(y, z)
  BY <1>3, <1>4, <1>8, <1>9, <1>11, <1>12 DEF Passes
<1> QED BY <1>13 DEF z

\* However an operation ends, the session of an incoming call is left alone.
LEMMA EndHeeds ==
  ASSUME NEW y, Whole(y), y.op.station \in Registered, NEW error \in BOOLEAN,
         NEW reason \in EndReasons, NEW why \in Faults, NEW stops \in BOOLEAN
  PROVE  Heeds(y, EndOperation(y, error, reason, why, stops))
<1> DEFINE c == CancelCommands(y, y.op.call)
           q == Queued(CommandFor("hangup", y.session))
           n == [y.op EXCEPT !.stage = "ending", !.left = EndTimeout, !.error = TRUE,
                             !.reason = reason, !.fault = why]
           x == [c EXCEPT !.dispatch = q, !.op = n]
           v == Verdict(y.op, error, reason, why)
           over == Conclude(y, v, stops)
           z == EndOperation(y, error, reason, why, stops)
<1> y \in Worlds /\ y.op \in Operations /\ y.session \in Sessions
  BY WorldParts DEF Whole, Typed
<1>1. LET d == CancelCommands(y, y.op.call)
      IN /\ d \in Worlds
         /\ d.op = y.op /\ d.media = y.media /\ d.last = y.last
         /\ d.session = y.session /\ d.control = y.control
  BY CancelIs
<1>2. c \in Worlds /\ c.op = y.op /\ c.media = y.media /\ c.session = y.session
  BY <1>1
<1>3. z \in {x, over}
  BY <1>2 DEF EndOperation
<1>4. LET w == EndOperation(y, error, reason, why, stops)
      IN /\ Tends(y, w) /\ Noted(w)
         /\ \A p \in Registered : \A g : Viewing(y, p, g) => Spared(w, p, g)
  BY EndTends
<1>5. Tends(y, z)
  BY <1>4
<1> HIDE DEF c, z
<1>6. v \in Verdicts
  BY VerdictType
<1> HIDE DEF v
<1>7. Clear(y) => Passes(y, over)
  BY <1>6, ConcludePasses
<1> HIDE DEF over
<1>8. Passes(y, x)
  <2> HIDE DEF q
  <2>1. n.station = y.op.station /\ n.media = y.op.media
    BY DEF Operations
  <2> HIDE DEF n
  <2>2. x.op = n /\ x.media = y.media /\ x.session = y.session
    BY <1>2 DEF Worlds
  <2> HIDE DEF x
  <2> QED BY <2>1, <2>2, ForthSelf, SamePasses
<1> HIDE DEF x
<1>9. Heeds(y, z)
  BY <1>3, <1>5, <1>7, <1>8, PassesHeeds
<1> QED BY <1>9 DEF z

LEMMA FailsHeeds ==
  ASSUME NEW y, Whole(y), y.op.station \in Registered,
         NEW reason \in EndReasons, NEW why \in Faults, NEW stops \in BOOLEAN
  PROVE  Heeds(y, EndOperation(y, TRUE, reason, why, stops))
<1> DEFINE yes == TRUE
<1>1. yes \in BOOLEAN
  OBVIOUS
<1> HIDE DEF yes
<1>2. Heeds(y, EndOperation(y, yes, reason, why, stops))
  BY <1>1, EndHeeds
<1> QED BY <1>2 DEF yes

-----------------------------------------------------------------------------
(* The step of the operation and the incoming call *)

\* What the operation remembers of itself is no matter of its media.
LEMMA OpHeeds ==
  ASSUME NEW y \in Worlds, NEW n, n.station = y.op.station, n.media = y.op.media,
         n.stage = y.op.stage \/ OpActive(y.op)
  PROVE  Heeds(y, [y EXCEPT !.op = n])
<1> DEFINE z == [y EXCEPT !.op = n]
<1>1. z.op = n /\ z.media = y.media /\ z.last = y.last /\ z.session = y.session
  BY DEF Worlds
<1>2. Forth(y.session, y.session)
  BY WorldParts, ForthSelf DEF Typed
<1> HIDE DEF z
<1>3. Tends(y, z)
  BY <1>1, MeekSelf DEF Tends, OpActive
<1>4. Passes(y, z)
  BY <1>1, <1>2, SamePasses
<1>5. Heeds(y, z)
  BY <1>3, <1>4, PassesHeeds
<1> QED BY <1>5 DEF z

LEMMA SeenHeeds ==
  ASSUME NEW y \in Worlds, NEW owns
  PROVE  Heeds(y, [y EXCEPT !.op.owns = owns])
<1> DEFINE n == [y.op EXCEPT !.owns = owns]
<1>1. n.station = y.op.station /\ n.media = y.op.media /\ n.stage = y.op.stage
  BY WorldParts DEF Operations
<1>2. [y EXCEPT !.op.owns = owns] = [y EXCEPT !.op = n]
  BY DEF Worlds
<1> HIDE DEF n
<1> QED BY <1>1, <1>2, OpHeeds

LEMMA TalkingHeeds ==
  ASSUME NEW y \in Worlds, OpActive(y.op)
  PROVE  Heeds(y, [y EXCEPT !.op.stage = "talking"])
<1> DEFINE n == [y.op EXCEPT !.stage = "talking"]
<1>1. n.station = y.op.station /\ n.media = y.op.media
  BY WorldParts DEF Operations
<1>2. [y EXCEPT !.op.stage = "talking"] = [y EXCEPT !.op = n]
  BY DEF Worlds
<1> HIDE DEF n
<1> QED BY <1>1, <1>2, OpHeeds

LEMMA StepOverHeeds ==
  ASSUME NEW y, Whole(y), y.op.station \in Registered, NEW stops \in BOOLEAN
  PROVE  Heeds(y, StepOver(y, stops))
<1> DEFINE t == y.control.terminal
           known == t.generation = y.op.call
           bad == y.op.error \/ (known /\ t.fault # "none")
           reason == IF known THEN t.reason ELSE "unknown"
           why == IF known THEN t.fault ELSE "unknown"
<1>1. t \in Terminals
  BY WorldParts DEF Whole, Typed, Controls
<1>2. y.op.error \in BOOLEAN
  BY WorldParts DEF Whole, Operations
<1>3. bad \in BOOLEAN /\ reason \in EndReasons /\ why \in Faults
  BY <1>1, <1>2 DEF Terminals, EndReasons, Faults
<1>4. StepOver(y, stops) = EndOperation(y, bad, reason, why, stops)
  BY DEF StepOver
<1> HIDE DEF bad, reason, why
<1> QED BY <1>3, <1>4, EndHeeds

LEMMA StepCallHeeds ==
  ASSUME NEW y, Whole(y), OpActive(y.op), y.op.station \in Registered,
         NEW m, NEW stops \in BOOLEAN
  PROVE  Heeds(y, StepCall(y, m, stops))
<1> DEFINE End(reason, why) == EndOperation(y, TRUE, reason, why, stops)
           talking == [y EXCEPT !.op.stage = "talking"]
<1>1. y.control.fault \in Faults
  BY WorldParts DEF Whole, Typed, Controls
<1>2. /\ Heeds(y, End("unknown", "unknown"))
      /\ Heeds(y, End("unknown", y.control.fault))
      /\ Heeds(y, End("confirmation_timeout", "confirmation_timeout"))
      /\ Heeds(y, End("local_hangup", "dispatch_timeout"))
  <2>1. \A reason \in EndReasons, why \in Faults : Heeds(y, End(reason, why))
    BY FailsHeeds
  <2>2. /\ {"unknown", "confirmation_timeout", "local_hangup"} \subseteq EndReasons
        /\ {"unknown", "confirmation_timeout", "dispatch_timeout"} \subseteq Faults
    BY DEF EndReasons, Faults
  <2> HIDE DEF End
  <2> QED BY <1>1, <2>1, <2>2
<1>3. Heeds(y, StepOver(y, stops)) /\ Heeds(y, y) /\ Heeds(y, talking)
  BY StepOverHeeds, HeedsSelf, TalkingHeeds DEF Whole
<1>4. StepCall(y, m, stops) \in {StepOver(y, stops), y, talking,
                                 End("unknown", "unknown"),
                                 End("unknown", y.control.fault),
                                 End("confirmation_timeout", "confirmation_timeout"),
                                 End("local_hangup", "dispatch_timeout")}
  BY DEF StepCall
<1> HIDE DEF End, talking
<1> QED BY <1>2, <1>3, <1>4

\* The CALL is marked on a session that was handed over.
LEMMA ToldHeeds ==
  ASSUME NEW y, Whole(y), OpActive(y.op), y.op.station \in Registered
  PROVE  LET mark == MarkSent(y.media, y.op.station, y.op.media, y.op.call)
         IN Heeds(y, [y EXCEPT !.op.sent = TRUE, !.media = mark.media])
<1> DEFINE o == y.op
           p == o.station
           ms == y.media
           mark == MarkSent(ms, p, o.media, o.call)
           n == [o EXCEPT !.sent = TRUE]
           m == [ms[p] EXCEPT !.sent = TRUE]
           told == [y EXCEPT !.op = n, !.media = mark.media]
<1> y \in Worlds /\ o \in Operations /\ ms \in Medias /\ y.session \in Sessions
  BY WorldParts DEF Whole, Typed
<1>1. n.station = o.station /\ n.media = o.media
  BY DEF Operations
<1>2. mark.media = ms \/ (~Loose(ms[p]) /\ mark.media = Replaced(ms, p, m))
  BY DEF MarkSent, Done, Replaced, Medias, Loose
<1>3. ms[p] \in MediaSessions
  BY DEF Medias
<1>4. Real(ms[p]) => Real(m)
  BY <1>3 DEF Real, MediaSessions
<1>5. [y EXCEPT !.op.sent = TRUE, !.media = mark.media] = told
  BY DEF Worlds
<1>6. LET z == [y EXCEPT !.op.sent = TRUE, !.media = mark.media]
      IN Tends(y, z) /\ Noted(z)
  BY ToldTends
<1>7. Tends(y, told)
  BY <1>5, <1>6
<1> HIDE DEF n, m, mark
<1>8. told.op = n /\ told.media = mark.media /\ told.session = y.session
  BY DEF Worlds
<1> HIDE DEF told
<1>9. ASSUME Clear(y) PROVE Passes(y, told)
  <2>1. Real(ms[p])
    BY <1>9 DEF Clear
  <2>2. \A i \in Registered : Firm(ms[i], mark.media[i])
    BY <1>2, <1>4, <2>1, ReplacedFirm, FirmSelf
  <2> QED BY <1>1, <1>8, <2>2, ForthSelf DEF Passes
<1> QED BY <1>5, <1>7, <1>9, PassesHeeds DEF mark

LEMMA StepSentHeeds ==
  ASSUME NEW y, Whole(y), OpActive(y.op), y.op.station \in Registered,
         NEW m, NEW stops \in BOOLEAN
  PROVE  Heeds(y, StepSent(y, m, stops))
<1> DEFINE mark == MarkSent(y.media, y.op.station, y.op.media, y.op.call)
           told == [y EXCEPT !.op.sent = TRUE, !.media = mark.media]
           end == EndOperation(told, TRUE, "unknown", "unknown", stops)
<1>1. StepSent(y, m, stops) \in {StepCall(y, m, stops), StepCall(told, m, stops), end}
  BY DEF StepSent
<1>2. Whole(told) /\ Knows(y, told)
  BY ToldIs
<1>3. Heeds(y, told)
  BY ToldHeeds
<1> HIDE DEF told
<1>4. OpActive(told.op) /\ told.op.station \in Registered
  BY <1>2 DEF Knows, OpActive
<1>5. Heeds(told, StepCall(told, m, stops)) /\ Heeds(told, end)
  BY <1>2, <1>4, StepCallHeeds, FailsHeeds DEF EndReasons, Faults
<1> HIDE DEF end
<1>6. Heeds(y, StepCall(told, m, stops)) /\ Heeds(y, end)
  BY <1>3, <1>5, HeedsTwice
<1> QED BY <1>1, <1>6, StepCallHeeds

LEMMA InstallCallHeeds ==
  ASSUME NEW y, Whole(y), y.op.stage = "preparing", y.op.station \in Registered, NEW room,
         Check(y.media, y.op.station, y.op.media, room) = "ok",
         MayInstall(y), NEW stops
  PROVE  Heeds(y, InstallCall(y, stops))
<1> DEFINE z == InstallCall(y, stops)
           p == y.op.station
<1>1. Installed(y, z) /\ Minds(y, z) /\ Whole(z)
  BY InstallCallIs, InstallCallMinds
<1>2. Keyed(y.media, p, y.op.media)
  BY DEF Check
<1> HIDE DEF z
<1>3. /\ z.op.station = p /\ z.op.media = y.op.media
      /\ Keyed(z.media, p, y.op.media)
      /\ z.session.generation = y.session.generation + 1
      /\ \A i \in Registered \ {p} : z.media[i] = y.media[i]
  BY <1>1 DEF Installed
<1>4. y.session.generation \in Nat
  BY WorldParts, SessionParts DEF Whole, Typed
<1>5. Forth(y.session, z.session)
  BY <1>3, <1>4 DEF Forth
<1>6. Clear(y) => Passes(y, z)
  BY <1>2, <1>3, <1>5, FirmSelf DEF Clear, Passes, Firm, Real, Keyed
<1>7. Heeds(y, z)
  BY <1>1, <1>6, PassesHeeds DEF Minds, Whole
<1> QED BY <1>7 DEF z

LEMMA StepPreparingHeeds ==
  ASSUME NEW y, Whole(y), y.op.stage = "preparing", y.op.station \in Registered,
         NEW room, NEW stops \in BOOLEAN
  PROVE  Heeds(y, StepPreparing(y, room, stops))
<1> DEFINE answer == Check(y.media, y.op.station, y.op.media, room)
           gone == EndOperation(y, TRUE, "preempted", "preempted", stops)
           late == EndOperation(y, TRUE, "confirmation_timeout", "confirmation_timeout", stops)
           bad == EndOperation(y, TRUE, "unknown", "dispatch_failed", stops)
<1>1. Heeds(y, gone) /\ Heeds(y, late) /\ Heeds(y, bad)
  BY FailsHeeds DEF EndReasons, Faults
<1>2. answer = "ok" /\ MayInstall(y) => Heeds(y, InstallCall(y, stops))
  BY InstallCallHeeds
<1>3. Heeds(y, y)
  BY HeedsSelf DEF Whole
<1>4. \/ StepPreparing(y, room, stops) \in {gone, late, bad, y}
      \/ answer = "ok" /\ MayInstall(y)
           /\ StepPreparing(y, room, stops) = InstallCall(y, stops)
  BY DEF StepPreparing
<1> HIDE DEF answer, gone, late, bad
<1> QED BY <1>1, <1>2, <1>3, <1>4

LEMMA StationStepHeeds ==
  ASSUME NEW y, Whole(y), NEW room, NEW stops \in BOOLEAN
  PROVE  Heeds(y, StationStep(y, room, stops))
<1> DEFINE o == y.op
           m == y.media[o.station]
           owns == Owns(y)
           seen == [y EXCEPT !.op.owns = owns]
           bad == EndOperation(y, TRUE, "unknown", "unknown", stops)
           gone == EndOperation(y, TRUE, "preempted", "preempted", stops)
           other == EndOperation(seen, TRUE, "preempted", "preempted", stops)
           z == StationStep(y, room, stops)
<1>1. CASE ~OpActive(o)
  <2>1. z = y
    BY <1>1 DEF StationStep
  <2> QED BY <2>1, HeedsSelf DEF Whole
<1>2. CASE OpActive(o)
  <2>1. o.station \in Registered
    BY <1>2 DEF Whole, Kept, Numbered, OpActive
  <2>2. Heeds(y, bad) /\ Heeds(y, gone)
    BY <2>1, FailsHeeds DEF EndReasons, Faults
  <2>3. \/ z \in {bad, gone, other}
        \/ o.stage = "preparing" /\ z = StepPreparing(seen, room, stops)
        \/ z = StepSent(seen, m, stops)
    BY <1>2 DEF StationStep
  <2> HIDE DEF bad, gone, z, m
  <2>4. owns \in BOOLEAN
    BY OwnsType
  <2> HIDE DEF owns
  <2>5. Whole(seen) /\ Alike(y, seen)
    BY <2>4, OwnedWhole, SeenAlike DEF Whole
  <2>6. Heeds(y, seen)
    BY SeenHeeds DEF Whole
  <2> HIDE DEF seen
  <2>7. OpActive(seen.op) /\ seen.op.station \in Registered /\ seen.op.stage = o.stage
    BY <1>2, <2>1, <2>5 DEF Alike, OpActive
  <2>8. Heeds(seen, other) /\ Heeds(seen, StepSent(seen, m, stops))
    BY <2>5, <2>7, FailsHeeds, StepSentHeeds DEF EndReasons, Faults
  <2>9. o.stage = "preparing" => Heeds(seen, StepPreparing(seen, room, stops))
    BY <2>5, <2>7, StepPreparingHeeds
  <2> HIDE DEF other
  <2>10. \A w : Heeds(seen, w) => Heeds(y, w)
    BY <2>6, HeedsTwice
  <2>11. Heeds(y, z)
    BY <2>2, <2>3, <2>8, <2>9, <2>10
  <2> QED BY <2>11 DEF z
<1> QED BY <1>1, <1>2

-----------------------------------------------------------------------------
(* Steps, packets and the incoming call *)

\* The session of the incoming call is changed by its viewers alone while the
\* call lasts.
Unmoved(y, z) ==
  /\ Clear(z)
  /\ \A p \in Registered :
       /\ Ringing(y, p)
       /\ Active(z.session)
       /\ z.session.generation = y.session.generation
       => z.media[p] = [y.media[p] EXCEPT !.viewer = z.media[p].viewer]

LEMMA SameViewer ==
  ASSUME NEW m \in MediaSessions
  PROVE  m = [m EXCEPT !.viewer = m.viewer]
BY DEF MediaSessions

LEMMA PassesUnmoved ==
  ASSUME NEW y \in Worlds, NEW z, Passes(y, z), Clear(z)
  PROVE  Unmoved(y, z)
<1> SUFFICES ASSUME NEW p \in Registered, Ringing(y, p)
             PROVE  z.media[p] = [y.media[p] EXCEPT !.viewer = z.media[p].viewer]
  BY DEF Unmoved
<1>1. z.media[p] = y.media[p]
  BY DEF Passes, Firm, Ringing
<1>2. y.media[p] \in MediaSessions
  BY WorldParts DEF Medias
<1> QED BY <1>1, <1>2, SameViewer

LEMMA HeedsUnmoved ==
  ASSUME NEW y \in Worlds, Clear(y), NEW z, Heeds(y, z)
  PROVE  Unmoved(y, z)
BY PassesUnmoved DEF Heeds

\* The media of an incoming call go when the call is over.
LEMMA ReleaseEndedClear ==
  ASSUME NEW y, Whole(y), Clear(y), NEW stops \in BOOLEAN
  PROVE  LET z == ReleaseEnded(y, stops)
         IN /\ Clear(z) /\ z.op = y.op /\ z.session = y.session
            /\ Active(y.session) => z.media = y.media
<1> DEFINE p == y.session.peer
           why == IncomingReason(y.control.terminal.reason)
           r == ReleaseIncoming(y.media, p, y.session.generation, why, stops)
           n == IF stops THEN NoMedia ELSE Leaving(y.media[p], why)
           gone == [y EXCEPT !.media = Replaced(y.media, p, n)]
           z == ReleaseEnded(y, stops)
<1> y \in Worlds /\ y.media \in Medias
  BY WorldParts DEF Whole
<1>1. \/ z = y
      \/ /\ y.session.state = "ended" /\ p \in Registered
         /\ Loose(y.media[p]) /\ z = gone
  <2>1. \/ z = y
        \/ /\ y.session.state = "ended"
           /\ p \in Registered /\ y.media[p].active /\ y.media[p].purpose = "call"
           /\ z = [y EXCEPT !.media = r.media]
    BY DEF ReleaseEnded
  <2>2. ASSUME p \in Registered
        PROVE  \/ r.media = y.media
               \/ ~y.media[p].handoff /\ r.media = Replaced(y.media, p, n)
    <3>1. Release(y.media, p, why, stops).media = Replaced(y.media, p, n)
      BY <2>2, ReleaseIs DEF Done
    <3> HIDE DEF n, why
    <3> QED BY <3>1 DEF ReleaseIncoming, Done
  <2>3. [y EXCEPT !.media = y.media] = y
    BY DEF Worlds
  <2> HIDE DEF r, n, z
  <2> QED BY <2>1, <2>2, <2>3 DEF Loose
<1>2. ASSUME y.session.state = "ended", p \in Registered, Loose(y.media[p])
      PROVE  Clear(gone) /\ gone.op = y.op /\ gone.session = y.session
  <2>1. y.media[p] \in MediaSessions
    BY <1>2 DEF Medias
  <2>2. /\ Real(n)
        /\ Loose(n) => n.generation = y.media[p].generation /\ n.call = y.media[p].call
    BY <1>2, <2>1 DEF Real, Loose, Leaving, NoMedia, MediaSessions
  <2>3. ~Active(y.session)
    BY <1>2 DEF Active
  <2> HIDE DEF n
  <2>4. /\ gone.op = y.op /\ gone.session = y.session /\ gone.last = y.last
        /\ \A i \in Registered : gone.media[i] = IF i = p THEN n ELSE y.media[i]
    BY DEF Worlds, Replaced, Medias
  <2> HIDE DEF gone
  <2>5. Clear(gone)
    BY <1>2, <2>2, <2>3, <2>4 DEF Clear, Ringing
  <2> QED BY <2>4, <2>5
<1> HIDE DEF gone, z
<1>3. /\ Clear(z) /\ z.op = y.op /\ z.session = y.session
      /\ Active(y.session) => z.media = y.media
  BY <1>1, <1>2 DEF Active
<1> QED BY <1>3 DEF z

LEMMA ReleaseEndedUnmoved ==
  ASSUME NEW y \in Worlds, Clear(y), NEW c, Whole(c), Heeds(y, c), NEW stops \in BOOLEAN
  PROVE  Unmoved(y, ReleaseEnded(c, stops))
<1> DEFINE z == ReleaseEnded(c, stops)
<1>1. Clear(c) /\ Unmoved(y, c)
  BY HeedsUnmoved DEF Heeds
<1>2. LET w == ReleaseEnded(c, stops)
      IN /\ Clear(w) /\ w.op = c.op /\ w.session = c.session
         /\ Active(c.session) => w.media = c.media
  BY <1>1, ReleaseEndedClear
<1>3. /\ Clear(z) /\ z.session = c.session
      /\ Active(c.session) => z.media = c.media
  BY <1>2
<1> HIDE DEF z
<1>4. Unmoved(y, z)
  BY <1>1, <1>3 DEF Unmoved
<1> QED BY <1>4 DEF z

\* Call control does nothing to the media.
LEMMA CarriesHeeds ==
  ASSUME NEW y \in Worlds, NEW z \in Worlds, Carries(y, z)
  PROVE  Heeds(y, z)
<1>1. /\ z.op = y.op /\ z.media = y.media /\ z.last = y.last
      /\ Later(y.session, z.session)
  BY DEF Carries
<1>2. Forth(y.session, z.session)
  BY <1>1, WorldParts, LaterForth DEF Typed
<1>3. Tends(y, z)
  BY <1>1, SameTends
<1>4. Passes(y, z)
  BY <1>1, <1>2, SamePasses
<1> QED BY <1>3, <1>4, PassesHeeds

LEMMA CallStepUnmoved ==
  ASSUME NEW x \in Worlds, Clear(x), NEW y, Whole(y), Heeds(x, y),
         NEW sent1 \in BOOLEAN, NEW sent2 \in BOOLEAN,
         NEW sent3 \in BOOLEAN, NEW room, NEW stops \in BOOLEAN
  PROVE  Unmoved(x, CallStep(y, sent1, sent2, sent3, room, stops).to)
<1> DEFINE a == StationStep(y, room, stops)
           k == StepFrom(a, sent1, sent2, sent3)
           b == WithControl(a, k)
           c == StationStep(b, room, stops)
           r == CallStep(y, sent1, sent2, sent3, room, stops)
<1>1. r.to = ReleaseEnded(c, stops)
  BY DEF CallStep, StationAfter
<1> HIDE DEF r
<1>2. Whole(a) /\ Heeds(y, a)
  BY StationStepKept, StationStepHeeds
<1> HIDE DEF a
<1>3. LET q == StepFrom(a, sent1, sent2, sent3)
      IN /\ Typed(q)
         /\ q.wire \subseteq Commands
         /\ WithControl(a, q) \in Worlds
         /\ Carries(a, WithControl(a, q))
  BY <1>2, StepFromWorld DEF Whole
<1>4. b \in Worlds /\ Carries(a, b)
  BY <1>3
<1> HIDE DEF k, b
<1>5. Whole(b) /\ Heeds(a, b)
  BY <1>2, <1>4, CarriesKept, CarriesHeeds DEF Whole
<1>6. Whole(c) /\ Heeds(b, c)
  BY <1>5, StationStepKept, StationStepHeeds
<1> HIDE DEF c
<1>7. Heeds(x, c)
  BY <1>2, <1>5, <1>6, HeedsTwice
<1>8. Unmoved(x, ReleaseEnded(c, stops))
  BY <1>6, <1>7, ReleaseEndedUnmoved
<1> QED BY <1>1, <1>8 DEF r

LEMMA ControlHeeds ==
  ASSUME NEW y \in Worlds, NEW k, Typed(k), Forth(y.session, k.session)
  PROVE  Heeds(y, WithControl(y, k))
<1> DEFINE z == WithControl(y, k)
<1>1. LET w == WithControl(y, k)
      IN /\ w \in Worlds
         /\ w.op = y.op /\ w.media = y.media /\ w.last = y.last
         /\ w.session = k.session /\ w.control = k.control
  BY WithControlIs
<1>2. z.op = y.op /\ z.media = y.media /\ z.last = y.last /\ z.session = k.session
  BY <1>1
<1> HIDE DEF z
<1>3. Tends(y, z) /\ Passes(y, z)
  BY <1>2, SameTends, SamePasses
<1>4. Heeds(y, z)
  BY <1>3, PassesHeeds
<1> QED BY <1>4 DEF z

LEMMA ReceiveControlFrameUnmoved ==
  ASSUME NEW y, Whole(y), Clear(y), NEW f, Framed(f), NEW room, NEW stops \in BOOLEAN
  PROVE  Unmoved(y, ReceiveControlFrame(y, f, room, stops))
<1> DEFINE x == ReceiveFrom(y, f).to
           a == WithControl(y, x)
           b == StationStep(a, room, stops)
<1> y \in Worlds
  BY DEF Whole
<1>1. LET w == ReceiveFrom(y, f).to
      IN Typed(w) /\ Carries(y, w)
  BY ReceiveFromWorld
<1>2. Typed(x) /\ Carries(y, x)
  BY <1>1
<1>3. ReceiveControlFrame(y, f, room, stops) = ReleaseEnded(b, stops)
  BY DEF ReceiveControlFrame
<1> HIDE DEF x
<1>4. Whole(a)
  BY <1>2, CarriedWhole DEF Carries
<1>5. Forth(y.session, x.session)
  BY <1>2, WorldParts, LaterForth DEF Carries, Typed
<1>6. Heeds(y, a)
  BY <1>2, <1>5, ControlHeeds
<1> HIDE DEF a
<1>7. Whole(b) /\ Heeds(a, b)
  BY <1>4, StationStepKept, StationStepHeeds
<1> HIDE DEF b
<1>8. Heeds(y, b)
  BY <1>6, <1>7, HeedsTwice
<1> QED BY <1>3, <1>7, <1>8, ReleaseEndedUnmoved

-----------------------------------------------------------------------------
(* The frame of a caller and the incoming call *)

\* A session for the caller, which takes the place of the station's own, or of
\* a preview that goes.
LEMMA IncomingMediaIs ==
  ASSUME NEW ms \in Medias, NEW l, NEW p \in Registered, NEW c, NEW works
  PROVE  LET ns == IncomingMedia(ms, l, p, c, works).media
         IN \/ ns = ms
            \/ /\ ns[p] = NewMedia(l + 1, "call", c)
               /\ \A i \in Registered \ {p} : ns[i] \in {ms[i], NoMedia}
<1> DEFINE n == NewMedia(l + 1, "call", c)
           q == OldestPreview(ms)
           less == Replaced(ms, q, NoMedia)
           ns == IncomingMedia(ms, l, p, c, works).media
<1>1. ns \in {ms, Replaced(ms, p, n), Replaced(less, p, n)}
  BY DEF IncomingMedia, Done, Replaced
<1> HIDE DEF n, ns, q
<1>2. \A i \in Registered : less[i] \in {ms[i], NoMedia}
  BY DEF Replaced, Medias
<1>3. DOMAIN less = Registered
  BY DEF Replaced, Medias
<1> HIDE DEF less
<1>4. /\ Replaced(ms, p, n)[p] = n /\ Replaced(less, p, n)[p] = n
      /\ \A i \in Registered \ {p} : /\ Replaced(ms, p, n)[i] = ms[i]
                                    /\ Replaced(less, p, n)[i] = less[i]
  BY <1>3 DEF Replaced, Medias
<1>5. \/ ns = ms
      \/ ns[p] = n /\ \A i \in Registered \ {p} : ns[i] \in {ms[i], NoMedia}
  BY <1>1, <1>2, <1>4
<1> QED BY <1>5 DEF ns, n

\* The session of the new call is a new one and live; the others belong to
\* earlier calls.
LEMMA WithIncomingClear ==
  ASSUME NEW y, Whole(y), Clear(y), NEW f, f.src \in Registered, NEW k, Typed(k),
         k.session.generation > y.session.generation, NEW works
  PROVE  Clear(WithControl(WithIncoming(y, f, k.session.generation, works), k))
<1> DEFINE p == f.src
           g == k.session.generation
           ms == y.media
           ns == IncomingMedia(ms, y.last, p, g, works).media
           l == LastGeneration(y.last, ns)
           b == WithIncoming(y, f, g, works)
           c == WithControl(b, k)
<1> y \in Worlds /\ ms \in Medias
  BY WorldParts DEF Whole
<1>1. y.last \in Nat /\ y.op.media \in Nat /\ g \in Nat /\ y.session.generation \in Nat
  BY WorldParts, SessionParts DEF MediaGenerations, Operations, Typed
<1>2. l \in {y.last, y.last + 1} /\ (ns[p].generation = y.last + 1 => l = y.last + 1)
  <2>1. y.last + 1 > y.last
    BY <1>1
  <2> QED BY <2>1 DEF LastGeneration
<1>3. b = [y EXCEPT !.media = ns, !.last = l]
  BY DEF WithIncoming, WithMedia
<1>4. LET m == IncomingMedia(ms, y.last, p, g, works).media
      IN \/ m = ms
         \/ /\ m[p] = NewMedia(y.last + 1, "call", g)
            /\ \A i \in Registered \ {p} : m[i] \in {ms[i], NoMedia}
  BY IncomingMediaIs
<1>5. \/ ns = ms
      \/ /\ ns[p] = NewMedia(y.last + 1, "call", g)
         /\ \A i \in Registered \ {p} : ns[i] \in {ms[i], NoMedia}
  BY <1>4
<1> HIDE DEF ns, l
<1>6. c.op = y.op /\ c.media = ns /\ c.last = l /\ c.session = k.session
  BY <1>3 DEF Worlds, WithControl
<1> HIDE DEF b, c
<1>7. c.op.media <= c.last
  BY <1>1, <1>2, <1>6 DEF Clear
<1>8. ASSUME NEW i \in Registered, ns[i] = ms[i]
      PROVE  /\ Real(c.media[i])
             /\ Loose(c.media[i]) =>
                  /\ c.op.station = i => c.media[i].generation # c.op.media
                  /\ c.media[i].call <= c.session.generation
             /\ Ringing(c, i) => Live(c.media[i])
  <2>1. c.media[i] = ms[i] /\ ms[i].call \in Nat
    BY <1>6, <1>8, MediaCounts DEF Medias, MediaSessions
  <2>2. Loose(c.media[i]) => ms[i].call < g
    BY <1>1, <2>1 DEF Clear
  <2> QED BY <1>1, <1>6, <2>1, <2>2 DEF Clear, Ringing
<1>9. ASSUME NEW i \in Registered, ns[i] = NoMedia
      PROVE  /\ Real(c.media[i])
             /\ Loose(c.media[i]) =>
                  /\ c.op.station = i => c.media[i].generation # c.op.media
                  /\ c.media[i].call <= c.session.generation
             /\ Ringing(c, i) => Live(c.media[i])
  BY <1>6, <1>9 DEF NoMedia, Real, Loose, Ringing
<1>10. ASSUME ns[p] = NewMedia(y.last + 1, "call", g)
       PROVE  /\ Real(c.media[p])
              /\ Loose(c.media[p]) =>
                   /\ c.op.station = p => c.media[p].generation # c.op.media
                   /\ c.media[p].call <= c.session.generation
              /\ Ringing(c, p) => Live(c.media[p])
  <2>1. /\ c.media[p].active /\ c.media[p].generation = y.last + 1
        /\ c.media[p].call = g /\ Live(c.media[p])
    BY <1>6, <1>10 DEF NewMedia, NoMedia, Live
  <2>2. c.media[p].generation # c.op.media
    BY <1>1, <1>6, <2>1 DEF Clear
  <2> QED BY <1>1, <1>6, <2>1, <2>2 DEF Real
<1>11. Clear(c)
  BY <1>5, <1>7, <1>8, <1>9, <1>10 DEF Clear
<1> QED BY <1>11 DEF b, c

LEMMA YieldedHeeds ==
  ASSUME NEW y, Whole(y), NEW f, NEW stops \in BOOLEAN
  PROVE  Heeds(y, Yielded(y, f, stops))
<1> DEFINE end == EndOperation(y, TRUE, "preempted", "preempted", stops)
<1>1. \/ Yielded(y, f, stops) = y
      \/ y.op.stage \in {"preparing", "calling"} /\ Yielded(y, f, stops) = end
  BY DEF Yielded
<1>2. y.op.stage \in {"preparing", "calling"} => Heeds(y, end)
  <2>1. y.op.stage \in {"preparing", "calling"} => y.op.station \in Registered
    BY DEF Whole, Kept, Numbered
  <2> QED BY <2>1, FailsHeeds DEF EndReasons, Faults
<1> HIDE DEF end
<1> QED BY <1>1, <1>2, HeedsSelf DEF Whole

\* The frame begins another call, or the one that is under way goes on.
LEMMA CallReceivedClear ==
  ASSUME NEW y, Whole(y), Clear(y), NEW f, Framed(f),
         NEW works \in BOOLEAN, NEW stops \in BOOLEAN
  PROVE  LET c == CallReceived(y, ReceiveFrom(Tried(y, f), f).to, f, works, stops)
         IN /\ Clear(c)
            /\ Passes(y, c) \/ c.session.generation > y.session.generation
<1> DEFINE t == Tried(y, f)
           k == ReceiveFrom(t, f).to
           g == k.session.generation
           a == Yielded(y, f, stops)
           b == WithIncoming(a, f, g, works)
           new == g # y.session.generation /\ f.src \in Registered
           c == CallReceived(y, k, f, works, stops)
           Goal == Clear(c) /\ (Passes(y, c) \/ c.session.generation > y.session.generation)
<1> SUFFICES Goal
  OBVIOUS
<1> y \in Worlds /\ y.session \in Sessions /\ y.session.generation \in Nat
  BY WorldParts, SessionParts DEF Whole, Typed
<1>1. t \in Worlds /\ Onward(y.session, t.session)
  BY TriedIs
<1>2. c = WithControl(IF new THEN b ELSE y, k)
  BY DEF CallReceived
<1> HIDE DEF c, t
<1>3. LET x == ReceiveFrom(t, f).to
      IN Typed(x) /\ Carries(t, x)
  BY <1>1, ReceiveFromWorld
<1>4. Typed(k) /\ Carries(t, k)
  BY <1>3
<1> HIDE DEF k
<1>5. Forth(y.session, k.session)
  <2>1. t.session \in Sessions /\ k.session \in Sessions
    BY <1>1, <1>4, WorldParts DEF Typed
  <2>2. Forth(y.session, t.session)
    BY <1>1, <2>1, LaterForth DEF Later
  <2>3. Forth(t.session, k.session)
    BY <1>4, <2>1, LaterForth DEF Carries
  <2> QED BY <2>2, <2>3, ForthTwice
<1>6. CASE new
  <2>1. Whole(a) /\ a.session.generation = y.session.generation
    BY YieldedKept
  <2>2. Clear(a)
    BY YieldedHeeds DEF Heeds
  <2> HIDE DEF a
  <2>3. g > y.session.generation
    BY <1>5, <1>6 DEF Forth
  <2>4. Clear(WithControl(WithIncoming(a, f, k.session.generation, works), k))
    BY <1>4, <1>6, <2>1, <2>2, <2>3, WithIncomingClear
  <2>5. Clear(c)
    BY <1>2, <1>6, <2>4
  <2>6. b \in Worlds
    <3>1. g \in Generations
      BY <1>4, SessionParts DEF Typed
    <3> QED BY <1>6, <2>1, <3>1, WithIncomingKept DEF Whole
  <2> HIDE DEF b
  <2>7. LET w == WithControl(b, k)
        IN /\ w \in Worlds
           /\ w.op = b.op /\ w.media = b.media /\ w.last = b.last
           /\ w.session = k.session /\ w.control = k.control
    BY <1>4, <2>6, WithControlIs
  <2>8. c.session = k.session
    BY <1>2, <1>6, <2>7
  <2> QED BY <2>3, <2>5, <2>8
<1>7. CASE ~new
  <2>1. Heeds(y, WithControl(y, k))
    BY <1>4, <1>5, ControlHeeds
  <2> QED BY <1>2, <1>7, <2>1 DEF Heeds
<1> QED BY <1>6, <1>7

LEMMA ReceiveCallFrameUnmoved ==
  ASSUME NEW y, Whole(y), Clear(y), NEW f, Framed(f), NEW works \in BOOLEAN,
         NEW room, NEW stops \in BOOLEAN
  PROVE  Unmoved(y, ReceiveCallFrame(y, f, works, room, stops))
<1> DEFINE c == CallReceived(y, ReceiveFrom(Tried(y, f), f).to, f, works, stops)
           b == StationStep(c, room, stops)
           z == ReceiveCallFrame(y, f, works, room, stops)
<1> y \in Worlds
  BY DEF Whole
<1>1. z \in {b, y}
  BY DEF ReceiveCallFrame
<1> HIDE DEF z
<1>2. Whole(c)
  BY CallReceivedWhole
<1>3. LET x == CallReceived(y, ReceiveFrom(Tried(y, f), f).to, f, works, stops)
      IN /\ Clear(x)
         /\ Passes(y, x) \/ x.session.generation > y.session.generation
  BY CallReceivedClear
<1>4. Clear(c) /\ (Passes(y, c) \/ c.session.generation > y.session.generation)
  BY <1>3
<1> HIDE DEF c
<1>5. Heeds(c, b)
  BY <1>2, StationStepHeeds
<1> HIDE DEF b
<1>6. Clear(b) /\ Passes(c, b)
  BY <1>4, <1>5 DEF Heeds
<1>7. Passes(y, c) => Unmoved(y, b)
  BY <1>6, PassesTwice, PassesUnmoved
<1>8. ASSUME c.session.generation > y.session.generation PROVE Unmoved(y, b)
  <2>1. y.session.generation \in Nat
    BY WorldParts, SessionParts DEF Typed
  <2>2. b.session.generation # y.session.generation
    BY <1>6, <1>8, <2>1 DEF Passes, Forth
  <2> QED BY <1>6, <2>2 DEF Unmoved
<1>9. Unmoved(y, b)
  BY <1>4, <1>7, <1>8
<1>10. Unmoved(y, y)
  BY HeedsSelf, HeedsUnmoved
<1> QED BY <1>1, <1>9, <1>10 DEF z

-----------------------------------------------------------------------------
(* A hangup and the incoming call *)

LEMMA HangupOperationHeeds ==
  ASSUME NEW y, Whole(y), NEW stops \in BOOLEAN
  PROVE  Heeds(y, HangupOperation(y, stops))
<1> DEFINE o == y.op
           c == CancelCommands(y, o.call)
           q == Queued(CommandFor("hangup", y.session))
           n == [o EXCEPT !.stage = "ending", !.left = EndTimeout]
           x == [c EXCEPT !.dispatch = q, !.op = n]
           no == FALSE
           yes == TRUE
           retry == RetryCleanup(y, stops)
           end == EndOperation(y, no, "local_hangup", "cancelled", stops)
           bad == EndOperation(c, yes, "local_hangup", "dispatch_failed", stops)
           z == HangupOperation(y, stops)
<1> y \in Worlds /\ Kept(y) /\ o \in Operations /\ y.session \in Sessions
  BY WorldParts DEF Whole, Typed
<1>1. LET d == CancelCommands(y, o.call)
      IN /\ d \in Worlds
         /\ d.op = y.op /\ d.media = y.media /\ d.last = y.last
         /\ d.session = y.session /\ d.control = y.control
  BY CancelIs
<1>2. /\ Whole(c) /\ c \in Worlds
      /\ c.op = o /\ c.media = y.media /\ c.last = y.last /\ c.session = y.session
  BY <1>1, CancelWhole
<1>3. \/ z = y
      \/ o.cleanup /\ z = retry
      \/ OpActive(o) /\ z \in {end, bad, x}
  BY <1>2 DEF HangupOperation
<1> HIDE DEF c, z
<1>4. yes \in BOOLEAN /\ no \in BOOLEAN
  OBVIOUS
<1> HIDE DEF yes, no
<1>5. ASSUME o.cleanup PROVE Heeds(y, retry)
  <2>1. o.station \in Registered
    BY <1>5 DEF Kept, Numbered
  <2>2. o.error \in BOOLEAN /\ o.reason \in EndReasons /\ o.fault \in Faults
    BY DEF Operations
  <2> QED BY <2>1, <2>2, EndHeeds DEF RetryCleanup
<1>6. ASSUME OpActive(o) PROVE Heeds(y, end) /\ Heeds(c, bad)
  <2>1. o.station \in Registered
    BY <1>6 DEF Kept, Numbered, OpActive
  <2> QED BY <1>2, <1>4, <2>1, EndHeeds DEF EndReasons, Faults
<1>7. Heeds(y, c)
  <2>1. Tends(y, c)
    BY <1>2, SameTends
  <2>2. Passes(y, c)
    BY <1>2, ForthSelf, SamePasses
  <2> QED BY <2>1, <2>2, PassesHeeds
<1>8. ASSUME OpActive(o) PROVE Heeds(y, x)
  <2> HIDE DEF q
  <2>1. n.station = o.station /\ n.media = o.media
    BY DEF Operations
  <2> HIDE DEF n
  <2>2. x.op = n /\ x.media = y.media /\ x.last = y.last /\ x.session = y.session
    BY <1>2 DEF Worlds
  <2> HIDE DEF x
  <2>3. Tends(y, x)
    BY <1>8, <2>1, <2>2, MeekSelf DEF Tends
  <2>4. Passes(y, x)
    BY <2>1, <2>2, ForthSelf, SamePasses
  <2> QED BY <2>3, <2>4, PassesHeeds
<1>9. Heeds(y, y)
  BY HeedsSelf
<1> HIDE DEF retry, end, bad, x
<1>10. Heeds(y, z)
  BY <1>3, <1>5, <1>6, <1>7, <1>8, <1>9, HeedsTwice
<1> QED BY <1>10 DEF z

LEMMA HangupCallUnmoved ==
  ASSUME NEW y, Whole(y), Clear(y), NEW g \in Generations, Active(y.session),
         NEW stops \in BOOLEAN
  PROVE  Unmoved(y, HangupCall(y, g, stops))
<1> DEFINE h == HangupFrom(y, g)
<1> y \in Worlds
  BY DEF Whole
<1>1. h \in Worlds /\ Carries(y, h)
  BY HangupFromWorld
<1>2. HangupCall(y, g, stops) \in {h, ReleaseEnded(h, stops)}
  BY DEF HangupCall
<1> HIDE DEF h
<1>3. Whole(h) /\ Heeds(y, h)
  BY <1>1, CarriesKept, CarriesHeeds DEF Whole
<1>4. Unmoved(y, h) /\ Unmoved(y, ReleaseEnded(h, stops))
  BY <1>3, HeedsUnmoved, ReleaseEndedUnmoved
<1> QED BY <1>2, <1>4

-----------------------------------------------------------------------------
(* Every step and the incoming call *)

\* The inductive invariant of the incoming call's session.
IncomingInv == WatchInv /\ Clear(World)

\* What no step does to the session of the incoming call that lasts.
Persists ==
  /\ Clear(World')
  /\ \A p \in Registered :
       /\ Ringing(World, p)
       /\ Active(session')
       /\ session'.generation = session.generation
       => media'[p] = [media[p] EXCEPT !.viewer = media'[p].viewer]

LEMMA IncomingParts ==
  ASSUME IncomingInv
  PROVE  Whole(World) /\ World \in Worlds /\ Clear(World) /\ StationInv
BY InvWhole DEF IncomingInv, WatchInv

LEMMA WorldUnmoved ==
  ASSUME NEW z, World' = z, Unmoved(World, z)
  PROVE  Persists
<1>1. /\ World.session = session /\ World.media = media
      /\ z.session = session' /\ z.media = media'
  BY DEF World
<1>2. Clear(World')
  BY DEF Unmoved
<1> QED BY <1>1, <1>2 DEF Unmoved, Persists

LEMMA InstalledUnmoved ==
  ASSUME IncomingInv, NEW z \in Worlds, Unmoved(World, z), InstallWorld(z)
  PROVE  Persists
BY WorldInstalled, WorldUnmoved

LEMMA SameUnmoved == ASSUME IncomingInv, World' = World PROVE Persists
BY IncomingParts, HeedsSelf, HeedsUnmoved, WorldUnmoved

LEMMA CommitUnmoved ==
  ASSUME IncomingInv, NEW r, r.to \in Worlds, Unmoved(World, r.to), NEW next,
         CommitWorld(r, next)
  PROVE  Persists
<1>1. CASE r.ok
  BY <1>1, InstalledUnmoved DEF CommitWorld
<1>2. CASE ~r.ok
  <2>1. World' = World
    BY <1>2 DEF CommitWorld, World, Control
  <2> QED BY <2>1, SameUnmoved
<1> QED BY <1>1, <1>2

LEMMA StationCallStepUnmoved ==
  ASSUME IncomingInv, StationCallStep
  PROVE  Persists
<1>1. PICK sent1 \in Outcomes(handshakeDispatch), sent2 \in Beats(op),
           sent3 \in Sends(op, dispatch), room \in Rooms(op), stops \in Stops(media) :
        CommitWorld(CallStep(World, sent1, sent2, sent3, room, stops), "packet")
  BY DEF StationCallStep
<1> DEFINE r == CallStep(World, sent1, sent2, sent3, room, stops)
<1>2. sent1 \in BOOLEAN /\ sent2 \in BOOLEAN /\ sent3 \in BOOLEAN /\ stops \in BOOLEAN
  BY OutcomesType, ChoiceTypes
<1>3. Whole(World) /\ World \in Worlds /\ Clear(World) /\ Heeds(World, World)
  BY IncomingParts, HeedsSelf
<1>4. Unmoved(World, r.to)
  BY <1>2, <1>3, CallStepUnmoved
<1>5. LET q == CallStep(World, sent1, sent2, sent3, room, stops)
      IN q.wire \subseteq Commands /\ Whole(q.to)
  BY <1>2, <1>3, CallStepKept
<1>6. r.to \in Worlds
  BY <1>5 DEF Whole
<1> HIDE DEF r
<1> QED BY <1>1, <1>4, <1>6, CommitUnmoved DEF r

LEMMA StationReceiveCallUnmoved ==
  ASSUME IncomingInv, StationReceiveCall
  PROVE  Persists
<1>1. PICK f \in {h \in Heard : IncomingCall(h)}, works \in BOOLEAN,
           room \in Rooms(op), stops \in Stops(media) :
        InstallWorld(ReceiveCallFrame(World, f, works, room, stops))
  BY DEF StationReceiveCall
<1>2. Framed(f) /\ stops \in BOOLEAN
  BY FramesFramed, ChoiceTypes DEF Heard
<1>3. Whole(World) /\ Clear(World)
  BY IncomingParts
<1>4. Unmoved(World, ReceiveCallFrame(World, f, works, room, stops))
  BY <1>2, <1>3, ReceiveCallFrameUnmoved
<1>5. ReceiveCallFrame(World, f, works, room, stops) \in Worlds
  BY <1>2, <1>3, ReceiveCallFrameKept DEF Whole
<1> QED BY <1>1, <1>4, <1>5, InstalledUnmoved

LEMMA StationReceiveUnmoved ==
  ASSUME IncomingInv, StationReceive
  PROVE  Persists
<1>1. PICK f \in {h \in Heard : ~IncomingCall(h)},
           room \in Rooms(op), stops \in Stops(media) :
        InstallWorld(ReceiveControlFrame(World, f, room, stops))
  BY DEF StationReceive
<1>2. Framed(f) /\ stops \in BOOLEAN
  BY FramesFramed, ChoiceTypes DEF Heard
<1>3. Whole(World) /\ Clear(World)
  BY IncomingParts
<1>4. Unmoved(World, ReceiveControlFrame(World, f, room, stops))
  BY <1>2, <1>3, ReceiveControlFrameUnmoved
<1>5. ReceiveControlFrame(World, f, room, stops) \in Worlds
  BY <1>2, <1>3, ReceiveControlFrameKept DEF Whole
<1> QED BY <1>1, <1>4, <1>5, InstalledUnmoved

LEMMA StationCaptureLostUnmoved ==
  ASSUME IncomingInv, StationCaptureLost
  PROVE  Persists
<1> DEFINE y == WithControl(World, Lost)
           no == FALSE
           yes == TRUE
<1>1. PICK room \in Rooms(op), stops \in Stops(media) :
        CommitWorld(CallStep(IF OpActive(op)
                             THEN EndOperation(y, yes, "runtime_reset", "runtime_reset", stops)
                             ELSE y, no, no, no, room, stops), "poll")
  BY DEF StationCaptureLost
<1> DEFINE e == EndOperation(y, yes, "runtime_reset", "runtime_reset", stops)
           x == IF OpActive(op) THEN e ELSE y
           r == CallStep(x, no, no, no, room, stops)
<1>2. stops \in BOOLEAN /\ no \in BOOLEAN /\ yes \in BOOLEAN
  BY ChoiceTypes
<1> HIDE DEF no, yes
<1>3. Whole(World) /\ World \in Worlds /\ Clear(World) /\ session \in Sessions
  BY IncomingParts, InvWhole DEF TypeOK
<1>4. Typed(Lost) /\ Lost.session = Abort(session)
      /\ (~Active(session) => Lost.control = Control)
  <2>1. Lost \in Structs
    BY IncomingParts, InvWhole, LostType
  <2>2. Lost.session = Abort(session) /\ (~Active(session) => Lost.control = Control)
    BY DEF Lost, Struct
  <2> QED BY <2>1, <2>2, StructsTyped
<1>5. Whole(y)
  <2>1. Later(session, Lost.session)
    BY <1>3, <1>4, EndedOnward DEF Later
  <2> QED BY <1>3, <1>4, <2>1, WorldIs, CarriedWhole
<1>6. Heeds(World, y)
  <2>1. Forth(World.session, Lost.session)
    BY <1>3, <1>4, WorldIs, AbortForth
  <2> QED BY <1>3, <1>4, <2>1, ControlHeeds
<1>7. y.op = op
  <2>1. LET z == WithControl(World, Lost)
        IN /\ z \in Worlds
           /\ z.op = World.op /\ z.media = World.media /\ z.last = World.last
           /\ z.session = Lost.session /\ z.control = Lost.control
    BY <1>3, <1>4, WithControlIs
  <2> QED BY <2>1, WorldIs
<1> HIDE DEF y
<1>8. Heeds(y, x) /\ Whole(x)
  <2>1. CASE OpActive(op)
    <3>1. y.op.station \in Registered
      BY <1>5, <1>7, <2>1 DEF Whole, Kept, Numbered, OpActive
    <3>2. Heeds(y, e)
      BY <1>2, <1>5, <3>1, EndHeeds DEF EndReasons, Faults
    <3>3. LET w == EndOperation(y, yes, "runtime_reset", "runtime_reset", stops)
          IN Whole(w) /\ w.session.generation = y.session.generation
      BY <1>2, <1>5, <3>1, EndOperationKept DEF EndReasons, Faults
    <3> QED BY <2>1, <3>2, <3>3
  <2>2. CASE ~OpActive(op)
    BY <1>5, <2>2, HeedsSelf DEF Whole
  <2> QED BY <2>1, <2>2
<1>9. CommitWorld(r, "poll")
  BY <1>1
<1> HIDE DEF x
<1>10. Heeds(World, x)
  BY <1>6, <1>8, HeedsTwice
<1>11. Unmoved(World, r.to)
  BY <1>2, <1>3, <1>8, <1>10, CallStepUnmoved
<1>12. LET q == CallStep(x, no, no, no, room, stops)
       IN q.wire \subseteq Commands /\ Whole(q.to)
  BY <1>2, <1>8, CallStepKept
<1>13. r.to \in Worlds
  BY <1>12 DEF Whole
<1> HIDE DEF r
<1> QED BY <1>9, <1>11, <1>13, CommitUnmoved

LEMMA HangupUnmoved ==
  ASSUME IncomingInv, NEW stops \in BOOLEAN,
         \/ InstallWorld(HangupOperation(World, stops))
         \/ Active(session) /\ InstallWorld(HangupCall(World, session.generation, stops))
  PROVE  Persists
<1>1. Whole(World) /\ World \in Worlds /\ Clear(World) /\ session.generation \in Generations
  BY IncomingParts, InvWhole, SessionParts DEF TypeOK
<1>2. ASSUME NEW z \in Worlds, InstallWorld(z), Unmoved(World, z)
      PROVE  Persists
  BY <1>2, InstalledUnmoved
<1>3. CASE InstallWorld(HangupOperation(World, stops))
  <2> DEFINE z == HangupOperation(World, stops)
  <2>1. Heeds(World, z)
    BY <1>1, HangupOperationHeeds
  <2>2. z \in Worlds
    BY <1>1, HangupOperationKept DEF Whole
  <2>3. InstallWorld(z)
    BY <1>3
  <2> HIDE DEF z
  <2>4. Unmoved(World, z)
    BY <1>1, <2>1, HeedsUnmoved
  <2> QED BY <1>2, <2>2, <2>3, <2>4
<1>4. CASE /\ Active(session)
           /\ InstallWorld(HangupCall(World, session.generation, stops))
  <2> DEFINE g == session.generation
             z == HangupCall(World, g, stops)
  <2>1. Active(World.session) /\ g \in Generations /\ InstallWorld(z)
    BY <1>1, <1>4, WorldIs
  <2> HIDE DEF g
  <2>2. Unmoved(World, z)
    BY <1>1, <2>1, HangupCallUnmoved
  <2>3. z \in Worlds
    BY <1>1, <2>1, HangupCallKept DEF Whole
  <2> HIDE DEF z
  <2> QED BY <1>2, <2>1, <2>2, <2>3
<1> QED BY <1>3, <1>4

LEMMA HangupGenerationUnmoved ==
  ASSUME IncomingInv, NEW g, HangupGeneration(g)
  PROVE  Persists
<1>1. PICK stops \in Stops(media) :
        \/ InstallWorld(HangupOperation(World, stops))
        \/ Active(session) /\ InstallWorld(HangupCall(World, g, stops))
  BY DEF HangupGeneration
<1>2. g = session.generation
  BY DEF HangupGeneration
<1>3. stops \in BOOLEAN
  BY ChoiceTypes
<1> QED BY <1>1, <1>2, <1>3, HangupUnmoved

LEMMA HangupStationUnmoved ==
  ASSUME IncomingInv, NEW p, NEW generation, HangupStation(p, generation)
  PROVE  Persists
<1>1. PICK stops \in Stops(media) :
        \/ InstallWorld(HangupOperation(World, stops))
        \/ Active(session)
             /\ InstallWorld(HangupCall(World, session.generation, stops))
  BY DEF HangupStation
<1>2. stops \in BOOLEAN
  BY ChoiceTypes
<1> QED BY <1>1, <1>2, HangupUnmoved

LEMMA RequestCallUnmoved ==
  ASSUME IncomingInv, RequestCall
  PROVE  Persists
<1>1. PICK stops \in Stops(media) : InstallWorld(InstallCall(World, stops))
  BY DEF RequestCall
<1> DEFINE yes == TRUE
           z == InstallCall(World, stops)
<1>2. /\ Check(media, op.station, op.media, yes) = "ok" /\ MayInstall(World)
      /\ op.stage = "preparing"
  BY DEF RequestCall
<1> HIDE DEF yes
<1>3. Whole(World) /\ World \in Worlds /\ Clear(World) /\ StationInv
  BY IncomingParts
<1>4. /\ Check(World.media, World.op.station, World.op.media, yes) = "ok"
      /\ World.op.station \in Registered /\ World.op.stage = "preparing"
  BY <1>2, <1>3, WorldIs DEF StationInv, Kept, Numbered
<1>5. Heeds(World, z)
  BY <1>2, <1>3, <1>4, InstallCallHeeds
<1>6. z \in Worlds
  BY <1>2, <1>3, <1>4, InstallCallKept DEF Whole
<1> HIDE DEF z
<1>7. Unmoved(World, z)
  BY <1>3, <1>5, HeedsUnmoved
<1> QED BY <1>1, <1>6, <1>7, InstalledUnmoved DEF z

\* Call control goes on without a word to the media or to the operation.
LEMMA QuietUnmoved ==
  ASSUME IncomingInv, Forth(session, session'), media' = media, last' = last,
         op'.stage = op.stage, op'.station = op.station, op'.media = op.media
  PROVE  Persists
<1> DEFINE y == World
           z == World'
<1>1. /\ y.session = session /\ y.op = op /\ y.media = media /\ y.last = last
      /\ z.session = session' /\ z.op = op' /\ z.media = media' /\ z.last = last'
  BY DEF World
<1>2. y \in Worlds /\ Clear(y)
  BY IncomingParts
<1>3. z = World'
  OBVIOUS
<1> HIDE DEF y, z
<1>4. Passes(y, z)
  BY <1>1, SamePasses
<1>5. Tends(y, z)
  BY <1>1, MeekSelf DEF Tends, OpActive
<1>6. Clear(z)
  BY <1>2, <1>4, <1>5, PassesClear
<1>7. Unmoved(y, z)
  BY <1>2, <1>4, <1>6, PassesUnmoved
<1>8. Unmoved(World, z)
  BY <1>7 DEF y
<1> QED BY <1>3, <1>8, WorldUnmoved

LEMMA SameForth == ASSUME IncomingInv PROVE session \in Sessions /\ Forth(session, session)
BY IncomingParts, InvWhole, ForthSelf DEF TypeOK

LEMMA AnswerCallUnmoved ==
  ASSUME IncomingInv, NEW g, AnswerCall(g)
  PROVE  Persists
BY SameForth, QuietUnmoved DEF AnswerCall, Answer

LEMMA StationNoPacketUnmoved ==
  ASSUME IncomingInv, StationNoPacket
  PROVE  Persists
BY SameForth, QuietUnmoved DEF StationNoPacket, NoPacket

LEMMA StationTickUnmoved ==
  ASSUME IncomingInv, StationTick
  PROVE  Persists
<1>1. session \in Sessions /\ op \in Operations
  BY IncomingParts, InvWhole DEF TypeOK, StationInv, StationTypeOK
<1>2. session'.state = session.state /\ session'.generation = session.generation
  BY <1>1 DEF StationTick, Tick, Sessions
<1>3. Forth(session, session')
  BY <1>1, <1>2, SessionParts DEF Forth, Active
<1>4. /\ op'.stage = op.stage /\ op'.station = op.station /\ op'.media = op.media
      /\ media' = media /\ last' = last
  BY <1>1 DEF StationTick, Operations
<1> QED BY <1>3, <1>4, QuietUnmoved

\* Session n is m, an incoming call's that lives on, or none of a call's.
Lives(m, n) ==
  /\ Real(n)
  /\ Loose(n) => /\ Loose(m)
                 /\ n.generation = m.generation
                 /\ n.call = m.call

\* The requests of the media leave the sessions of incoming calls.
LEMMA SessionsUnmoved ==
  ASSUME IncomingInv, UNCHANGED vars, op'.media <= last',
         \A i \in Registered :
           /\ Lives(media[i], media'[i])
           /\ Loose(media'[i]) /\ op'.station = i => media[i].generation # op'.media
           /\ Ringing(World, i) =>
                Live(media'[i]) /\ media'[i] = [media[i] EXCEPT !.viewer = media'[i].viewer]
  PROVE  Persists
<1> DEFINE y == World
           z == World'
<1>1. /\ y.session = session /\ y.op = op /\ y.media = media /\ y.last = last
      /\ z.session = session /\ z.op = op' /\ z.media = media' /\ z.last = last'
  BY DEF World, vars
<1>2. Clear(y)
  BY IncomingParts
<1>3. /\ z = World' /\ session' = session
      /\ \A i \in Registered : Ringing(World, i) <=> Ringing(y, i)
  BY DEF vars
<1> HIDE DEF y, z
<1>4. ASSUME NEW i \in Registered
      PROVE  /\ Real(z.media[i])
             /\ Loose(z.media[i]) =>
                  /\ z.op.station = i => z.media[i].generation # z.op.media
                  /\ z.media[i].call <= z.session.generation
             /\ Ringing(z, i) => Live(z.media[i])
  <2>1. Real(z.media[i])
    BY <1>1 DEF Lives
  <2>2. ASSUME Loose(z.media[i])
        PROVE  /\ z.op.station = i => z.media[i].generation # z.op.media
               /\ z.media[i].call <= z.session.generation
               /\ Ringing(z, i) => Ringing(y, i)
    <3>1. /\ Loose(y.media[i]) /\ z.media[i].call = y.media[i].call
          /\ z.media[i].generation = y.media[i].generation
      BY <1>1, <2>2 DEF Lives
    <3>2. z.op.station = i => z.media[i].generation # z.op.media
      BY <1>1, <2>2, <3>1
    <3> QED BY <1>1, <1>2, <3>1, <3>2 DEF Clear, Ringing
  <2>3. Ringing(z, i) => Live(z.media[i])
    BY <1>1, <1>3, <2>2 DEF Ringing
  <2> QED BY <2>1, <2>2, <2>3
<1>5. Clear(z)
  BY <1>1, <1>4 DEF Clear
<1>6. Clear(World')
  BY <1>3, <1>5
<1> QED BY <1>6 DEF Persists

LEMMA LivesSelf == ASSUME NEW m, Real(m) PROVE Lives(m, m)
BY DEF Lives

\* What a step finds of the operation and of the sessions.
LEMMA MediaClear ==
  ASSUME IncomingInv
  PROVE  /\ media \in Medias /\ last \in MediaGenerations /\ op \in Operations
         /\ Numbers(media, last)
         /\ op.media <= last
         /\ \A i \in Registered :
              /\ media[i] \in MediaSessions
              /\ Real(media[i])
              /\ Loose(media[i]) /\ op.station = i => media[i].generation # op.media
              /\ Ringing(World, i) => Loose(media[i]) /\ Live(media[i])
<1>1. media \in Medias /\ last \in MediaGenerations /\ op \in Operations
  BY IncomingParts DEF StationInv, StationTypeOK, Medias
<1>2. Numbers(media, last)
  BY WorldIs DEF IncomingInv, WatchInv, Counted, Numbers
<1>3. Clear(World) /\ World.op = op /\ World.media = media /\ World.last = last
  BY IncomingParts, WorldIs
<1>4. \A i \in Registered : media[i] \in MediaSessions
  BY <1>1 DEF Medias
<1> QED BY <1>1, <1>2, <1>3, <1>4 DEF Clear, Ringing

\* The sessions besides the one that is replaced stay as they are.
LEMMA OthersUnmoved ==
  ASSUME IncomingInv, UNCHANGED vars, op'.media <= last',
         NEW p \in Registered, NEW n, media' = Replaced(media, p, n),
         Lives(media[p], n),
         Loose(n) /\ op'.station = p => media[p].generation # op'.media,
         Ringing(World, p) => Live(n) /\ n = [media[p] EXCEPT !.viewer = n.viewer],
         \A i \in Registered \ {p} :
           Loose(media[i]) /\ op'.station = i => media[i].generation # op'.media
  PROVE  Persists
<1>1. ASSUME NEW i \in Registered
      PROVE  /\ Lives(media[i], media'[i])
             /\ Loose(media'[i]) /\ op'.station = i => media[i].generation # op'.media
             /\ Ringing(World, i) =>
                  Live(media'[i]) /\ media'[i] = [media[i] EXCEPT !.viewer = media'[i].viewer]
  <2>1. CASE i = p
    <3>1. media'[i] = n
      BY <2>1, MediaClear DEF Replaced, Medias
    <3> QED BY <2>1, <3>1
  <2>2. CASE i # p
    <3>1. media'[i] = media[i]
      BY <2>2, MediaClear DEF Replaced, Medias
    <3>2. media[i] \in MediaSessions /\ Real(media[i])
          /\ (Ringing(World, i) => Live(media[i]))
      BY MediaClear
    <3> QED BY <2>2, <3>1, <3>2, LivesSelf, SameViewer
  <2> QED BY <2>1, <2>2
<1> QED BY <1>1, SessionsUnmoved

\* A preview that begins takes a free session.
LEMMA StartUnmoved ==
  ASSUME IncomingInv, UNCHANGED vars, NEW p \in Registered,
         StartPreview(media, last, p).ok,
         media' = StartPreview(media, last, p).media,
         last' = LastGeneration(last, media'),
         \/ op'.station = op.station /\ op'.media = op.media
         \/ /\ op'.station = p /\ op'.media = media'[p].generation
            /\ media[p].active => media[p].purpose = "preview"
  PROVE  Persists
<1> DEFINE ns == StartPreview(media, last, p).media
           n == NewMedia(last + 1, "preview", 0)
<1>1. /\ media \in Medias /\ last \in MediaGenerations /\ op \in Operations
      /\ Numbers(media, last) /\ op.media <= last
      /\ media[p] \in MediaSessions
  BY MediaClear
<1>2. last \in Nat /\ op.media \in Nat
  BY <1>1 DEF MediaGenerations, Operations
<1>3. \A i \in Registered :
        Loose(media[i]) /\ op.station = i => media[i].generation # op.media
  BY MediaClear
<1>4. LET w == StartPreview(media, last, p).media
      IN \/ media[p].active /\ w = media
         \/ Added(media, w, last, p) /\ w[p].purpose = "preview"
  BY <1>1, StartPreviewAdds
<1>5. \/ media[p].active /\ ns = media
      \/ Added(media, ns, last, p) /\ ns[p].purpose = "preview"
  BY <1>4
<1>6. \/ media[p].active /\ ns = media
      \/ ~media[p].active /\ ns = Replaced(media, p, n)
  BY DEF StartPreview, Replaced, Done
<1>7. ns = media'
  OBVIOUS
<1>8. ~Loose(n) /\ Real(n)
  BY DEF NewMedia, NoMedia, Loose, Real
<1> HIDE DEF ns, n
<1>9. \A i \in Registered \ {p} :
        Loose(media[i]) /\ op'.station = i => media[i].generation # op'.media
  BY <1>3
<1>10. CASE media[p].active /\ ns = media
  <2>1. last' = last
    BY <1>1, <1>7, <1>10, SameNumbers
  <2>2. op'.media <= last'
    BY <1>1, <1>7, <1>10, <2>1 DEF Numbers
  <2>3. media' = Replaced(media, p, media[p])
    BY <1>1, <1>7, <1>10 DEF Replaced, Medias
  <2>4. Loose(media[p]) /\ op'.station = p => media[p].generation # op'.media
    BY <1>3, <1>10 DEF Loose
  <2>5. Lives(media[p], media[p])
    BY MediaClear, LivesSelf
  <2>6. Ringing(World, p) =>
          Live(media[p]) /\ media[p] = [media[p] EXCEPT !.viewer = media[p].viewer]
    BY <1>1, MediaClear, SameViewer
  <2> QED BY <1>9, <2>2, <2>3, <2>4, <2>5, <2>6, OthersUnmoved
<1>11. CASE ~media[p].active /\ ns = Replaced(media, p, n)
  <2>1. Added(media, ns, last, p)
    BY <1>5, <1>11
  <2>2. LastGeneration(last, ns) = last + 1 /\ Numbers(ns, last + 1)
    BY <1>1, <2>1, AddedNumbers
  <2>3. last' = last + 1 /\ media'[p].generation <= last'
    BY <1>7, <2>2 DEF Numbers
  <2>4. op'.media <= last'
    BY <1>1, <1>2, <2>3
  <2>5. ~Ringing(World, p)
    BY <1>11, MediaClear DEF Loose
  <2>6. Lives(media[p], n)
    BY <1>8 DEF Lives
  <2> QED BY <1>7, <1>8, <1>9, <1>11, <2>4, <2>5, <2>6, OthersUnmoved
<1> QED BY <1>6, <1>10, <1>11

LEMMA AdmitUnmoved ==
  ASSUME IncomingInv, NEW p \in Registered, Admit(p)
  PROVE  Persists
<1>1. /\ StartPreview(media, last, p).ok
      /\ media' = StartPreview(media, last, p).media
      /\ last' = LastGeneration(last, media') /\ UNCHANGED vars
      /\ op'.station = p /\ op'.media = media'[p].generation
      /\ media[p].active => media[p].purpose = "preview"
  BY DEF Admit, NoOperation
<1> QED BY <1>1, StartUnmoved

LEMMA SharedKey ==
  ASSUME IncomingInv, NEW p
  PROVE  Shared(p).station = op.station /\ Shared(p).media = op.media
BY MediaClear DEF Shared, Operations

LEMMA MonitorStartUnmoved ==
  ASSUME IncomingInv, NEW p \in Registered, MonitorStart(p)
  PROVE  Persists
<1>1. /\ StartPreview(media, last, p).ok
      /\ media' = StartPreview(media, last, p).media
      /\ last' = LastGeneration(last, media') /\ UNCHANGED vars
      /\ op' = Shared(p)
  BY DEF MonitorStart
<1>2. op'.station = op.station /\ op'.media = op.media
  BY <1>1, SharedKey
<1> QED BY <1>1, <1>2, StartUnmoved

LEMMA MonitorViewerUnmoved ==
  ASSUME IncomingInv, NEW p \in Registered, MonitorViewer(p)
  PROVE  Persists
<1>1. PICK watching \in BOOLEAN :
        /\ \E m \in Viewed(media[p], watching) : media' = [media EXCEPT ![p] = m]
        /\ op' = IF watching THEN Shared(p) ELSE op
  BY DEF MonitorViewer
<1>2. PICK m \in Viewed(media[p], watching) : media' = [media EXCEPT ![p] = m]
  BY <1>1
<1>3. PICK s \in {media[p].state, "live"} :
        m = [media[p] EXCEPT !.viewer = watching, !.state = s]
  BY DEF Viewed
<1>4. UNCHANGED vars /\ last' = last /\ media' = Replaced(media, p, m)
  BY <1>2 DEF MonitorViewer, Replaced
<1>5. op'.station = op.station /\ op'.media = op.media
  BY <1>1, SharedKey
<1>6. /\ media[p] \in MediaSessions /\ Real(media[p])
      /\ Ringing(World, p) => Live(media[p])
      /\ op.media <= last
      /\ \A i \in Registered :
           Loose(media[i]) /\ op.station = i => media[i].generation # op.media
  BY MediaClear
<1>7. Lives(media[p], m)
  BY <1>3, <1>6 DEF Lives, Real, Loose, MediaSessions
<1>8. Ringing(World, p) => Live(m) /\ m = [media[p] EXCEPT !.viewer = m.viewer]
  <2> SUFFICES ASSUME Live(media[p])
               PROVE  Live(m) /\ m = [media[p] EXCEPT !.viewer = m.viewer]
    BY <1>6
  <2>1. s = media[p].state
    BY DEF Live
  <2> QED BY <1>3, <1>6, <2>1 DEF Live, MediaSessions
<1>9. Loose(m) /\ op'.station = p => media[p].generation # op'.media
  BY <1>5, <1>6, <1>7 DEF Lives
<1>10. op'.media <= last'
       /\ \A i \in Registered \ {p} :
            Loose(media[i]) /\ op'.station = i => media[i].generation # op'.media
  BY <1>4, <1>5, <1>6
<1> QED BY <1>4, <1>7, <1>8, <1>9, <1>10, OthersUnmoved

LEMMA MonitorStopUnmoved ==
  ASSUME IncomingInv, NEW p \in Registered, MonitorStop(p)
  PROVE  Persists
<1>1. PICK stops \in BOOLEAN :
        media' = StopPreview(media, p, media[p].generation, stops).media
  BY DEF MonitorStop
<1>2. UNCHANGED vars /\ last' = last /\ op' = op /\ media[p].purpose = "preview"
  BY DEF MonitorStop
<1>3. /\ media \in Medias /\ media[p] \in MediaSessions /\ Real(media[p])
      /\ op.media <= last
      /\ \A i \in Registered :
           Loose(media[i]) /\ op.station = i => media[i].generation # op.media
  BY MediaClear
<1> DEFINE n == Halted(media[p])
<1>4. media' \in {Replaced(media, p, media[p]), Replaced(media, p, n),
                  Replaced(media, p, NoMedia)}
  BY <1>1, <1>3 DEF StopPreview, Replaced, Halted, Medias, Done
<1>5. /\ n.purpose = "preview" /\ NoMedia.purpose = "preview"
      /\ media[p].purpose = "preview"
  BY <1>2, <1>3 DEF Halted, NoMedia, MediaSessions
<1> HIDE DEF n
<1>6. PICK m \in {media[p], n, NoMedia} : media' = Replaced(media, p, m)
  BY <1>4
<1>7. ~Loose(m) /\ Real(m) /\ ~Loose(media[p])
  BY <1>5, <1>6 DEF Loose, Real
<1>8. Lives(media[p], m) /\ ~Ringing(World, p)
  BY <1>7, MediaClear DEF Lives
<1> QED BY <1>2, <1>3, <1>6, <1>7, <1>8, OthersUnmoved

\* What becomes of a session unasked, when no session fails unasked.
LEMMA MediaChangeUnmoved ==
  ASSUME IncomingInv, MediaFaults \subseteq {"live", "unconfirmed"},
         NEW p \in Registered, MediaChange(p)
  PROVE  Persists
<1>1. PICK m \in MediaChanges(media[p]) : media' = Replaced(media, p, m)
  BY DEF MediaChange, Replaced
<1>2. UNCHANGED vars /\ last' = last /\ op' = op
  BY DEF MediaChange
<1>3. /\ media[p] \in MediaSessions /\ Real(media[p])
      /\ Ringing(World, p) => Loose(media[p]) /\ Live(media[p])
      /\ op.media <= last
      /\ \A i \in Registered :
           Loose(media[i]) /\ op.station = i => media[i].generation # op.media
  BY MediaClear
<1>4. CASE m = NoMedia /\ m \notin Turns(media[p])
  <2>1. ~Loose(m) /\ Real(m)
    BY <1>4 DEF Loose, Real, NoMedia
  <2>2. ~Live(media[p])
    BY <1>4 DEF MediaChanges, Live
  <2>3. Lives(media[p], m) /\ ~Ringing(World, p)
    BY <1>3, <2>1, <2>2 DEF Lives
  <2> QED BY <1>1, <1>2, <1>3, <2>1, <2>3, OthersUnmoved
<1>5. CASE m \in Turns(media[p])
  <2>1. PICK s \in {media[p].state} \cup (MediaFaults \cap {"live", "failed", "stopping"}),
             c \in Confirmations(media[p]), v \in Watchers(media[p]) :
          m = Turned(media[p], s, c, v)
    BY <1>5 DEF Turns
  <2>2. Lives(media[p], m)
    BY <1>3, <2>1 DEF Turned, Lives, Real, Loose, MediaSessions
  <2>3. s \in {media[p].state, "live"}
    BY <2>1
  <2>4. ASSUME Ringing(World, p)
        PROVE  Live(m) /\ m = [media[p] EXCEPT !.viewer = m.viewer]
    <3>1. media[p].state = "live" /\ media[p].pending = "none" /\ ~media[p].confirmed
          /\ media[p].purpose = "call"
      BY <1>3, <2>4 DEF Live, Loose
    <3>2. s = media[p].state
      BY <2>3, <3>1
    <3>3. c = media[p].confirmed
      BY <1>3, <3>1 DEF Confirmations, MediaSessions
    <3> QED BY <1>3, <2>1, <3>1, <3>2, <3>3 DEF Turned, Live, MediaSessions
  <2>5. Loose(m) /\ op'.station = p => media[p].generation # op'.media
    BY <1>2, <1>3, <2>2 DEF Lives
  <2> QED BY <1>1, <1>2, <1>3, <2>2, <2>4, <2>5, OthersUnmoved
<1>6. m = NoMedia \/ m \in Turns(media[p])
  BY <1>1 DEF MediaChanges
<1> QED BY <1>4, <1>5, <1>6

-----------------------------------------------------------------------------
\* No session of an incoming call turns bad without a request: its monitor may
\* find it live or lose the confirmation of its station, and nothing else.
MediaSteady == MediaFaults \subseteq {"live", "unconfirmed"}

LEMMA StationNextUnmoved ==
  ASSUME IncomingInv, MediaSteady, StationNext
  PROVE  Persists
<1>1. ASSUME NEW g \in Generations, AnswerCall(g) \/ HangupGeneration(g)
      PROVE  Persists
  BY <1>1, AnswerCallUnmoved, HangupGenerationUnmoved
<1>2. ASSUME NEW p \in Registered, MediaChange(p)
      PROVE  Persists
  BY <1>2, MediaChangeUnmoved DEF MediaSteady
<1>3. ASSUME NEW p \in Registered,
             Admit(p) \/ MonitorStart(p) \/ MonitorViewer(p) \/ MonitorStop(p)
      PROVE  Persists
  BY <1>3, AdmitUnmoved, MonitorStartUnmoved, MonitorViewerUnmoved, MonitorStopUnmoved
<1>4. ASSUME NEW p \in Registered, NEW g \in MediaGenerations, HangupStation(p, g)
      PROVE  Persists
  BY <1>4, HangupStationUnmoved
<1> QED
  BY <1>1, <1>2, <1>3, <1>4, RequestCallUnmoved, StationCallStepUnmoved,
     StationReceiveCallUnmoved, StationReceiveUnmoved, StationNoPacketUnmoved,
     StationCaptureLostUnmoved, StationTickUnmoved DEF StationNext

LEMMA IncomingInitInv == StationInit => IncomingInv
<1> SUFFICES ASSUME StationInit PROVE IncomingInv
  OBVIOUS
<1>1. /\ World.op = op /\ World.media = media /\ World.last = last
      /\ op.media = 0 /\ last = 0
  BY WorldIs DEF StationInit, NoOperation
<1>2. \A p \in Registered : ~Loose(World.media[p]) /\ Real(World.media[p])
  BY <1>1 DEF StationInit, NoMedia, Loose, Real
<1>3. Clear(World)
  BY <1>1, <1>2 DEF Clear, Ringing
<1> QED BY <1>3, WatchInitInv DEF IncomingInv

LEMMA IncomingNextInv ==
  MediaSteady /\ IncomingInv /\ [StationNext]_stationVars => IncomingInv'
<1> SUFFICES ASSUME MediaSteady, IncomingInv, [StationNext]_stationVars
             PROVE  IncomingInv'
  OBVIOUS
<1>1. WatchInv'
  BY WatchNextInv DEF IncomingInv
<1>2. CASE StationNext
  BY <1>1, <1>2, StationNextUnmoved DEF IncomingInv, Persists
<1>3. CASE UNCHANGED stationVars
  <2>1. World' = World
    BY <1>3 DEF stationVars, vars, World, Control
  <2> QED BY <1>1, <2>1 DEF IncomingInv
<1> QED BY <1>2, <1>3

\* While an incoming call lasts its session is live and holds the number of the
\* call; it never is the session of the operation, and no session is left that
\* belongs to a call which has not begun.
THEOREM IncomingInvariant == MediaSteady => (StationSpec => []IncomingInv)
<1> SUFFICES ASSUME MediaSteady PROVE StationSpec => []IncomingInv
  OBVIOUS
<1>1. IncomingInv /\ [StationNext]_stationVars => IncomingInv'
  BY IncomingNextInv
<1> QED BY <1>1, IncomingInitInv, PTL DEF StationSpec

\* While an incoming call lasts, its session is changed by its viewers alone,
\* whatever the operation of the same or of another station leaves behind, as
\* long as no session fails by itself.
THEOREM IncomingMediaStays == MediaSteady => (StationSpec => IncomingMediaKept)
<1> SUFFICES ASSUME MediaSteady PROVE StationSpec => IncomingMediaKept
  OBVIOUS
<1> DEFINE Lasting(p) ==
             /\ media[p].purpose = "call" /\ ~media[p].handoff
             /\ Active(session) /\ media[p].call = session.generation
             /\ Active(session') /\ session'.generation = session.generation
           Same(p) == media'[p] = [media[p] EXCEPT !.viewer = media'[p].viewer]
<1>1. IncomingInv /\ [StationNext]_stationVars
        => [\A p \in Registered : Lasting(p) => Same(p)]_stationVars
  <2> SUFFICES ASSUME IncomingInv, StationNext, NEW p \in Registered, Lasting(p)
               PROVE  Same(p)
    OBVIOUS
  <2>1. Persists
    BY StationNextUnmoved
  <2>2. Loose(media[p])
    BY MediaClear DEF Real, Loose
  <2>3. Ringing(World, p)
    BY <2>2, WorldIs DEF Ringing
  <2> QED BY <2>1, <2>3 DEF Persists
<1>2. StationSpec => []IncomingInv
  BY IncomingInvariant
<1> QED BY <1>1, <1>2, PTL DEF StationSpec, IncomingMediaKept
=============================================================================
