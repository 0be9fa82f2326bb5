---------------------------- MODULE UnlockProofs ----------------------------
(***************************************************************************)
(* Proofs about the unlock of doors, for any stations, counts and media       *)
(* limits.  A handler is an operator on the record of the daemon's state, so   *)
(* the lemmas say of each what it leaves alone, and from that which            *)
(* invariants it keeps: first whose request is out, then which preparations   *)
(* still have the operation that stops them, where L is the set of those that  *)
(* had been lost before.                                                    *)
(***************************************************************************)
EXTENDS Unlock, TLAPS

Worlds ==
  [op : Operations, auto : Autos, access : AccessControls, session : AccessSessions,
   media : [Stations -> Entries], last : Sessions, late : BOOLEAN]

\* Whose request is out.
Request(x) ==
  /\ x.op.stage = "waiting" => x.access.gen = x.op.access /\ x.access.to = x.op.station
  /\ x.op.stage = "preparing" => ~x.op.automatic /\ ~Waiting(x.access)
  /\ x.auto.inflight => x.op.automatic /\ x.access.gen = x.auto.access

\* What makes it inductive: the station and the call of the automatic unlock are
\* those of its operation, and there is a session generation left for the request
\* of every operation that could begin.
Backed(x) ==
  /\ x.auto.inflight => x.op.station = x.auto.station
  /\ x.session.gen <= x.op.requests
  /\ x.op.stage = "preparing" => x.session.gen < x.op.requests
  /\ x.op.gen # 0 => x.op.station \in Stations
  /\ Due(x) => x.auto.station \in Stations

Sound(x) == x \in Worlds /\ Request(x) /\ Backed(x)

-----------------------------------------------------------------------------
(* Ending an operation *)

\* Only the operation ends, the preview and the automatic unlock change with it.
Settles(x, y) ==
  /\ y \in Worlds
  /\ y.access = x.access
  /\ y.session = x.session
  /\ y.last = x.last
  /\ y.op.access = x.op.access
  /\ y.op.requests = x.op.requests
  /\ y.op.automatic = x.op.automatic
  /\ y.op.station = x.op.station
  /\ y.op.gen = x.op.gen
  /\ y.op.stage = x.op.stage \/ y.op.stage \in Ends
  /\ y.auto.call = x.auto.call
  /\ y.auto.station = x.auto.station
  /\ y.auto.access = x.auto.access
  /\ y.auto.due = x.auto.due
  /\ y.auto.pending => x.auto.pending
  /\ y.auto.inflight => x.auto.inflight

LEMMA EndsAreEnds ==
  /\ Ends \subseteq Stages
  /\ "waiting" \notin Ends /\ "preparing" \notin Ends
  /\ "cancelled" \in Ends /\ "timeout" \in Ends /\ "send_failed" \in Ends
  /\ Answers \subseteq Ends
BY DEF Ends, Stages, Answers

LEMMA SettlesSound ==
  ASSUME NEW x, NEW y, Sound(x), Settles(x, y)
  PROVE  Sound(y)
BY EndsAreEnds DEF Sound, Settles, Request, Backed, Due, Waiting

LEMMA SettlesTrans ==
  ASSUME NEW x, NEW y, NEW z, Settles(x, y), Settles(y, z)
  PROVE  Settles(x, z)
BY DEF Settles

LEMMA SettlesSelf ==
  ASSUME NEW x \in Worlds
  PROVE  Settles(x, x)
BY DEF Settles

\* The sessions and the record of the preview stay as they are.
LeavesMedia(x, y) == y.media = x.media /\ y.op.mine = x.op.mine /\ y.op.light = x.op.light

LEMMA FinishedDoes ==
  ASSUME NEW x \in Worlds, NEW stage \in Ends
  PROVE  LET y == Finished(x, stage)
         IN /\ Settles(x, y) /\ LeavesMedia(x, y)
            /\ ~Active(y)
            /\ Active(x) => y.op.stage = stage
            /\ ~Active(x) => y = x
            /\ y.op.cleanup = x.op.cleanup /\ y.auto.pending = x.auto.pending
            /\ y.late = x.late
<1> DEFINE inflight == x.auto.inflight /\ ~(/\ x.op.automatic
                                            /\ stage = "cancelled"
                                            /\ x.auto.access = x.op.access)
           op1 == [x.op EXCEPT !.stage = stage]
           auto1 == [x.auto EXCEPT !.inflight = inflight]
           y == [x EXCEPT !.op = op1, !.auto = auto1]
<1>0. x.op \in Operations /\ x.auto \in Autos /\ stage \in Stages /\ inflight \in BOOLEAN
  BY EndsAreEnds DEF Worlds, Autos
<1>1. Finished(x, stage) = IF ~Active(x) THEN x ELSE y
  BY <1>0 DEF Finished, Worlds, Autos, Operations
<1>2. inflight => x.auto.inflight
  OBVIOUS
<1> HIDE DEF inflight
<1>3. /\ op1 \in Operations /\ op1.stage = stage /\ op1.access = x.op.access
      /\ op1.requests = x.op.requests /\ op1.automatic = x.op.automatic
      /\ op1.station = x.op.station /\ op1.gen = x.op.gen
      /\ op1.mine = x.op.mine /\ op1.light = x.op.light /\ op1.cleanup = x.op.cleanup
  BY <1>0 DEF Operations
<1>4. /\ auto1 \in Autos /\ auto1.call = x.auto.call /\ auto1.station = x.auto.station
      /\ auto1.access = x.auto.access /\ auto1.due = x.auto.due
      /\ auto1.pending = x.auto.pending /\ auto1.inflight = inflight
  BY <1>0 DEF Autos
<1> HIDE DEF op1, auto1
<1>5. /\ y \in Worlds /\ y.op = op1 /\ y.auto = auto1 /\ y.access = x.access
      /\ y.session = x.session /\ y.last = x.last /\ y.media = x.media /\ y.late = x.late
  BY <1>3, <1>4 DEF Worlds
<1> HIDE DEF y
<1>6. Settles(x, y) /\ LeavesMedia(x, y) /\ ~Active(y) /\ y.op.stage = stage
      /\ y.op.cleanup = x.op.cleanup /\ y.auto.pending = x.auto.pending
  BY <1>2, <1>3, <1>4, <1>5, EndsAreEnds DEF Settles, LeavesMedia, Active
<1> QED BY <1>1, <1>5, <1>6, SettlesSelf DEF LeavesMedia

LEMMA ObservedDoes ==
  ASSUME NEW x \in Worlds, NEW seen
  PROVE  LET y == Observed(x, seen)
         IN /\ Settles(x, y) /\ LeavesMedia(x, y)
            /\ y.op.cleanup = x.op.cleanup /\ y.auto.pending = x.auto.pending
            /\ y.op.stage = "waiting" => y = x
            /\ x.op.stage # "waiting" => y = x
            /\ y.late = x.late
<1>1. Reported(x) # "waiting" => Reported(x) \in Ends
  BY EndsAreEnds DEF Reported, Answers
<1>2. \/ Observed(x, seen) = x
      \/ Observed(x, seen) = Finished(x, "cancelled") /\ x.op.stage = "waiting"
      \/ /\ Observed(x, seen) = Finished(x, Reported(x)) /\ x.op.stage = "waiting"
         /\ Reported(x) # "waiting"
  BY DEF Observed
<1>3. ASSUME NEW stage \in Ends, x.op.stage = "waiting"
      PROVE  LET y == Finished(x, stage)
             IN /\ Settles(x, y) /\ LeavesMedia(x, y)
                /\ y.op.cleanup = x.op.cleanup /\ y.auto.pending = x.auto.pending
                /\ y.op.stage # "waiting"
                /\ y.late = x.late
  BY <1>3, FinishedDoes DEF Active
<1>4. Observed(x, seen) = x => LeavesMedia(x, x)
  BY DEF LeavesMedia
<1> QED BY <1>1, <1>2, <1>3, <1>4, SettlesSelf, EndsAreEnds

-----------------------------------------------------------------------------
(* The sessions *)

\* A preparation that has to be stopped by somebody.
Fresh(m) == m.gen # 0 /\ m.prep /\ m.state # "stopping"

\* The record of the operation names the preparation of p.
Claims(x, p) ==
  /\ x.op.mine = [station |-> p, gen |-> x.media[p].gen]
  /\ x.op.station = p /\ x.op.gen = x.media[p].gen /\ ~x.op.automatic

\* It names every preparation but those in L, which were lost before.
Claimed(L, x) ==
  \A p \in Stations : Fresh(x.media[p])
    => Claims(x, p) \/ [station |-> p, gen |-> x.media[p].gen] \in L

\* What is watched or called is no preparation any more.
OnlyPrepared(x) == \A p \in Stations : Adopted(x.media[p]) => ~x.media[p].prep

Tidy(L, x) == Claimed(L, x) /\ OnlyPrepared(x)

\* An operation that has ended has no preparation that nobody tries to stop.
Held(x) ==
  \A p \in Stations : Fresh(x.media[p]) /\ Claims(x, p) => Active(x) \/ x.op.cleanup

\* Those that are lost by now.
Orphans(x) ==
  {[station |-> p, gen |-> x.media[p].gen] :
     p \in {q \in Stations : Fresh(x.media[q]) /\ ~Claims(x, q)}}

LEMMA NoEntryIsFree ==
  NoEntry \in Entries /\ NoEntry.gen = 0 /\ ~Fresh(NoEntry) /\ ~Adopted(NoEntry)
BY UnlockAssumption DEF NoEntry, Entries, Fresh, Adopted, Sessions

LEMMA LeavesMediaTidy ==
  ASSUME NEW L, NEW x, NEW y, LeavesMedia(x, y), Tidy(L, x),
         y.op.station = x.op.station, y.op.gen = x.op.gen, y.op.automatic = x.op.automatic
  PROVE  Tidy(L, y)
BY DEF LeavesMedia, Tidy, Claimed, Claims, OnlyPrepared

LEMMA NamesNone ==
  ASSUME NEW q \in Stations, NEW gen
  PROVE  [station |-> q, gen |-> gen] # NoPreview
<1>1. [station |-> q, gen |-> gen].station # NoPreview.station
  BY AccessAssumption DEF NoPreview
<1> QED BY <1>1

LEMMA StoppedEntryIs ==
  ASSUME NEW m \in Entries, NEW stops
  PROVE  LET n == StoppedEntry(m, stops)
         IN /\ n \in Entries
            /\ n.gen \in {0, m.gen}
            /\ Fresh(n) => n = m /\ ~stops
            /\ (Adopted(m) => ~m.prep) => (Adopted(n) => ~n.prep)
<1> DEFINE n == [m EXCEPT !.state = "stopping", !.viewer = FALSE]
<1>1. n \in Entries /\ n.gen = m.gen /\ ~Fresh(n) /\ n.purpose = m.purpose /\ n.prep = m.prep
      /\ n.viewer = FALSE
  BY DEF Entries, Fresh
<1> HIDE DEF n
<1>2. StoppedEntry(m, stops) = IF m.state \notin {"stopping", "failed"} THEN n
                               ELSE IF stops THEN NoEntry ELSE m
  BY DEF StoppedEntry, n
<1> QED BY <1>1, <1>2, NoEntryIsFree DEF Adopted

LEMMA NoLongerMineDoes ==
  ASSUME NEW x \in Worlds
  PROVE  LET y == NoLongerMine(x)
         IN /\ Settles(x, y) /\ y.media = x.media /\ y.op.stage = x.op.stage
            /\ y.op.mine = NoPreview /\ y.op.cleanup = FALSE
            /\ y.auto = x.auto /\ y.late = x.late
<1>1. NoPreview \in Previews
  BY UnlockAssumption DEF NoPreview, Previews, Anywhere, Sessions
<1> DEFINE op1 == [x.op EXCEPT !.mine = NoPreview, !.cleanup = FALSE]
<1>2. /\ op1 \in Operations /\ op1.stage = x.op.stage /\ op1.access = x.op.access
      /\ op1.requests = x.op.requests /\ op1.automatic = x.op.automatic
      /\ op1.station = x.op.station /\ op1.gen = x.op.gen
      /\ op1.mine = NoPreview /\ op1.cleanup = FALSE
  BY <1>1 DEF Worlds, Operations
<1>3. NoLongerMine(x) = [x EXCEPT !.op = op1]
  BY DEF NoLongerMine, Worlds, Operations
<1> HIDE DEF op1
<1> QED BY <1>2, <1>3 DEF Worlds, Settles

LEMMA MarkedDoes ==
  ASSUME NEW x \in Worlds, NEW cleanup \in BOOLEAN
  PROVE  LET y == [x EXCEPT !.op.cleanup = cleanup]
         IN /\ Settles(x, y) /\ LeavesMedia(x, y) /\ y.op.stage = x.op.stage
            /\ y.op.cleanup = cleanup /\ y.auto = x.auto /\ y.late = x.late
<1> DEFINE op1 == [x.op EXCEPT !.cleanup = cleanup]
<1>2. /\ op1 \in Operations /\ op1.stage = x.op.stage /\ op1.access = x.op.access
      /\ op1.requests = x.op.requests /\ op1.automatic = x.op.automatic
      /\ op1.station = x.op.station /\ op1.gen = x.op.gen /\ op1.light = x.op.light
      /\ op1.mine = x.op.mine /\ op1.cleanup = cleanup
  BY DEF Worlds, Operations
<1>3. [x EXCEPT !.op.cleanup = cleanup] = [x EXCEPT !.op = op1]
  BY DEF Worlds, Operations
<1> HIDE DEF op1
<1> QED BY <1>2, <1>3 DEF Worlds, Settles, LeavesMedia

LEMMA StopSessionDoes ==
  ASSUME NEW x \in Worlds, NEW p \in Stations, NEW m \in Entries
  PROVE  LET y == [x EXCEPT !.media[p] = m]
         IN /\ y \in Worlds /\ Settles(x, y) /\ y.op = x.op /\ y.auto = x.auto
            /\ y.late = x.late /\ y.media = [x.media EXCEPT ![p] = m]
            /\ y.media[p] = m /\ \A q \in Stations \ {p} : y.media[q] = x.media[q]
<1> DEFINE n == [x.media EXCEPT ![p] = m]
<1>1. /\ n \in [Stations -> Entries] /\ n[p] = m
      /\ \A q \in Stations \ {p} : n[q] = x.media[q]
  BY DEF Worlds
<1>2. [x EXCEPT !.media[p] = m] = [x EXCEPT !.media = n]
  BY DEF Worlds
<1> HIDE DEF n
<1> QED BY <1>1, <1>2 DEF Worlds, Settles

\* What the cleanup does: it keeps its record for the next turn, gives it up, or
\* gives it up with the session stopped.
LEMMA CleanupIs ==
  ASSUME NEW x \in Worlds, Backed(x), NEW e
  PROVE  LET y == Cleanup(x, e)
             m == StoppedEntry(Entry(x), e.stops)
             z == [x EXCEPT !.media[x.op.station] = m]
         IN \/ (~Owns(x) \/ x.op.automatic) /\ y = [x EXCEPT !.op.cleanup = FALSE]
            \/ (~There(x) \/ Adopted(Entry(x))) /\ y = NoLongerMine(x)
            \/ y = [x EXCEPT !.op.cleanup = TRUE]
            \/ There(x) /\ e.stops /\ y = NoLongerMine(z)
            \/ There(x) /\ y = [z EXCEPT !.op.cleanup = TRUE]
<1>1. [x EXCEPT !.media[x.op.station] = StoppedEntry(Entry(x), e.stops)]
        = [x EXCEPT !.media[x.op.station] = StoppedEntry(@, e.stops)]
  BY DEF Entry
<1>2. Stoppable(x) => There(x)
  BY DEF Stoppable
<1> QED BY <1>1, <1>2 DEF Cleanup

LEMMA CleanupDoes ==
  ASSUME NEW L, NEW x \in Worlds, Backed(x), NEW e
  PROVE  LET y == Cleanup(x, e)
         IN /\ Settles(x, y) /\ y.op.stage = x.op.stage
            /\ y.auto = x.auto /\ y.late = x.late
            /\ Tidy(L, x) => Tidy(L, y) /\ Held(y)
<1> DEFINE y == Cleanup(x, e)
           p == x.op.station
           m == StoppedEntry(Entry(x), e.stops)
           z == [x EXCEPT !.media[p] = m]
           Goal == /\ Settles(x, y) /\ y.op.stage = x.op.stage
                   /\ y.auto = x.auto /\ y.late = x.late
                   /\ Tidy(L, x) => Tidy(L, y) /\ Held(y)
<1>0. \/ (~Owns(x) \/ x.op.automatic) /\ y = [x EXCEPT !.op.cleanup = FALSE]
      \/ (~There(x) \/ Adopted(Entry(x))) /\ y = NoLongerMine(x)
      \/ y = [x EXCEPT !.op.cleanup = TRUE]
      \/ There(x) /\ e.stops /\ y = NoLongerMine(z)
      \/ There(x) /\ y = [z EXCEPT !.op.cleanup = TRUE]
  BY CleanupIs
<1> SUFFICES Goal
  OBVIOUS
<1> HIDE DEF y
<1>1. CASE (~Owns(x) \/ x.op.automatic) /\ y = [x EXCEPT !.op.cleanup = FALSE]
  <2>1. /\ Settles(x, y) /\ LeavesMedia(x, y) /\ y.op.stage = x.op.stage
        /\ y.auto = x.auto /\ y.late = x.late
    BY <1>1, MarkedDoes
  <2>2. Tidy(L, x) => Tidy(L, y)
    BY <2>1, LeavesMediaTidy DEF Settles
  <2>3. \A q \in Stations : ~Claims(y, q)
    BY <1>1, <2>1, NamesNone DEF Claims, Owns, LeavesMedia, Settles
  <2> QED BY <2>1, <2>2, <2>3 DEF Held
<1>2. CASE (~There(x) \/ Adopted(Entry(x))) /\ y = NoLongerMine(x)
  <2>1. /\ Settles(x, y) /\ y.media = x.media /\ y.op.stage = x.op.stage
        /\ y.auto = x.auto /\ y.late = x.late
    BY <1>2, NoLongerMineDoes
  <2>2. Tidy(L, x) => \A q \in Stations : ~(Fresh(x.media[q]) /\ Claims(x, q))
    BY <1>2 DEF Tidy, Claims, OnlyPrepared, There, Entry, Fresh
  <2>3. \A q \in Stations : ~Claims(y, q)
    BY <1>2, NoLongerMineDoes, NamesNone DEF Claims
  <2> QED BY <2>1, <2>2, <2>3 DEF Held, Tidy, Claimed, OnlyPrepared
<1>3. CASE y = [x EXCEPT !.op.cleanup = TRUE]
  <2>1. /\ Settles(x, y) /\ LeavesMedia(x, y) /\ y.op.stage = x.op.stage
        /\ y.auto = x.auto /\ y.late = x.late /\ y.op.cleanup = TRUE
    BY <1>3, MarkedDoes
  <2>2. Tidy(L, x) => Tidy(L, y)
    BY <2>1, LeavesMediaTidy DEF Settles
  <2> QED BY <2>1, <2>2 DEF Held
<1>4. CASE There(x) /\ \/ e.stops /\ y = NoLongerMine(z)
                       \/ y = [z EXCEPT !.op.cleanup = TRUE]
  <2>1. p \in Stations /\ Entry(x) \in Entries /\ Entry(x) = x.media[p]
    BY <1>4 DEF Backed, There, Entry, Worlds
  <2>2. /\ m \in Entries /\ m.gen \in {0, x.media[p].gen}
        /\ Fresh(m) => m = x.media[p] /\ ~e.stops
        /\ (Adopted(x.media[p]) => ~x.media[p].prep) => (Adopted(m) => ~m.prep)
    BY <2>1, StoppedEntryIs
  <2> HIDE DEF m, p
  <2>3. /\ z \in Worlds /\ Settles(x, z) /\ z.op = x.op /\ z.auto = x.auto
        /\ z.late = x.late /\ z.media[p] = m
        /\ \A q \in Stations \ {p} : z.media[q] = x.media[q]
    BY <2>1, <2>2, StopSessionDoes
  <2> HIDE DEF z
  <2>4. Tidy(L, x) => Tidy(L, z)
    <3> SUFFICES ASSUME Tidy(L, x) PROVE Tidy(L, z)
      OBVIOUS
    <3>1. Claimed(L, z)
      <4> SUFFICES ASSUME NEW q \in Stations, Fresh(z.media[q])
                   PROVE  Claims(z, q) \/ [station |-> q, gen |-> z.media[q].gen] \in L
        BY DEF Claimed
      <4>1. z.media[q] = x.media[q]
        BY <2>2, <2>3
      <4> QED BY <2>3, <4>1 DEF Tidy, Claimed, Claims
    <3>2. OnlyPrepared(z)
      BY <2>1, <2>2, <2>3 DEF Tidy, OnlyPrepared
    <3> QED BY <3>1, <3>2 DEF Tidy
  <2>5. \A q \in Stations : Claims(z, q) => q = p
    BY <2>3 DEF Claims, p
  <2>6. CASE e.stops /\ y = NoLongerMine(z)
    <3>1. /\ Settles(z, y) /\ y.media = z.media /\ y.op.stage = z.op.stage
          /\ y.auto = z.auto /\ y.late = z.late /\ y.op.mine = NoPreview
      BY <2>3, <2>6, NoLongerMineDoes
    <3>2. \A q \in Stations : ~Claims(y, q)
      BY <3>1, NamesNone DEF Claims
    <3>3. \A q \in Stations : ~(Fresh(z.media[q]) /\ Claims(z, q))
      BY <2>2, <2>3, <2>5, <2>6
    <3>4. Tidy(L, x) => Tidy(L, y) /\ Held(y)
      BY <2>4, <3>1, <3>2, <3>3 DEF Held, Tidy, Claimed, OnlyPrepared
    <3> QED BY <2>3, <3>1, <3>4, SettlesTrans
  <2>7. CASE y = [z EXCEPT !.op.cleanup = TRUE]
    <3>1. /\ Settles(z, y) /\ LeavesMedia(z, y) /\ y.op.stage = z.op.stage
          /\ y.auto = z.auto /\ y.late = z.late /\ y.op.cleanup = TRUE
      BY <2>3, <2>7, MarkedDoes
    <3>2. Tidy(L, x) => Tidy(L, y)
      BY <2>4, <3>1, LeavesMediaTidy DEF Settles
    <3> QED BY <2>3, <3>1, <3>2, SettlesTrans DEF Held
  <2> QED BY <1>4, <2>6, <2>7
<1> QED BY <1>0, <1>1, <1>2, <1>3, <1>4

LEMMA EndedDoes ==
  ASSUME NEW L, NEW x \in Worlds, Backed(x), NEW stage \in Ends, NEW e
  PROVE  LET y == Ended(x, stage, e)
         IN /\ Settles(x, y)
            /\ y.auto.pending = x.auto.pending
            /\ Tidy(L, x) => Tidy(L, y) /\ Held(y)
<1> DEFINE f == Finished(x, stage)
           y == Cleanup(f, e)
<1>1. Settles(x, f) /\ LeavesMedia(x, f) /\ f.auto.pending = x.auto.pending
  BY FinishedDoes
<1> HIDE DEF f
<1>2. Tidy(L, x) => Tidy(L, f)
  BY <1>1, LeavesMediaTidy DEF Settles
<1>3. f \in Worlds /\ Backed(f)
  BY <1>1, EndsAreEnds DEF Settles, Backed, Due
<1>4. /\ Settles(f, y) /\ y.auto = f.auto
      /\ Tidy(L, f) => Tidy(L, y) /\ Held(y)
  BY <1>3, CleanupDoes
<1> HIDE DEF y
<1>5. Settles(x, y)
  BY <1>1, <1>4, SettlesTrans
<1>6. Ended(x, stage, e) = y
  BY DEF Ended, y, f
<1> QED BY <1>1, <1>2, <1>4, <1>5, <1>6

-----------------------------------------------------------------------------
(* The request *)

\* The request of an operation that prepares is out, or the operation has ended.
\* There is a generation for it: Backed counts them.
LEMMA SendDoes ==
  ASSUME NEW x \in Worlds, Backed(x), NEW e,
         x.op.stage = "preparing", ~x.auto.inflight, ~Waiting(x.access)
  PROVE  LET d == Send(x, e)
         IN /\ Sound(d.x) /\ LeavesMedia(x, d.x) /\ d.x.op.requests = x.op.requests
            /\ d.x.op.station = x.op.station /\ d.x.op.gen = x.op.gen
            /\ d.x.op.automatic = x.op.automatic
            /\ d.x.auto.station = x.auto.station /\ ~d.x.auto.inflight
            /\ d.ok => /\ d.x.op.stage = "waiting"
                       /\ d.x.access.gen = d.x.op.access
<1> DEFINE s == NextAccess(x)
           a == Submitted(x.access, s, e.sends)
           op1 == [x.op EXCEPT !.access = s.gen]
           y == [x EXCEPT !.session = s, !.op = op1, !.access = a]
           op2 == [op1 EXCEPT !.stage = "waiting"]
           w == [y EXCEPT !.op = op2, !.late = FALSE]
           f == Finished(x, "send_failed")
           g == Finished(y, "send_failed")
<1>0. /\ x.op \in Operations /\ x.auto \in Autos /\ x.session \in AccessSessions
      /\ x.access \in AccessControls
      /\ x.session.gen \in Nat /\ x.op.requests \in Nat /\ x.op.requests <= MaxRequests
      /\ x.session.gen < x.op.requests
  BY AccessAssumption DEF Worlds, Operations, AccessSessions, AccessGenerations, Backed
<1>1. x.session.gen # MaxRequests /\ s.gen \in AccessGenerations
  BY <1>0, AccessAssumption DEF AccessGenerations, NextAccess
<1>2. s \in AccessSessions /\ s.gen = x.session.gen + 1 /\ s.peer = x.op.station
  BY <1>0, <1>1 DEF AccessSessions, Operations, Anywhere, NextAccess
<1>3. /\ a \in AccessControls /\ a.gen = s.gen /\ a.to = x.op.station
      /\ a.state \in {"waiting", "send_failed"} /\ (~e.sends => a.state = "send_failed")
  BY <1>0, <1>1, <1>2 DEF Submitted, AccessControls, AccessStates, Operations, Anywhere
<1> HIDE DEF s
<1>4. Asked(x, s, e.sends) = y /\ RequestOut(y) = w
  BY <1>0 DEF Worlds, Operations, Asked, RequestOut
<1> HIDE DEF y, w, f
<1>5. Send(x, e) \in {Outcome(FALSE, f), Outcome(TRUE, w), Outcome(FALSE, g)}
  BY <1>1, <1>4 DEF Send, s, f
<1> USE DEF y, w, f
<1> HIDE DEF a
<1>6. /\ op1 \in Operations /\ op1.stage = "preparing" /\ op1.access = s.gen
      /\ op1.requests = x.op.requests /\ op1.station = x.op.station /\ op1.gen = x.op.gen
      /\ op1.automatic = x.op.automatic /\ op1.mine = x.op.mine /\ op1.light = x.op.light
  BY <1>0, <1>1 DEF Operations
<1> HIDE DEF op1
<1>7. /\ op2 \in Operations /\ op2.stage = "waiting" /\ op2.access = s.gen
      /\ op2.requests = x.op.requests /\ op2.station = x.op.station /\ op2.gen = x.op.gen
      /\ op2.automatic = x.op.automatic /\ op2.mine = x.op.mine /\ op2.light = x.op.light
  BY <1>6, EndsAreEnds DEF Operations, Stages
<1> HIDE DEF op2
<1>8. /\ y \in Worlds /\ y.op = op1 /\ y.session = s /\ y.access = a /\ y.auto = x.auto
      /\ y.media = x.media
  BY <1>2, <1>3, <1>6 DEF Worlds
<1> HIDE DEF y
<1>9. /\ w \in Worlds /\ w.op = op2 /\ w.session = s /\ w.access = a /\ w.auto = x.auto
      /\ w.media = x.media
  BY <1>7, <1>8 DEF Worlds
<1> HIDE DEF w
<1>10. /\ Sound(w) /\ LeavesMedia(x, w) /\ w.op.stage = "waiting" /\ w.access.gen = w.op.access
       /\ w.op.station = x.op.station /\ w.op.gen = x.op.gen /\ ~w.auto.inflight
       /\ w.op.automatic = x.op.automatic /\ w.auto.station = x.auto.station
       /\ w.op.requests = x.op.requests
  BY <1>0, <1>2, <1>3, <1>7, <1>9 DEF Sound, Request, Backed, LeavesMedia, Due
<1>11. /\ Settles(x, f) /\ LeavesMedia(x, f) /\ ~Active(f)
       /\ Settles(y, g) /\ LeavesMedia(y, g) /\ ~Active(g)
  BY <1>8, FinishedDoes, EndsAreEnds
<1> HIDE DEF f, g
<1>12. /\ Sound(f) /\ LeavesMedia(x, f)
       /\ f.op.station = x.op.station /\ f.op.gen = x.op.gen /\ ~f.auto.inflight
       /\ f.op.automatic = x.op.automatic /\ f.auto.station = x.auto.station
       /\ f.op.requests = x.op.requests
  BY <1>11 DEF Settles, Sound, Request, Backed, LeavesMedia, Due, Active
<1>13. /\ Sound(g) /\ LeavesMedia(x, g)
       /\ g.op.station = x.op.station /\ g.op.gen = x.op.gen /\ ~g.auto.inflight
       /\ g.op.automatic = x.op.automatic /\ g.auto.station = x.auto.station
       /\ g.op.requests = x.op.requests
  BY <1>0, <1>2, <1>6, <1>8, <1>11
  DEF Settles, Sound, Request, Backed, LeavesMedia, Due, Active
<1> QED BY <1>5, <1>10, <1>12, <1>13 DEF Outcome

-----------------------------------------------------------------------------
(* The manual unlock *)

\* What a handler of an operation that nobody began automatically keeps.
Fine(L, x, y) == Sound(y) /\ (Tidy(L, x) => Tidy(L, y) /\ Held(y))

LEMMA SentDoes ==
  ASSUME NEW L, NEW x, Sound(x), x.op.stage = "preparing", NEW e
  PROVE  Fine(L, x, Sent(x, e))
<1> DEFINE d == Send(x, e)
           c == Cleanup(d.x, e)
<1>1. x \in Worlds /\ Backed(x) /\ ~x.auto.inflight /\ ~Waiting(x.access)
  BY DEF Sound, Request
<1>2. /\ Sound(d.x) /\ LeavesMedia(x, d.x)
      /\ d.x.op.station = x.op.station /\ d.x.op.gen = x.op.gen
      /\ d.x.op.automatic = x.op.automatic
      /\ d.ok => d.x.op.stage = "waiting"
  BY <1>1, SendDoes
<1> HIDE DEF d
<1>3. Tidy(L, x) => Tidy(L, d.x)
  BY <1>2, LeavesMediaTidy
<1>4. d.ok => Held(d.x)
  BY <1>2 DEF Held, Active
<1>5. Settles(d.x, c) /\ (Tidy(L, d.x) => Tidy(L, c) /\ Held(c))
  BY <1>2, CleanupDoes DEF Sound
<1> HIDE DEF c
<1>6. Sound(c)
  BY <1>2, <1>5, SettlesSound
<1>7. Sent(x, e) = IF d.ok THEN d.x ELSE c
  BY DEF Sent, c, d
<1> QED BY <1>2, <1>3, <1>4, <1>5, <1>6, <1>7 DEF Fine

LEMMA EndedFine ==
  ASSUME NEW L, NEW x, Sound(x), NEW stage \in Ends, NEW e
  PROVE  Fine(L, x, Ended(x, stage, e))
BY EndedDoes, SettlesSound DEF Fine, Sound

LEMMA PreparedDoes ==
  ASSUME NEW L, NEW x, Sound(x), x.op.stage = "preparing", NEW e
  PROVE  Fine(L, x, Prepared(x, e))
<1> DEFINE mine == IF Adopted(Entry(x)) THEN NoPreview ELSE x.op.mine
           op1 == [x.op EXCEPT !.mine = mine]
           y == [x EXCEPT !.op = op1]
<1>0. x \in Worlds /\ x.op \in Operations
  BY DEF Sound, Worlds
<1>1. mine \in Previews
  BY <1>0, UnlockAssumption DEF NoPreview, Previews, Anywhere, Sessions, Operations
<1>2. [x EXCEPT !.op.mine = IF Adopted(Entry(x)) THEN NoPreview ELSE @] = y
  BY <1>0 DEF Worlds, Operations
<1>3. There(x) /\ Tidy(L, x)
        => \/ mine = x.op.mine
           \/ \A p \in Stations : ~(Fresh(x.media[p]) /\ Claims(x, p))
  BY DEF Tidy, Claims, OnlyPrepared, Entry, There, Fresh
<1> HIDE DEF mine
<1>4. /\ op1 \in Operations /\ op1.stage = x.op.stage /\ op1.access = x.op.access
      /\ op1.requests = x.op.requests /\ op1.automatic = x.op.automatic
      /\ op1.station = x.op.station /\ op1.gen = x.op.gen /\ op1.mine = mine
  BY <1>0, <1>1 DEF Operations
<1> HIDE DEF op1
<1>5. /\ Settles(x, y) /\ y.op = op1 /\ y.media = x.media /\ y.op.stage = x.op.stage
  BY <1>0, <1>4 DEF Worlds, Settles
<1> HIDE DEF y
<1>6. Sound(y)
  BY <1>5, SettlesSound
<1>7. There(x) /\ Tidy(L, x) => Tidy(L, y)
  BY <1>3, <1>4, <1>5 DEF Tidy, Claimed, Claims, OnlyPrepared
<1>8. Held(x) /\ Held(y)
  BY <1>5 DEF Held, Active
<1>9. \/ Prepared(x, e) \in {Ended(x, "timeout", e), Ended(x, "cancelled", e), x}
      \/ There(x) /\ Prepared(x, e) \in {y, Sent(y, e)}
  BY <1>2 DEF Prepared
<1>10. Fine(L, x, x)
  BY <1>8 DEF Fine
<1>11. There(x) => Fine(L, x, y) /\ Fine(L, x, Sent(y, e))
  BY <1>5, <1>6, <1>7, <1>8, SentDoes DEF Fine
<1>12. Fine(L, x, Ended(x, "timeout", e)) /\ Fine(L, x, Ended(x, "cancelled", e))
  BY EndedFine, EndsAreEnds
<1> QED BY <1>9, <1>10, <1>11, <1>12

LEMMA TickManualDoes ==
  ASSUME NEW L, NEW x, Sound(x), NEW e
  PROVE  Fine(L, x, TickManual(x, e))
<1> DEFINE y == Observed(x, e.seen)
           c == Cleanup(y, e)
<1>1. Settles(x, y) /\ LeavesMedia(x, y)
  BY ObservedDoes DEF Sound
<1> HIDE DEF y
<1>2. Sound(y) /\ (Tidy(L, x) => Tidy(L, y))
  BY <1>1, SettlesSound, LeavesMediaTidy DEF Settles
<1>3. Settles(y, c) /\ (Tidy(L, y) => Tidy(L, c) /\ Held(c))
  BY <1>2, CleanupDoes DEF Sound
<1> HIDE DEF c
<1>4. Fine(L, x, c)
  BY <1>2, <1>3, SettlesSound DEF Fine
<1>5. y.op.automatic \/ y.op.stage = "waiting" => Fine(L, x, y)
  BY <1>2 DEF Fine, Held, Claims, Active
<1>6. Fine(L, x, Ended(y, "cancelled", e))
  BY <1>2, EndedFine, EndsAreEnds DEF Fine
<1>7. y.op.stage = "preparing" => Fine(L, x, Prepared(y, e))
  BY <1>2, PreparedDoes DEF Fine
<1>8. \/ TickManual(x, e) = y /\ (y.op.automatic \/ y.op.stage = "waiting")
      \/ TickManual(x, e) \in {c, Ended(y, "cancelled", e)}
      \/ TickManual(x, e) = Prepared(y, e) /\ y.op.stage = "preparing"
  BY DEF TickManual, y, c, Active
<1> QED BY <1>4, <1>5, <1>6, <1>7, <1>8

-----------------------------------------------------------------------------
(* The automatic unlock *)

\* An automatic unlock begins over the record of a manual one that has its answer.
Taking(x, y) ==
  /\ x.op.stage = "waiting" /\ ~Waiting(x.access)
  /\ y.op.automatic /\ y.op.requests # x.op.requests
  /\ y.media = x.media

\* What a step keeps that may leave a preparation to a later one of its turn.
Calm(L, x, y) == Sound(y) /\ (Tidy(L, x) => Tidy(L, y))

LEMMA SettlesCalm ==
  ASSUME NEW L, NEW x, NEW y, Sound(x), Settles(x, y), LeavesMedia(x, y)
  PROVE  Calm(L, x, y)
<1>1. y.op.station = x.op.station /\ y.op.gen = x.op.gen /\ y.op.automatic = x.op.automatic
  BY DEF Settles
<1> QED BY <1>1, SettlesSound, LeavesMediaTidy DEF Calm

LEMMA BegunDoes ==
  ASSUME NEW x \in Worlds, NEW p \in Anywhere, NEW automatic \in BOOLEAN,
         NEW gen \in Sessions, x.op.requests < MaxRequests
  PROVE  LET y == Begun(x, p, automatic, gen)
         IN /\ y \in Worlds /\ y.op.stage = "preparing" /\ y.op.station = p
            /\ y.op.gen = gen /\ y.op.requests = x.op.requests + 1
            /\ y.op.automatic = automatic /\ y.op.mine = x.op.mine
            /\ y.auto = x.auto /\ y.access = x.access /\ y.session = x.session
            /\ y.media = x.media /\ y.last = x.last
<1> DEFINE op1 == [stage |-> "preparing", station |-> p, gen |-> gen, access |-> 0,
                   requests |-> x.op.requests + 1, automatic |-> automatic,
                   light |-> FALSE, cleanup |-> FALSE, mine |-> x.op.mine]
<1>0. x.op \in Operations /\ x.op.requests \in Nat
  BY AccessAssumption DEF Worlds, Operations
<1>1. x.op.requests + 1 \in 0 .. MaxRequests /\ 0 \in AccessGenerations
  BY <1>0, AccessAssumption DEF AccessGenerations
<1>2. "preparing" \in Stages
  BY DEF Stages
<1>3. /\ op1 \in Operations /\ op1.stage = "preparing" /\ op1.station = p
      /\ op1.gen = gen /\ op1.requests = x.op.requests + 1
      /\ op1.automatic = automatic /\ op1.mine = x.op.mine
  BY <1>0, <1>1, <1>2 DEF Operations
<1>4. Begun(x, p, automatic, gen) = [x EXCEPT !.op = op1, !.late = FALSE]
  BY Zenon DEF Begun
<1> HIDE DEF op1
<1> QED BY <1>3, <1>4 DEF Worlds

\* The flags of the automatic unlock go.
LEMMA QuietedDoes ==
  ASSUME NEW x \in Worlds, NEW pending \in BOOLEAN, NEW inflight \in BOOLEAN,
         pending => x.auto.pending, inflight => x.auto.inflight
  PROVE  LET y == [x EXCEPT !.auto = [x.auto EXCEPT !.pending = pending,
                                                    !.inflight = inflight]]
         IN /\ Settles(x, y) /\ LeavesMedia(x, y) /\ y.op = x.op
            /\ y.auto.pending = pending /\ y.auto.inflight = inflight
<1> DEFINE a == [x.auto EXCEPT !.pending = pending, !.inflight = inflight]
<1>1. /\ a \in Autos /\ a.call = x.auto.call /\ a.station = x.auto.station
      /\ a.access = x.auto.access /\ a.due = x.auto.due
      /\ a.pending = pending /\ a.inflight = inflight
  BY DEF Worlds, Autos
<1> HIDE DEF a
<1>2. x.auto \in Autos
  BY DEF Worlds
<1>3. LET y == [x EXCEPT !.auto = a]
      IN /\ y \in Worlds /\ y.op = x.op /\ y.auto = a /\ y.access = x.access
         /\ y.session = x.session /\ y.media = x.media /\ y.last = x.last
  BY <1>1 DEF Worlds
<1> QED BY <1>1, <1>3 DEF Settles, LeavesMedia, a

LEMMA QuietedIs ==
  ASSUME NEW x \in Worlds, NEW inflight \in BOOLEAN
  PROVE  /\ [x EXCEPT !.auto.pending = FALSE]
              = [x EXCEPT !.auto = [x.auto EXCEPT !.pending = FALSE,
                                                  !.inflight = x.auto.inflight]]
         /\ [x EXCEPT !.auto.pending = FALSE, !.auto.inflight = FALSE]
              = [x EXCEPT !.auto = [x.auto EXCEPT !.pending = FALSE, !.inflight = FALSE]]
         /\ [x EXCEPT !.auto.inflight = inflight]
              = [x EXCEPT !.auto = [x.auto EXCEPT !.pending = x.auto.pending,
                                                  !.inflight = inflight]]
BY DEF Worlds, Autos

\* The new operation is automatic: no preparation is named any more.
Begins(x, y) ==
  /\ y.media = x.media /\ y.op.automatic /\ y.op.requests # x.op.requests
  /\ ~Active(x) /\ ~x.op.cleanup

LEMMA SentForCallDoes ==
  ASSUME NEW L, NEW x, Sound(x), x.auto.inflight = FALSE, x.auto.pending = TRUE,
         ~Waiting(x.access), CallIsWatched(x), NEW e
  PROVE  LET y == SentForCall(x, e)
         IN Calm(L, x, y) \/ (Sound(y) /\ Begins(x, y))
<1> DEFINE p == x.auto.station
           y == [x EXCEPT !.auto.pending = FALSE]
           b == Begun(y, p, TRUE, x.media[p].gen)
           d == Send(b, e)
           a == [d.x.auto EXCEPT !.inflight = TRUE, !.access = d.x.access.gen]
           w == [d.x EXCEPT !.auto.inflight = TRUE, !.auto.access = d.x.access.gen]
<1>0. x \in Worlds /\ x.auto \in Autos /\ x.access \in AccessControls
  BY DEF Sound, Worlds
<1>1. p \in Stations /\ p \in Anywhere
  BY <1>0 DEF Sound, Backed, Due, Anywhere
<1>2. x.media[p].gen \in Sessions
  BY <1>0, <1>1 DEF Worlds, Entries
<1>3. /\ Settles(x, y) /\ LeavesMedia(x, y) /\ y.op = x.op
      /\ y.auto.pending = FALSE /\ y.auto.inflight = FALSE
  <2>1. FALSE \in BOOLEAN /\ x.auto.inflight \in BOOLEAN
    BY <1>0 DEF Autos
  <2>2. y = [x EXCEPT !.auto = [x.auto EXCEPT !.pending = FALSE,
                                              !.inflight = x.auto.inflight]]
    BY <1>0, <2>1, QuietedIs
  <2> HIDE DEF y
  <2> QED BY <1>0, <2>1, <2>2, QuietedDoes
<1>4. SentForCall(x, e) = IF ~Beginnable(y, e) THEN y ELSE IF ~d.ok THEN d.x ELSE w
  BY DEF SentForCall
<1> HIDE DEF y
<1>5. Calm(L, x, y)
  BY <1>3, SettlesCalm
<1>6. ASSUME Beginnable(y, e)
      PROVE  Sound(d.x) /\ Begins(x, d.x) /\ (d.ok => Sound(w) /\ Begins(x, w))
  <2>1. y \in Worlds /\ y.auto.station = p /\ y.access = x.access /\ y.media = x.media
    BY <1>3 DEF Settles, LeavesMedia
  <2>2. y.op.requests < MaxRequests /\ y.session = x.session
    BY <1>3, <1>6 DEF Beginnable, Settles
  <2>12. ~Active(x) /\ ~x.op.cleanup /\ y.op.requests = x.op.requests
    BY <1>3, <1>6 DEF Beginnable, Active
  <2> HIDE DEF p
  <2>3. /\ b \in Worlds /\ b.op.stage = "preparing" /\ b.op.station = p
        /\ b.op.gen = x.media[p].gen /\ b.op.requests = y.op.requests + 1
        /\ b.op.automatic = TRUE
        /\ b.auto = y.auto /\ b.access = x.access /\ b.session = x.session
        /\ b.media = x.media
    <3> DEFINE g == x.media[p].gen
    <3>1. g \in Sessions /\ TRUE \in BOOLEAN
      BY <1>2
    <3>2. b = Begun(y, p, TRUE, g)
      OBVIOUS
    <3> HIDE DEF g, b
    <3>3. /\ b \in Worlds /\ b.op.stage = "preparing" /\ b.op.station = p
          /\ b.op.gen = g /\ b.op.requests = y.op.requests + 1
          /\ b.op.automatic = TRUE
          /\ b.auto = y.auto /\ b.access = y.access /\ b.session = y.session
          /\ b.media = y.media
      <4> DEFINE yes == TRUE
      <4>1. yes \in BOOLEAN /\ b = Begun(y, p, yes, g)
        BY <3>2
      <4> HIDE DEF yes
      <4>2. /\ b \in Worlds /\ b.op.stage = "preparing" /\ b.op.station = p
            /\ b.op.gen = g /\ b.op.requests = y.op.requests + 1
            /\ b.op.automatic = yes
            /\ b.auto = y.auto /\ b.access = y.access /\ b.session = y.session
            /\ b.media = y.media
        BY <1>1, <2>1, <2>2, <3>1, <4>1, BegunDoes
      <4> QED BY <4>2 DEF yes
    <3> QED BY <2>1, <2>2, <3>3 DEF g
  <2> HIDE DEF b
  <2>4. Backed(b) /\ b.auto.inflight = FALSE /\ ~Waiting(b.access)
    <3>1. x.session.gen \in Nat /\ x.op.requests \in Nat /\ x.session.gen <= x.op.requests
      BY <1>0, AccessAssumption
      DEF Sound, Backed, Worlds, AccessSessions, AccessGenerations, Operations
    <3> QED BY <1>1, <1>3, <2>3, <3>1 DEF Backed, Due
  <2>5. /\ Sound(d.x) /\ LeavesMedia(b, d.x) /\ d.x.op.station = p
        /\ d.x.op.automatic = TRUE /\ d.x.auto.station = p
        /\ d.x.op.requests = y.op.requests + 1
    BY <2>1, <2>3, <2>4, SendDoes
  <2>6. d.ok => d.x.access.gen = d.x.op.access
    BY <2>3, <2>4, SendDoes
  <2> HIDE DEF d
  <2>7. /\ a \in Autos /\ a.inflight = TRUE /\ a.access = d.x.access.gen
        /\ a.station = p
    BY <2>5 DEF Sound, Worlds, Autos, AccessControls
  <2>8. w = [d.x EXCEPT !.auto = a]
    BY <2>5 DEF Sound, Worlds, Autos
  <2> HIDE DEF a
  <2>9. /\ w \in Worlds /\ w.auto = a /\ w.op = d.x.op /\ w.access = d.x.access
        /\ w.session = d.x.session /\ w.media = d.x.media
    BY <2>5, <2>7, <2>8 DEF Sound, Worlds
  <2> HIDE DEF w
  <2>10. Sound(w)
    BY <1>1, <2>5, <2>7, <2>9 DEF Sound, Request, Backed, Due
  <2>11. x.op.requests \in Nat
    BY <1>0, AccessAssumption DEF Worlds, Operations
  <2> QED BY <2>3, <2>5, <2>9, <2>10, <2>11, <2>12 DEF Begins, LeavesMedia
<1> HIDE DEF d, w
<1> QED BY <1>4, <1>5, <1>6

LEMMA TickAutoDoes ==
  ASSUME NEW L, NEW x, Sound(x), NEW c, NEW e
  PROVE  LET y == TickAuto(x, c, e)
         IN /\ Sound(y)
            /\ Tidy(L, x) /\ Held(x)
                 => OnlyPrepared(y) /\ (Tidy(L, y) \/ Taking(x, y))
<1> DEFINE y == Observed(x, e.seen)
           z == [y EXCEPT !.auto.pending = FALSE, !.auto.inflight = FALSE]
           kept == /\ y.access.gen = y.auto.access
                   /\ y.access.state \notin {"expired", "cancelled"}
           w == [y EXCEPT !.auto.inflight = kept]
<1>1. /\ Settles(x, y) /\ LeavesMedia(x, y) /\ y.op.cleanup = x.op.cleanup
      /\ x.op.stage # "waiting" => y = x
  BY ObservedDoes DEF Sound
<1>2. \/ TickAuto(x, c, e) \in {x, y, Ended(z, "cancelled", e), z}
      \/ TickAuto(x, c, e) = w /\ y.auto.inflight
      \/ /\ TickAuto(x, c, e) = SentForCall(y, e)
         /\ Due(y) /\ ~y.auto.inflight /\ CallIsWatched(y) /\ ~Waiting(y.access)
  BY DEF TickAuto
<1> HIDE DEF y
<1>3. Calm(L, x, x) /\ Calm(L, x, y)
  BY <1>1, SettlesCalm DEF Calm
<1>4. y \in Worlds /\ y.auto \in Autos /\ Sound(y)
  BY <1>3 DEF Calm, Sound, Worlds
<1>5. Calm(L, y, z)
  <2>1. FALSE \in BOOLEAN /\ z = [y EXCEPT !.auto = [y.auto EXCEPT !.pending = FALSE,
                                                                    !.inflight = FALSE]]
    BY <1>4, QuietedIs
  <2> HIDE DEF z
  <2>2. Settles(y, z) /\ LeavesMedia(y, z)
    BY <1>4, <2>1, QuietedDoes
  <2> QED BY <1>4, <2>2, SettlesCalm
<1>6. y.auto.inflight => Calm(L, y, w)
  <2>1. kept \in BOOLEAN /\ y.auto.pending \in BOOLEAN
    BY <1>4 DEF Autos
  <2> HIDE DEF kept
  <2>2. w = [y EXCEPT !.auto = [y.auto EXCEPT !.pending = y.auto.pending,
                                              !.inflight = kept]]
    BY <1>4, <2>1, QuietedIs
  <2> HIDE DEF w
  <2>3. y.auto.inflight => Settles(y, w) /\ LeavesMedia(y, w)
    BY <1>4, <2>1, <2>2, QuietedDoes
  <2> QED BY <1>4, <2>3, SettlesCalm
<1> HIDE DEF z, w
<1>7. Calm(L, z, Ended(z, "cancelled", e))
  BY <1>5, EndedFine, EndsAreEnds DEF Calm, Fine
<1>8. Due(y) /\ ~y.auto.inflight /\ CallIsWatched(y) /\ ~Waiting(y.access)
        => LET b == SentForCall(y, e)
           IN Calm(L, y, b) \/ (Sound(b) /\ Begins(y, b) /\ ~Waiting(y.access))
  BY <1>4, SentForCallDoes DEF Due, Autos
<1>9. ASSUME NEW b, Sound(b), Begins(y, b), ~Waiting(y.access), Tidy(L, x), Held(x)
      PROVE  OnlyPrepared(b) /\ (Tidy(L, b) \/ Taking(x, b))
  <2>1. b.media = x.media /\ ~x.op.cleanup /\ b.op.automatic
        /\ b.op.requests # x.op.requests /\ ~Waiting(x.access)
    BY <1>1, <1>9 DEF Begins, LeavesMedia, Settles
  <2>2. OnlyPrepared(b)
    BY <1>9, <2>1 DEF Tidy, OnlyPrepared
  <2>3. CASE x.op.stage = "waiting"
    BY <2>1, <2>2, <2>3 DEF Taking
  <2>4. CASE x.op.stage # "waiting"
    <3>1. ~Active(x)
      BY <1>1, <1>9, <2>4 DEF Begins
    <3>2. Claimed(L, b)
      BY <1>9, <2>1, <3>1 DEF Held, Tidy, Claimed
    <3> QED BY <2>2, <3>2 DEF Tidy
  <2> QED BY <2>3, <2>4
<1>10. ASSUME NEW b, Calm(L, x, b)
       PROVE  Sound(b) /\ (Tidy(L, x) => OnlyPrepared(b) /\ Tidy(L, b))
  BY <1>10 DEF Calm, Tidy
<1> QED BY <1>2, <1>3, <1>5, <1>6, <1>7, <1>8, <1>9, <1>10 DEF Calm

\* The request expires, or its session is gone, in the turn of the loop.
LEMMA AccessTickedDoes ==
  ASSUME NEW x, Sound(x)
  PROVE  LET y == [x EXCEPT !.access = AccessTicked(x.access, x.session, x.late)]
         IN Sound(y) /\ y.op = x.op /\ y.media = x.media
<1> DEFINE a == AccessTicked(x.access, x.session, x.late)
           y == [x EXCEPT !.access = a]
<1>1. /\ a \in AccessControls /\ a.gen = x.access.gen /\ a.to = x.access.to
      /\ Waiting(a) => Waiting(x.access)
  BY DEF Sound, Worlds, AccessTicked, AccessControls, AccessStates, Waiting
<1> HIDE DEF a
<1>2. /\ y \in Worlds /\ y.op = x.op /\ y.auto = x.auto /\ y.access = a
      /\ y.session = x.session /\ y.media = x.media
  BY <1>1 DEF Sound, Worlds
<1> HIDE DEF y
<1>3. Sound(y)
  BY <1>1, <1>2 DEF Sound, Request, Backed, Due
<1> QED BY <1>2, <1>3 DEF y, a

LEMMA TickManualAutomatic ==
  ASSUME NEW x, Sound(x), x.op.automatic, NEW e
  PROVE  LET y == TickManual(x, e)
         IN y.op.automatic /\ y.op.requests = x.op.requests /\ y.media = x.media
<1> DEFINE y == Observed(x, e.seen)
<1>1. /\ y.op.automatic = x.op.automatic /\ y.op.requests = x.op.requests
      /\ y.media = x.media
  BY ObservedDoes DEF Sound, Settles, LeavesMedia
<1>2. y.op.automatic => TickManual(x, e) = y
  BY DEF TickManual
<1> QED BY <1>1, <1>2

\* What every step keeps, and the one way to lose a preparation.
Kept(L, x, y) ==
  /\ Sound(y)
  /\ Tidy(L, x) /\ Held(x)
       => OnlyPrepared(y) /\ Held(y) /\ (Claimed(L, y) \/ Taking(x, y))

LEMMA FineIsKept ==
  ASSUME NEW L, NEW x, NEW y, Fine(L, x, y)
  PROVE  Kept(L, x, y)
BY DEF Fine, Kept, Tidy

LEMMA OrphansAreLost ==
  ASSUME NEW x, OnlyPrepared(x)
  PROVE  Tidy(Orphans(x), x)
BY DEF Tidy, Claimed, Orphans

LEMMA TurnedDoes ==
  ASSUME NEW L, NEW x, Sound(x), NEW e
  PROVE  Kept(L, x, Turned(x, e))
<1> DEFINE y == TickAuto(x, call, e)
           z == [y EXCEPT !.access = AccessTicked(@, y.session, y.late)]
           t == TickManual(z, e)
<1>1. /\ Sound(y)
      /\ Tidy(L, x) /\ Held(x) => OnlyPrepared(y) /\ (Tidy(L, y) \/ Taking(x, y))
  BY TickAutoDoes
<1>2. Turned(x, e) = t
  BY DEF Turned
<1>3. z = [y EXCEPT !.access = AccessTicked(y.access, y.session, y.late)]
  OBVIOUS
<1> HIDE DEF y, z
<1>4. Sound(z) /\ z.op = y.op /\ z.media = y.media
  BY <1>1, <1>3, AccessTickedDoes
<1>5. Fine(L, z, t) /\ Fine(Orphans(z), z, t)
  BY <1>4, TickManualDoes
<1>6. z.op.automatic
        => t.op.automatic /\ t.op.requests = z.op.requests /\ t.media = z.media
  BY <1>4, TickManualAutomatic
<1> HIDE DEF t
<1>7. Tidy(L, y) => Tidy(L, z)
  BY <1>4 DEF Tidy, Claimed, Claims, OnlyPrepared
<1>8. OnlyPrepared(y) => OnlyPrepared(t) /\ Held(t)
  <2>1. OnlyPrepared(y) => OnlyPrepared(z)
    BY <1>4 DEF OnlyPrepared
  <2> QED BY <1>5, <2>1, OrphansAreLost DEF Fine, Tidy
<1>9. Taking(x, y) => Taking(x, t)
  BY <1>4, <1>6 DEF Taking
<1> QED BY <1>1, <1>2, <1>5, <1>7, <1>8, <1>9 DEF Kept, Fine, Tidy

\* An answer ends nothing but the operation that waits for it.
LEMMA HandleAutoDoes ==
  ASSUME NEW L, NEW x, Sound(x), NEW c, NEW e
  PROVE  LET d == HandleAuto(x, c, e)
         IN /\ Sound(d.x)
            /\ Tidy(L, x) /\ Held(x) => Tidy(L, d.x) /\ Held(d.x)
            /\ d.ok => /\ x.auto.inflight /\ x.op.automatic
                       /\ x.op.station = x.auto.station
                       /\ c.gen = x.auto.call /\ c.peer = x.auto.station
                       /\ c.state \in {"ringing", "talking"}
                       /\ d.x.op.stage \in Answers
<1> DEFINE y == Observed(x, e.seen)
           z == [y EXCEPT !.auto.inflight = FALSE]
           d == HandleAuto(x, c, e)
           Goal == /\ Sound(d.x)
                   /\ Tidy(L, x) /\ Held(x) => Tidy(L, d.x) /\ Held(d.x)
                   /\ d.ok => /\ x.auto.inflight /\ x.op.automatic
                              /\ x.op.station = x.auto.station
                              /\ c.gen = x.auto.call /\ c.peer = x.auto.station
                              /\ c.state \in {"ringing", "talking"}
                              /\ d.x.op.stage \in Answers
<1> SUFFICES Goal
  OBVIOUS
<1>1. Settles(x, y) /\ LeavesMedia(x, y)
  BY ObservedDoes DEF Sound
<1>2. \/ d = Outcome(FALSE, x)
      \/ d = Outcome(FALSE, y) /\ x.auto.inflight
      \/ /\ d = Outcome(SameCall(z, c), z) /\ x.auto.inflight
         /\ y.op.automatic => y.op.stage \in Answers
  BY DEF HandleAuto
<1> HIDE DEF y, d
<1>3. Calm(L, x, y) /\ y \in Worlds /\ y.auto \in Autos
  BY <1>1, SettlesCalm DEF Calm, Settles, Worlds
<1>4. Calm(L, y, z) /\ z.op = y.op /\ z.auto.call = y.auto.call
      /\ z.auto.station = y.auto.station
  <2>1. FALSE \in BOOLEAN /\ y.auto.pending \in BOOLEAN
    BY <1>3 DEF Autos
  <2>2. z = [y EXCEPT !.auto = [y.auto EXCEPT !.pending = y.auto.pending,
                                              !.inflight = FALSE]]
    BY <1>3, <2>1, QuietedIs
  <2> HIDE DEF z
  <2>3. Settles(y, z) /\ LeavesMedia(y, z) /\ z.op = y.op
    BY <1>3, <2>1, <2>2, QuietedDoes
  <2> QED BY <1>3, <2>3, SettlesCalm DEF Calm, Settles
<1> HIDE DEF z
<1>5. x.auto.inflight => x.op.automatic /\ x.op.station = x.auto.station
  BY DEF Sound, Request, Backed
<1>6. y.op.automatic = x.op.automatic /\ y.auto.call = x.auto.call
      /\ y.auto.station = x.auto.station
  BY <1>1 DEF Settles
<1>8. ASSUME NEW w, Calm(L, x, w), w.op.automatic, Tidy(L, x) PROVE Tidy(L, w) /\ Held(w)
  BY <1>8 DEF Calm, Claims, Held
<1>9. Calm(L, x, z)
  BY <1>3, <1>4 DEF Calm
<1>10. CASE d = Outcome(FALSE, x)
  BY <1>10 DEF Outcome
<1>11. CASE d = Outcome(FALSE, y) /\ x.auto.inflight
  BY <1>3, <1>5, <1>6, <1>8, <1>11 DEF Outcome, Calm
<1>12. CASE /\ d = Outcome(SameCall(z, c), z) /\ x.auto.inflight
            /\ y.op.automatic => y.op.stage \in Answers
  <2>1. Sound(d.x) /\ d.x = z /\ d.ok = SameCall(z, c)
    BY <1>9, <1>12 DEF Outcome, Calm
  <2>2. Tidy(L, x) => Tidy(L, z) /\ Held(z)
    BY <1>4, <1>5, <1>6, <1>8, <1>9, <1>12
  <2>3. z.op.stage \in Answers
    BY <1>4, <1>5, <1>6, <1>12
  <2>4. SameCall(z, c) => /\ c.gen = x.auto.call /\ c.peer = x.auto.station
                          /\ c.state \in {"ringing", "talking"}
    BY <1>4, <1>6 DEF SameCall
  <2> QED BY <1>5, <1>12, <2>1, <2>2, <2>3, <2>4
<1> QED BY <1>2, <1>10, <1>11, <1>12

-----------------------------------------------------------------------------
(* A client asks for a door *)

LEMMA RoomForMore ==
  ASSUME NEW x \in Worlds, Room(x)
  PROVE  x.last + 1 \in Sessions
BY UnlockAssumption DEF Room, Worlds, Sessions

\* An operation that has just begun takes its session.
WithSession(y, gen, mine) == [y EXCEPT !.op = [y.op EXCEPT !.gen = gen, !.mine = mine]]

LEMMA TakenIs ==
  ASSUME NEW y, NEW gen, NEW mine, NEW e
  PROVE  Taken(y, gen, mine, e) = TickManual(WithSession(y, gen, mine), e)
BY DEF Taken, WithSession

LEMMA WithSessionIs ==
  ASSUME NEW y, Sound(y), y.op.stage = "preparing", y.op.station \in Stations,
         NEW gen \in Sessions, NEW mine \in Previews
  PROVE  LET w == WithSession(y, gen, mine)
         IN /\ Sound(w) /\ w.media = y.media
            /\ w.op.mine = mine /\ w.op.gen = gen
            /\ w.op.station = y.op.station /\ w.op.automatic = y.op.automatic
<1> DEFINE op1 == [y.op EXCEPT !.gen = gen, !.mine = mine]
           w == [y EXCEPT !.op = op1]
<1>0. y \in Worlds /\ y.op \in Operations
  BY DEF Sound, Worlds
<1>1. /\ op1 \in Operations /\ op1.stage = y.op.stage /\ op1.gen = gen /\ op1.mine = mine
      /\ op1.station = y.op.station /\ op1.automatic = y.op.automatic
      /\ op1.requests = y.op.requests /\ op1.access = y.op.access
  BY <1>0 DEF Operations
<1>2. WithSession(y, gen, mine) = w
  BY DEF WithSession
<1> HIDE DEF op1
<1>3. /\ w \in Worlds /\ w.op = op1 /\ w.auto = y.auto /\ w.access = y.access
      /\ w.session = y.session /\ w.media = y.media
  BY <1>0, <1>1 DEF Worlds
<1> HIDE DEF w
<1>4. Sound(w)
  BY <1>1, <1>3 DEF Sound, Request, Backed, Due
<1> QED BY <1>1, <1>2, <1>3, <1>4

LEMMA UnlockStationDoes ==
  ASSUME NEW L, NEW x, Sound(x), NEW c, NEW p \in Stations, NEW starts \in BOOLEAN, NEW e,
         Unlockable(x, c, p, e)
  PROVE  Kept(L, x, UnlockStation(x, p, starts, e))
<1> DEFINE no == FALSE
           none == 0
           y == Begun(x, p, no, none)
           n == x.last + 1
           m == NewEntry(n, "preview", Lightweight)
           op1 == [y.op EXCEPT !.light = Lightweight]
           media1 == [y.media EXCEPT ![p] = m]
           z == [y EXCEPT !.media = media1, !.last = n, !.op = op1]
           v == [y EXCEPT !.op = op1]
           old == x.media[p].gen
           mine == [station |-> p, gen |-> n]
<1>0. /\ x \in Worlds /\ x.op \in Operations /\ p \in Anywhere /\ old \in Sessions
      /\ no \in BOOLEAN /\ none \in Sessions /\ x.op.requests < MaxRequests
      /\ ~Active(x) /\ ~x.op.cleanup /\ ~Due(x) /\ ~Waiting(x.access)
  BY UnlockAssumption
  DEF Sound, Worlds, Entries, Sessions, Anywhere, Unlockable, Beginnable, Due
<1>1. UnlockStation(x, p, starts, e) =
        IF old # 0 THEN Taken(y, old, NoPreview, e)
        ELSE IF starts /\ Room(x)
        THEN Taken([y EXCEPT !.media[p] = m, !.last = n, !.op.light = Lightweight], n, mine, e)
        ELSE Finished([y EXCEPT !.op.light = Lightweight], "cancelled")
  BY DEF UnlockStation
<1> HIDE DEF no, none, old
<1>2. /\ y \in Worlds /\ y.op.stage = "preparing" /\ y.op.station = p /\ y.op.gen = none
      /\ y.op.requests = x.op.requests + 1 /\ y.op.automatic = no
      /\ y.auto = x.auto /\ y.access = x.access /\ y.session = x.session
      /\ y.media = x.media /\ y.last = x.last
  BY <1>0, BegunDoes
<1> HIDE DEF y
<1>3. x.session.gen \in Nat /\ x.op.requests \in Nat /\ x.session.gen <= x.op.requests
  BY <1>0, AccessAssumption
  DEF Sound, Backed, Worlds, AccessSessions, AccessGenerations, Operations
<1>4. Sound(y)
  BY <1>0, <1>2, <1>3 DEF Sound, Request, Backed, Due, no, none
<1>5. Tidy(L, x) /\ Held(x)
        => \A q \in Stations : Fresh(x.media[q])
                               => [station |-> q, gen |-> x.media[q].gen] \in L
  BY <1>0 DEF Held, Tidy, Claimed
<1>6. CASE old # 0
  <2> DEFINE w == WithSession(y, old, NoPreview)
  <2>1. NoPreview \in Previews
    BY UnlockAssumption DEF NoPreview, Previews, Anywhere, Sessions
  <2>2. /\ Taken(y, old, NoPreview, e) = TickManual(w, e)
        /\ Sound(w) /\ w.media = y.media
    BY <1>0, <1>2, <1>4, <2>1, TakenIs, WithSessionIs
  <2> HIDE DEF w
  <2>3. Tidy(L, x) /\ Held(x) => Tidy(L, w)
    BY <1>2, <1>5, <2>2 DEF Tidy, Claimed, OnlyPrepared
  <2>4. Fine(L, w, TickManual(w, e))
    BY <2>2, TickManualDoes
  <2> QED BY <1>1, <1>6, <2>2, <2>3, <2>4 DEF Kept, Fine, Tidy
<1>7. CASE old = 0 /\ starts /\ Room(x)
  <2>1. n \in Sessions /\ Lightweight \in BOOLEAN
    BY <1>0, <1>7, RoomForMore, UnlockAssumption
  <2> HIDE DEF n
  <2>2. /\ m \in Entries /\ m.gen = n /\ m.purpose = "preview" /\ m.viewer = FALSE
    BY <2>1 DEF NewEntry, NoEntry, Entries
  <2> HIDE DEF m
  <2>3. /\ media1 \in [Stations -> Entries] /\ media1[p] = m
        /\ \A q \in Stations \ {p} : media1[q] = x.media[q]
    BY <1>2, <2>2 DEF Worlds
  <2>4. /\ op1 \in Operations /\ op1.stage = "preparing" /\ op1.station = p
        /\ op1.gen = none /\ op1.requests = y.op.requests /\ op1.automatic = no
    BY <1>2, <2>1 DEF Worlds, Operations
  <2>5. [y EXCEPT !.media[p] = m, !.last = n, !.op.light = Lightweight] = z
    BY <1>2 DEF Worlds
  <2> HIDE DEF media1, op1
  <2>6. /\ z \in Worlds /\ z.op = op1 /\ z.auto = y.auto /\ z.access = y.access
        /\ z.session = y.session /\ z.media = media1
    BY <1>2, <2>1, <2>3, <2>4 DEF Worlds
  <2> HIDE DEF z
  <2>7. Sound(z)
    BY <1>2, <1>4, <2>4, <2>6 DEF Sound, Request, Backed, Due, no, none
  <2>8. mine \in Previews
    BY <1>0, <2>1 DEF Previews
  <2> DEFINE w == WithSession(z, n, mine)
  <2>9. /\ Taken(z, n, mine, e) = TickManual(w, e)
        /\ Sound(w) /\ w.media = z.media
        /\ w.op.mine = mine /\ w.op.gen = n
        /\ w.op.station = z.op.station /\ w.op.automatic = z.op.automatic
    <3> HIDE DEF mine
    <3> QED BY <2>1, <2>4, <2>6, <2>7, <2>8, TakenIs, WithSessionIs
  <2> HIDE DEF w
  <2>10. Tidy(L, x) /\ Held(x) => Tidy(L, w)
    <3> SUFFICES ASSUME Tidy(L, x), Held(x) PROVE Tidy(L, w)
      OBVIOUS
    <3>1. w.media[p] = m /\ \A q \in Stations \ {p} : w.media[q] = x.media[q]
      BY <2>3, <2>6, <2>9
    <3>2. Claims(w, p)
      BY <2>2, <2>4, <2>6, <2>9, <3>1 DEF Claims, no
    <3>3. Claimed(L, w)
      BY <1>5, <3>1, <3>2 DEF Claimed
    <3>4. OnlyPrepared(w)
      BY <2>2, <3>1 DEF OnlyPrepared, Adopted, Tidy
    <3> QED BY <3>3, <3>4 DEF Tidy
  <2>11. Fine(L, w, TickManual(w, e))
    BY <2>9, TickManualDoes
  <2> QED BY <1>1, <1>7, <2>5, <2>9, <2>10, <2>11 DEF Kept, Fine, Tidy
<1>8. CASE old = 0 /\ ~(starts /\ Room(x))
  <2>1. Lightweight \in BOOLEAN
    BY UnlockAssumption
  <2>4. /\ op1 \in Operations /\ op1.stage = "preparing" /\ op1.station = p
        /\ op1.gen = none /\ op1.requests = y.op.requests /\ op1.automatic = no
    BY <1>2, <2>1 DEF Worlds, Operations
  <2>5. [y EXCEPT !.op.light = Lightweight] = v
    BY <1>2 DEF Worlds
  <2> HIDE DEF op1
  <2>6. /\ v \in Worlds /\ v.op = op1 /\ v.auto = y.auto /\ v.access = y.access
        /\ v.session = y.session /\ v.media = x.media
    BY <1>2, <2>4 DEF Worlds
  <2> HIDE DEF v
  <2>7. Sound(v)
    BY <1>2, <1>4, <2>4, <2>6 DEF Sound, Request, Backed, Due, no, none
  <2> DEFINE w == Finished(v, "cancelled")
  <2>8. Settles(v, w) /\ LeavesMedia(v, w)
    BY <2>6, EndsAreEnds, FinishedDoes
  <2> HIDE DEF w
  <2>9. Sound(w)
    BY <2>7, <2>8, SettlesSound
  <2>10. Tidy(L, x) /\ Held(x) => Tidy(L, w)
    BY <1>5, <2>6, <2>8 DEF LeavesMedia, Tidy, Claimed, OnlyPrepared
  <2>11. Held(w)
    BY <2>4, <2>6, <2>8 DEF Held, Claims, Settles, Fresh, none
  <2> QED BY <1>1, <1>8, <2>5, <2>9, <2>10, <2>11 DEF Kept, Tidy, w
<1> QED BY <1>6, <1>7, <1>8

-----------------------------------------------------------------------------
(* The steps *)

\* What every handler keeps, and the call record.
UnlockInv ==
  /\ Sound(World)
  /\ call \in CallRecords
  /\ OnlyPrepared(World)
  /\ Held(World)

\* What a step does besides: it loses no preparation, unless in the one way there is.
Keeps ==
  /\ UnlockInv'
  /\ Claimed(Orphans(World), World') \/ Taking(World, World')


\* Only the sessions, the preview record and the deadline differ.
SameOperation(x, y) ==
  /\ y \in Worlds
  /\ y.access = x.access
  /\ y.session = x.session
  /\ y.auto = x.auto
  /\ y.op.stage = x.op.stage
  /\ y.op.access = x.op.access
  /\ y.op.requests = x.op.requests
  /\ y.op.automatic = x.op.automatic
  /\ y.op.station = x.op.station
  /\ y.op.gen = x.op.gen

LEMMA SameOperationSound ==
  ASSUME NEW x, NEW y, Sound(x), SameOperation(x, y)
  PROVE  Sound(y)
BY DEF SameOperation, Sound, Request, Backed, Due

\* Sessions end, stop or are adopted, and none becomes a preparation.
Lesser(m, n) ==
  /\ Fresh(m) => Fresh(n) /\ m.gen = n.gen
  /\ (Adopted(n) => ~n.prep) => (Adopted(m) => ~m.prep)

LEMMA LesserTidy ==
  ASSUME NEW L, NEW x, NEW y, Tidy(L, x), Held(x), y.op = x.op,
         \A p \in Stations : Lesser(y.media[p], x.media[p])
  PROVE  Tidy(L, y) /\ Held(y)
<1>1. \A p \in Stations : Fresh(y.media[p])
        => Fresh(x.media[p]) /\ y.media[p].gen = x.media[p].gen
  BY DEF Lesser
<1>2. Claimed(L, y)
  BY <1>1 DEF Tidy, Claimed, Claims
<1>3. OnlyPrepared(y)
  BY DEF Tidy, OnlyPrepared, Lesser
<1>4. Held(y)
  BY <1>1 DEF Held, Claims, Active
<1> QED BY <1>2, <1>3, <1>4 DEF Tidy

\* The world after the step, as a record of its own.
LEMMA KeepsIs ==
  ASSUME NEW y, y = World', call' \in CallRecords, Sound(y), OnlyPrepared(y), Held(y),
         Claimed(Orphans(World), y) \/ Taking(World, y)
  PROVE  Keeps
<1>1. UnlockInv' = (/\ Sound(World') /\ call' \in CallRecords
                    /\ OnlyPrepared(World') /\ Held(World'))
  BY DEF UnlockInv, Sound, Request, Backed, Due, Waiting, Claims, OnlyPrepared, Held,
         Fresh, Adopted, Active
<1> QED BY <1>1 DEF Keeps

LEMMA BecomeDoes ==
  ASSUME NEW x, UnlockInv, Kept(Orphans(World), World, x), Become(x), call' \in CallRecords
  PROVE  Keeps
<1> DEFINE y == World'
           L == Orphans(World)
<1>1. x \in Worlds
  BY DEF Kept, Sound
<1>2. /\ op' = x.op /\ auto' = x.auto /\ access' = x.access /\ session' = x.session
      /\ media' = x.media /\ last' = x.last
      /\ late' = (x.late /\ (Active(x) \/ Waiting(x.access)))
  BY DEF Become
<1>3. late' \in BOOLEAN
  BY <1>2
<1>4. /\ y \in Worlds /\ y.op = x.op /\ y.auto = x.auto /\ y.access = x.access
      /\ y.session = x.session /\ y.media = x.media
  BY <1>1, <1>2, <1>3 DEF World, Worlds
<1>5. y = World'
  OBVIOUS
<1> HIDE DEF y
<1>6. Sound(y)
  BY <1>4, SameOperationSound DEF SameOperation, Kept
<1>7. Tidy(L, World)
  BY OrphansAreLost DEF UnlockInv
<1> HIDE DEF L
<1>8. OnlyPrepared(x) /\ Held(x) /\ (Claimed(L, x) \/ Taking(World, x))
  BY <1>7 DEF Kept, UnlockInv, L
<1>9. OnlyPrepared(y) /\ Held(y) /\ (Claimed(L, y) \/ Taking(World, y))
  BY <1>4, <1>8 DEF Claims, Claimed, OnlyPrepared, Held, Active, Taking
<1> QED BY <1>5, <1>6, <1>9, KeepsIs DEF L

LEMMA TickKeeps ==
  ASSUME UnlockInv, NEW e, Tick(e)
  PROVE  Keeps
<1>1. Kept(Orphans(World), World, Turned(World, e))
  BY TurnedDoes DEF UnlockInv
<1> QED BY <1>1, BecomeDoes DEF Tick, UnlockInv

LEMMA UnlockKeeps ==
  ASSUME UnlockInv, NEW p \in Stations, NEW starts \in BOOLEAN, NEW e, Unlock(p, starts, e)
  PROVE  Keeps
<1>1. Kept(Orphans(World), World, UnlockStation(World, p, starts, e))
  BY UnlockStationDoes DEF Unlock, UnlockInv
<1> QED BY <1>1, BecomeDoes DEF Unlock, UnlockInv

LEMMA ChangeMaterialKeeps ==
  ASSUME UnlockInv, NEW p \in Stations, NEW e, ChangeMaterial(p, e)
  PROVE  Keeps
<1>1. Kept(Orphans(World), World, Ended(World, "cancelled", e))
  BY EndedFine, EndsAreEnds, FineIsKept DEF UnlockInv
<1> QED BY <1>1, BecomeDoes DEF ChangeMaterial, UnlockInv

\* The answer is taken down before the automatic unlock looks at it.
LEMMA ReplyDoes ==
  ASSUME UnlockInv, NEW p \in Stations, NEW answer \in Answers, NEW queued \in BOOLEAN,
         NEW e, Reply(p, answer, queued, e)
  PROVE  /\ Keeps
         /\ ~call.hangup /\ call'.hangup
              => /\ auto.inflight
                 /\ call.gen = auto.call /\ call.peer = op.station
                 /\ call.state \in {"ringing", "talking"}
                 /\ op.automatic /\ op'.stage \in Answers
<1> DEFINE a == Answered(access, answer)
           x == [World EXCEPT !.access = a]
           d == HandleAuto(x, call, e)
<1>1. /\ World \in Worlds /\ World.op = op /\ World.auto = auto /\ World.access = access
      /\ World.session = session /\ World.media = media
  BY DEF UnlockInv, Sound, World
<1>2. access \in AccessControls
  BY <1>1 DEF Worlds
<1>3. a \in AccessControls /\ a.gen = access.gen /\ a.to = access.to /\ ~Waiting(a)
  BY <1>2 DEF Answered, AccessControls, AccessStates, Answers, Waiting
<1>4. [World EXCEPT !.access = Answered(@, answer)] = x
  BY <1>1 DEF Worlds
<1>5. /\ Become(d.x)
      /\ call' = [call EXCEPT !.hangup = call.hangup \/ (d.ok /\ queued)]
  BY <1>4 DEF Reply
<1> HIDE DEF a
<1>6. /\ x \in Worlds /\ x.op = op /\ x.auto = auto /\ x.access = a
      /\ x.session = session /\ x.media = media
  BY <1>1, <1>3 DEF Worlds
<1> HIDE DEF x
<1>7. Sound(x)
  BY <1>1, <1>3, <1>6 DEF UnlockInv, Sound, Request, Backed, Due
<1> DEFINE L == Orphans(World)
<1> HIDE DEF L
<1>8. Tidy(L, World) /\ Held(World) => Tidy(L, x) /\ Held(x)
  BY <1>1, <1>6 DEF Tidy, Claimed, Claims, OnlyPrepared, Held, Active
<1>9. /\ Sound(d.x)
      /\ Tidy(L, x) /\ Held(x) => Tidy(L, d.x) /\ Held(d.x)
      /\ d.ok => /\ x.auto.inflight /\ x.op.automatic
                 /\ x.op.station = x.auto.station
                 /\ call.gen = x.auto.call /\ call.peer = x.auto.station
                 /\ call.state \in {"ringing", "talking"}
                 /\ d.x.op.stage \in Answers
  BY <1>7, HandleAutoDoes
<1> HIDE DEF d
<1>10. Kept(Orphans(World), World, d.x)
  BY <1>8, <1>9 DEF Kept, Tidy, L
<1>11. call' \in CallRecords /\ (call'.hangup => call.hangup \/ d.ok)
  <2> DEFINE h == call.hangup \/ (d.ok /\ queued)
  <2>1. h \in BOOLEAN /\ (h => call.hangup \/ d.ok)
    OBVIOUS
  <2>2. call' = [call EXCEPT !.hangup = h]
    BY <1>5
  <2> HIDE DEF h
  <2> QED BY <2>1, <2>2 DEF UnlockInv, CallRecords
<1>12. op' = d.x.op
  BY <1>5 DEF Become
<1> QED BY <1>5, <1>6, <1>9, <1>10, <1>11, <1>12, BecomeDoes

-----------------------------------------------------------------------------
(* The other users of the sessions *)

LEMMA WorldIs ==
  ASSUME UnlockInv
  PROVE  /\ World \in Worlds /\ World.op = op /\ World.auto = auto
         /\ World.access = access /\ World.session = session /\ World.media = media
         /\ World.last = last
         /\ op \in Operations /\ auto \in Autos /\ last \in Sessions
         /\ media \in [Stations -> Entries]
         /\ Sound(World) /\ call \in CallRecords
BY DEF UnlockInv, Sound, World, Worlds

\* A step that only touches the sessions.
LEMMA MediaOnly ==
  ASSUME UnlockInv, media' \in [Stations -> Entries], call' \in CallRecords,
         \A p \in Stations : Lesser(media'[p], media[p]),
         UNCHANGED <<op, auto, access, session, last, late>>
  PROVE  Keeps
<1> DEFINE y == World'
<1>1. /\ World.op = op /\ World.auto = auto /\ World.access = access /\ World.media = media
      /\ World.session = session /\ World \in Worlds
  BY WorldIs
<1>2. /\ y \in Worlds /\ y.op = op /\ y.auto = auto /\ y.access = access
      /\ y.session = session /\ y.media = media'
  BY <1>1 DEF World, Worlds
<1>3. y = World'
  OBVIOUS
<1> HIDE DEF y
<1>4. Sound(y)
  BY <1>1, <1>2, SameOperationSound DEF SameOperation, UnlockInv
<1>5. Tidy(Orphans(World), World) /\ Held(World)
  BY OrphansAreLost DEF UnlockInv
<1>6. Tidy(Orphans(World), y) /\ Held(y)
  BY <1>1, <1>2, <1>5, LesserTidy
<1> QED BY <1>3, <1>4, <1>6, KeepsIs DEF Tidy

LEMMA LesserSelf ==
  ASSUME NEW m \in Entries
  PROVE  Lesser(m, m)
BY DEF Lesser

LEMMA OneEntryKeeps ==
  ASSUME UnlockInv, NEW p \in Stations, NEW m \in Entries, Media(p, m), Lesser(m, media[p])
  PROVE  Keeps
<1>1. /\ media \in [Stations -> Entries] /\ media' = [media EXCEPT ![p] = m]
      /\ call' = call /\ call \in CallRecords
      /\ UNCHANGED <<op, auto, access, session, last, late>>
  BY WorldIs DEF Media
<1>2. media' \in [Stations -> Entries]
  BY <1>1
<1>3. \A q \in Stations : Lesser(media'[q], media[q])
  BY <1>1, LesserSelf
<1> QED BY <1>1, <1>2, <1>3, MediaOnly

LEMMA MonitorStopKeeps ==
  ASSUME UnlockInv, NEW p \in Stations, NEW stops \in BOOLEAN, MonitorStop(p, stops)
  PROVE  Keeps
<1> DEFINE m == StoppedEntry(media[p], stops)
<1>1. media[p] \in Entries
  BY WorldIs
<1>2. m \in Entries /\ Lesser(m, media[p])
  BY <1>1, StoppedEntryIs DEF Lesser
<1>3. Media(p, m)
  BY DEF MonitorStop
<1> HIDE DEF m
<1> QED BY <1>2, <1>3, OneEntryKeeps

LEMMA ProgressKeeps ==
  ASSUME UnlockInv, NEW p \in Stations, NEW state \in {"asking", "acked", "live", "failed"},
         Progress(p, state)
  PROVE  Keeps
<1> DEFINE viewer == media[p].viewer /\ state # "failed"
           m == [media[p] EXCEPT !.state = state, !.viewer = viewer]
<1>1. media[p] \in Entries /\ media[p].state # "stopping"
  BY WorldIs DEF Progress
<1>2. Media(p, m)
  BY DEF Progress
<1>3. viewer \in BOOLEAN /\ (viewer => media[p].viewer)
  OBVIOUS
<1> HIDE DEF viewer
<1>4. /\ m \in Entries /\ m.gen = media[p].gen /\ m.prep = media[p].prep
      /\ m.purpose = media[p].purpose /\ m.viewer = viewer /\ m.state = state
  BY <1>1, <1>3 DEF Entries
<1>5. Lesser(m, media[p])
  BY <1>1, <1>3, <1>4 DEF Lesser, Fresh, Adopted
<1> HIDE DEF m
<1> QED BY <1>2, <1>4, <1>5, OneEntryKeeps

LEMMA GoneKeeps ==
  ASSUME UnlockInv, NEW p \in Stations, Gone(p)
  PROVE  Keeps
<1>1. NoEntry \in Entries /\ Lesser(NoEntry, media[p])
  BY NoEntryIsFree DEF Lesser
<1> QED BY <1>1, OneEntryKeeps DEF Gone

LEMMA HangUpKeeps ==
  ASSUME UnlockInv, HangUp
  PROVE  Keeps
<1>1. media \in [Stations -> Entries] /\ call \in CallRecords
  BY WorldIs
<1>2. media' = [p \in Stations |-> IF p = call.peer /\ media[p].purpose = "call"
                                   THEN NoEntry ELSE media[p]]
  BY DEF HangUp
<1>3. media' \in [Stations -> Entries]
  BY <1>1, <1>2, NoEntryIsFree
<1>4. Lesser(NoEntry, NoEntry) /\ \A p \in Stations : Lesser(NoEntry, media[p])
  BY NoEntryIsFree DEF Lesser
<1>5. \A p \in Stations : Lesser(media'[p], media[p])
  BY <1>1, <1>2, <1>4, LesserSelf
<1>6. call' \in CallRecords
  BY <1>1 DEF HangUp, CallRecords
<1> QED BY <1>3, <1>5, <1>6, MediaOnly DEF HangUp

LEMMA AnswerKeeps ==
  ASSUME UnlockInv, Answer
  PROVE  Keeps
<1>1. media \in [Stations -> Entries] /\ call \in CallRecords
  BY WorldIs
<1>2. media' = media /\ \A p \in Stations : Lesser(media'[p], media[p])
  BY <1>1, LesserSelf DEF Answer
<1>3. call' \in CallRecords
  BY <1>1 DEF Answer, CallRecords
<1> QED BY <1>1, <1>2, <1>3, MediaOnly DEF Answer

\* The record of the preview goes when somebody else takes the session.
LEMMA DisownedDoes ==
  ASSUME NEW x \in Worlds, NEW p \in Stations
  PROVE  LET y == Disowned(x, p)
         IN /\ SameOperation(x, y) /\ y.media = x.media
            /\ y.op.cleanup = x.op.cleanup
            /\ y.op.mine \in {x.op.mine, NoPreview}
            /\ x.op.mine.station # p => y.op.mine = x.op.mine
<1> DEFINE mine == IF x.op.mine = [station |-> p, gen |-> x.media[p].gen]
                   THEN NoPreview ELSE x.op.mine
           op1 == [x.op EXCEPT !.mine = mine]
           y == [x EXCEPT !.op = op1]
<1>1. x.op \in Operations
  BY DEF Worlds
<1>2. Disowned(x, p) = y
  BY <1>1 DEF Disowned, Worlds, Operations
<1>3. /\ mine \in Previews /\ mine \in {x.op.mine, NoPreview}
      /\ x.op.mine.station # p => mine = x.op.mine
  BY <1>1, UnlockAssumption DEF NoPreview, Previews, Anywhere, Sessions, Operations
<1> HIDE DEF mine
<1>4. /\ op1 \in Operations /\ op1.stage = x.op.stage /\ op1.access = x.op.access
      /\ op1.requests = x.op.requests /\ op1.automatic = x.op.automatic
      /\ op1.station = x.op.station /\ op1.gen = x.op.gen
      /\ op1.cleanup = x.op.cleanup /\ op1.mine = mine
  BY <1>1, <1>3 DEF Operations
<1> HIDE DEF op1
<1>5. /\ y \in Worlds /\ y.op = op1 /\ y.auto = x.auto /\ y.access = x.access
      /\ y.session = x.session /\ y.media = x.media
  BY <1>4 DEF Worlds
<1> QED BY <1>2, <1>3, <1>4, <1>5 DEF SameOperation

\* The session that somebody takes is no preparation any more.
LEMMA DisownedTidy ==
  ASSUME NEW L, NEW x \in Worlds, NEW p \in Stations, ~Fresh(x.media[p]),
         Tidy(L, x), Held(x)
  PROVE  LET y == Disowned(x, p) IN Tidy(L, y) /\ Held(y)
<1> DEFINE y == Disowned(x, p)
<1>1. /\ SameOperation(x, y) /\ y.media = x.media /\ y.op.cleanup = x.op.cleanup
      /\ y.op.mine \in {x.op.mine, NoPreview}
      /\ x.op.mine.station # p => y.op.mine = x.op.mine
  BY DisownedDoes
<1> HIDE DEF y
<1>2. ASSUME NEW q \in Stations, Fresh(y.media[q]) PROVE Claims(y, q) <=> Claims(x, q)
  <2>1. q # p
    BY <1>1, <1>2
  <2>2. ASSUME Claims(x, q) PROVE Claims(y, q)
    <3>1. x.op.mine.station = q
      BY <2>2 DEF Claims
    <3> QED BY <1>1, <2>1, <2>2, <3>1 DEF Claims, SameOperation
  <2>3. ASSUME Claims(y, q) PROVE Claims(x, q)
    BY <1>1, <2>3, NamesNone DEF Claims, SameOperation
  <2> QED BY <2>2, <2>3
<1>3. Tidy(L, y)
  BY <1>1, <1>2 DEF Tidy, Claimed, OnlyPrepared
<1>4. Held(y)
  BY <1>1, <1>2 DEF Held, Active, SameOperation
<1> QED BY <1>3, <1>4 DEF y

\* One session is replaced by one that is no preparation.
Replaced(x, p, m, n) == [x EXCEPT !.media = [x.media EXCEPT ![p] = m], !.last = n]

Whole(m) == ~m.prep

LEMMA ReplacedDoes ==
  ASSUME NEW L, NEW x, Sound(x), NEW p \in Stations, NEW m \in Entries, NEW n \in Sessions,
         Whole(m)
  PROVE  LET y == Replaced(x, p, m, n)
         IN /\ SameOperation(x, y) /\ y.op = x.op /\ y.media[p] = m
            /\ Tidy(L, x) /\ Held(x) => Tidy(L, y) /\ Held(y)
<1> DEFINE media1 == [x.media EXCEPT ![p] = m]
           y == Replaced(x, p, m, n)
<1>1. x \in Worlds /\ x.media \in [Stations -> Entries]
  BY DEF Sound, Worlds
<1>2. /\ media1 \in [Stations -> Entries] /\ media1[p] = m
      /\ \A q \in Stations \ {p} : media1[q] = x.media[q]
  BY <1>1
<1>3. y = [x EXCEPT !.media = media1, !.last = n]
  BY DEF Replaced
<1> HIDE DEF media1, y
<1>4. /\ y \in Worlds /\ y.op = x.op /\ y.auto = x.auto /\ y.access = x.access
      /\ y.session = x.session /\ y.media = media1
  BY <1>1, <1>2, <1>3 DEF Worlds
<1>5. SameOperation(x, y)
  BY <1>4 DEF SameOperation
<1>6. \A q \in Stations : Lesser(y.media[q], x.media[q])
  BY <1>2, <1>4 DEF Lesser, Fresh, Whole
<1>7. Tidy(L, x) /\ Held(x) => Tidy(L, y) /\ Held(y)
  BY <1>4, <1>6, LesserTidy
<1> QED BY <1>2, <1>4, <1>5, <1>7 DEF y

LEMMA MonitorStartKeeps ==
  ASSUME UnlockInv, NEW p \in Stations, MonitorStart(p)
  PROVE  Keeps
<1> DEFINE no == FALSE
           m == [media[p] EXCEPT !.prep = FALSE]
           n == NewEntry(last + 1, "preview", no)
           j == Replaced(World, p, m, last)
           b == Replaced(World, p, n, last + 1)
           L == Orphans(World)
<1> HIDE DEF L
<1>0. /\ World \in Worlds /\ World.op = op /\ World.media = media /\ World.last = last
      /\ last \in Sessions /\ media \in [Stations -> Entries] /\ Sound(World)
      /\ call \in CallRecords /\ no \in BOOLEAN /\ no = FALSE
  BY WorldIs
<1>1. Become(IF media[p].gen # 0 THEN Disowned(j, p) ELSE b) /\ call' \in CallRecords
  <2>1. [World EXCEPT !.media[p].prep = FALSE] = j
    BY <1>0 DEF Worlds, Entries, Replaced
  <2>2. [World EXCEPT !.media[p] = NewEntry(last + 1, "preview", FALSE), !.last = @ + 1] = b
    BY <1>0 DEF Worlds, Replaced
  <2> QED BY <1>0, <2>1, <2>2 DEF MonitorStart
<1>2. CASE media[p].gen # 0
  <2>1. m \in Entries /\ Whole(m)
    BY <1>0 DEF Entries, Whole
  <2> HIDE DEF m
  <2>3. /\ SameOperation(World, j) /\ j.media[p] = m
        /\ Tidy(L, World) /\ Held(World) => Tidy(L, j) /\ Held(j)
    BY <1>0, <2>1, ReplacedDoes
  <2> HIDE DEF j
  <2> DEFINE y == Disowned(j, p)
  <2>4. SameOperation(j, y)
    BY <2>3, DisownedDoes DEF SameOperation
  <2>5. Tidy(L, j) /\ Held(j) => Tidy(L, y) /\ Held(y)
    <3>1. j \in Worlds /\ ~Fresh(j.media[p])
      BY <2>1, <2>3 DEF SameOperation, Whole, Fresh
    <3> QED BY <3>1, DisownedTidy
  <2> HIDE DEF y
  <2>6. Sound(y)
    BY <1>0, <2>3, <2>4, SameOperationSound
  <2>8. Kept(L, World, y)
    BY <2>3, <2>5, <2>6 DEF Kept, Tidy
  <2> QED BY <1>1, <1>2, <2>8, BecomeDoes DEF y, L
<1>3. CASE media[p].gen = 0
  <2>1. Room(World)
    BY <1>3 DEF MonitorStart
  <2>2. last + 1 \in Sessions
    BY <1>0, <2>1, RoomForMore
  <2>4. n \in Entries /\ Whole(n)
    <3> HIDE DEF no
    <3>1. n \in Entries /\ n.prep = no
      BY <1>0, <2>2 DEF NewEntry, NoEntry, Entries
    <3> QED BY <3>1 DEF Whole, no
  <2> HIDE DEF n
  <2>6. /\ SameOperation(World, b)
        /\ Tidy(L, World) /\ Held(World) => Tidy(L, b) /\ Held(b)
    BY <1>0, <2>2, <2>4, ReplacedDoes
  <2> HIDE DEF b
  <2>7. Sound(b)
    BY <1>0, <2>6, SameOperationSound
  <2>8. Kept(L, World, b)
    BY <2>6, <2>7 DEF Kept, Tidy
  <2> QED BY <1>1, <1>3, <2>8, BecomeDoes DEF L
<1> QED BY <1>2, <1>3

\* A viewer that comes takes the session, one that goes only leaves it.
LEMMA ViewerKeeps ==
  ASSUME UnlockInv, NEW p \in Stations, NEW watching \in BOOLEAN, Viewer(p, watching)
  PROVE  Keeps
<1> DEFINE prep == media[p].prep /\ ~watching
           state == IF watching /\ media[p].state \in {"stopping", "failed"}
                    THEN "asking" ELSE media[p].state
           m == Watched(media[p], watching)
           j == Replaced(World, p, m, last)
           y == Disowned(j, p)
           L == Orphans(World)
<1> HIDE DEF L
<1>0. /\ World \in Worlds /\ World.op = op /\ World.media = media /\ World.last = last
      /\ last \in Sessions /\ media[p] \in Entries /\ Sound(World)
      /\ call \in CallRecords /\ media[p].gen # 0
  BY WorldIs DEF Viewer
<1>1. Become(IF watching THEN y ELSE j) /\ call' \in CallRecords
  <2>1. [World EXCEPT !.media[p] = Watched(@, watching)] = j
    BY <1>0 DEF Worlds, Replaced
  <2> QED BY <1>0, <2>1 DEF Viewer
<1>2. /\ prep \in BOOLEAN /\ (watching => ~prep) /\ (~watching => prep = media[p].prep)
      /\ state \in {"asking", "acked", "live", "failed", "stopping"}
      /\ (~watching => state = media[p].state)
  BY <1>0 DEF Entries
<1>6. m = [media[p] EXCEPT !.viewer = watching, !.prep = prep, !.state = state]
  BY <1>0 DEF Entries, Watched
<1> HIDE DEF prep, state, m
<1>3. /\ m \in Entries /\ m.gen = media[p].gen /\ m.viewer = watching
      /\ m.prep = prep /\ m.state = state /\ m.purpose = media[p].purpose
  BY <1>0, <1>2, <1>6 DEF Entries
<1>4. CASE watching
  <2>1. Whole(m)
    BY <1>2, <1>3, <1>4 DEF Whole
  <2>2. /\ SameOperation(World, j) /\ j.media[p] = m
        /\ Tidy(L, World) /\ Held(World) => Tidy(L, j) /\ Held(j)
    BY <1>0, <1>3, <2>1, ReplacedDoes
  <2> HIDE DEF j
  <2>3. SameOperation(j, y)
    BY <2>2, DisownedDoes DEF SameOperation
  <2>4. Tidy(L, j) /\ Held(j) => Tidy(L, y) /\ Held(y)
    <3>1. j \in Worlds /\ ~Fresh(j.media[p])
      BY <2>1, <2>2 DEF SameOperation, Whole, Fresh
    <3> QED BY <3>1, DisownedTidy
  <2> HIDE DEF y
  <2>5. Sound(y)
    BY <1>0, <2>2, <2>3, SameOperationSound
  <2>7. Kept(L, World, y)
    BY <2>2, <2>4, <2>5 DEF Kept, Tidy
  <2> QED BY <1>1, <1>4, <2>7, BecomeDoes DEF L
<1>5. CASE ~watching
  <2>1. /\ SameOperation(World, j) /\ j.op = op /\ j.media = [media EXCEPT ![p] = m]
    <3> DEFINE media1 == [media EXCEPT ![p] = m]
    <3>1. media1 \in [Stations -> Entries]
      BY <1>3, WorldIs
    <3>2. j = [World EXCEPT !.media = media1, !.last = last]
      BY <1>0 DEF Replaced
    <3> HIDE DEF media1, j
    <3>3. j \in Worlds /\ j.op = op /\ j.media = media1 /\ j.auto = World.auto
          /\ j.access = World.access /\ j.session = World.session
      BY <1>0, <3>1, <3>2 DEF Worlds
    <3> QED BY <1>0, <3>3 DEF SameOperation, media1
  <2>2. Lesser(m, media[p])
    BY <1>2, <1>3, <1>5 DEF Lesser, Fresh, Adopted
  <2>3. media \in [Stations -> Entries]
    BY WorldIs
  <2> HIDE DEF j
  <2>4. \A q \in Stations : Lesser(j.media[q], World.media[q])
    BY <1>0, <2>1, <2>2, <2>3, LesserSelf
  <2>5. Sound(j)
    BY <1>0, <2>1, SameOperationSound
  <2>6. Tidy(L, World) /\ Held(World) => Tidy(L, j) /\ Held(j)
    BY <1>0, <2>1, <2>4, LesserTidy
  <2>7. Kept(L, World, j)
    BY <2>5, <2>6 DEF Kept, Tidy
  <2> QED BY <1>1, <1>5, <2>7, BecomeDoes DEF L
<1> QED BY <1>4, <1>5

\* The delay of the automatic unlock starts for a call that rings.
LEMMA ScheduledDoes ==
  ASSUME NEW x, Sound(x), NEW p \in Stations, NEW gen \in Calls
  PROVE  LET y == Scheduled(x, p, gen)
         IN Sound(y) /\ y.op = x.op /\ y.media = x.media
<1> DEFINE a == [x.auto EXCEPT !.pending = TRUE, !.inflight = FALSE, !.due = FALSE,
                               !.station = p, !.call = gen]
           y == [x EXCEPT !.auto = a]
<1>1. x \in Worlds /\ x.auto \in Autos
  BY DEF Sound, Worlds
<1>2. a \in Autos /\ a.pending = TRUE /\ a.inflight = FALSE /\ a.station = p
  BY <1>1 DEF Autos, Anywhere
<1>3. Scheduled(x, p, gen) \in {x, y}
  BY DEF Scheduled
<1> HIDE DEF a
<1>4. /\ y \in Worlds /\ y.op = x.op /\ y.auto = a /\ y.access = x.access
      /\ y.session = x.session /\ y.media = x.media
  BY <1>1, <1>2 DEF Worlds
<1> HIDE DEF y
<1>5. Sound(y)
  BY <1>2, <1>4 DEF Sound, Request, Backed, Due
<1> QED BY <1>3, <1>4, <1>5

LEMMA IncomingKeeps ==
  ASSUME UnlockInv, NEW p \in Stations, NEW works \in BOOLEAN, Incoming(p, works)
  PROVE  Keeps /\ ~call'.hangup
<1> DEFINE no == FALSE
           n == NewEntry(last + 1, "call", no)
           ring == [state |-> "ringing", gen |-> call.gen + 1, peer |-> p, hangup |-> FALSE]
<1>0. /\ World \in Worlds /\ World.op = op /\ World.media = media /\ World.last = last
      /\ last \in Sessions /\ media \in [Stations -> Entries] /\ Sound(World)
      /\ call \in CallRecords /\ no \in BOOLEAN
  BY WorldIs
<1>1. call' = ring /\ ring \in CallRecords /\ ring.gen \in Calls /\ call'.hangup = FALSE
  <2>1. call.gen \in Nat /\ call.gen < MaxCalls
    BY <1>0, UnlockAssumption DEF Incoming, CallRecords, Calls
  <2>2. call.gen + 1 \in Calls
    BY <2>1, UnlockAssumption DEF Calls
  <2> QED BY <2>2 DEF Incoming, CallRecords, Anywhere
<1>2. PICK gone \in SUBSET Displaced(p) :
        /\ Displaced(p) # {} => Cardinality(gone) = 1
        /\ LET y == [World EXCEPT
                       !.media = [q \in Stations |->
                                    IF q = p THEN NewEntry(last + 1, "call", FALSE)
                                    ELSE IF q \in gone THEN NoEntry ELSE media[q]],
                       !.last = @ + 1]
           IN Become(IF ~works \/ ~CallRoom(p) THEN World
                     ELSE IF Automatic THEN Scheduled(y, p, call'.gen) ELSE y)
  BY DEF Incoming
<1> DEFINE media1 == [q \in Stations |-> IF q = p THEN n
                                         ELSE IF q \in gone THEN NoEntry ELSE media[q]]
           y == [World EXCEPT !.media = media1, !.last = last + 1]
           z == Scheduled(y, p, ring.gen)
           L == Orphans(World)
<1> HIDE DEF L
<1>3. Become(IF ~works \/ ~CallRoom(p) THEN World ELSE IF Automatic THEN z ELSE y)
  BY <1>0, <1>1, <1>2 DEF Worlds
<1>4. Kept(L, World, World)
  BY <1>0 DEF Kept, Tidy
<1>5. ASSUME CallRoom(p) PROVE Kept(L, World, y) /\ Kept(L, World, z)
  <2>1. last + 1 \in Sessions
    BY <1>0, <1>5, UnlockAssumption DEF CallRoom, Sessions
  <2>2. n \in Entries /\ Whole(n)
    <3> HIDE DEF no
    <3>1. n \in Entries /\ n.prep = no
      BY <1>0, <2>1 DEF NewEntry, NoEntry, Entries
    <3> QED BY <3>1 DEF Whole, no
  <2> HIDE DEF n
  <2>3. /\ media1 \in [Stations -> Entries] /\ media1[p] = n
        /\ \A q \in Stations \ {p} : media1[q] = IF q \in gone THEN NoEntry ELSE media[q]
    BY <1>0, <2>2, NoEntryIsFree
  <2> HIDE DEF media1
  <2>4. /\ y \in Worlds /\ y.op = op /\ y.media = media1 /\ y.auto = World.auto
        /\ y.access = World.access /\ y.session = World.session
    BY <1>0, <2>1, <2>3 DEF Worlds
  <2> HIDE DEF y
  <2>5. Sound(y)
    BY <1>0, <2>4, SameOperationSound DEF SameOperation
  <2>6. Sound(z) /\ z.op = y.op /\ z.media = y.media
    <3> HIDE DEF ring
    <3> QED BY <1>1, <2>5, ScheduledDoes
  <2> HIDE DEF z
  <2>7. \A q \in Stations : Lesser(y.media[q], media[q])
    BY <2>2, <2>3, <2>4, NoEntryIsFree DEF Lesser, Fresh, Whole
  <2>8. Tidy(L, World) /\ Held(World) => Tidy(L, y) /\ Held(y)
    BY <1>0, <2>4, <2>7, LesserTidy
  <2>9. Tidy(L, y) /\ Held(y) => Tidy(L, z) /\ Held(z)
    BY <2>6 DEF Tidy, Claimed, Claims, OnlyPrepared, Held, Active
  <2> QED BY <2>5, <2>6, <2>8, <2>9 DEF Kept, Tidy
<1> HIDE DEF y, z, ring
<1> QED BY <1>1, <1>3, <1>4, <1>5, BecomeDoes DEF L

\* Time passes for the operation or for the call.
LEMMA TimeKeeps ==
  ASSUME UnlockInv, Pass \/ Delay
  PROVE  Keeps
<1> DEFINE y == World'
           a == [auto EXCEPT !.due = TRUE]
<1>1. /\ World.op = op /\ World.auto = auto /\ World.access = access /\ World.media = media
      /\ World.session = session /\ World \in Worlds /\ auto \in Autos
  BY WorldIs
<1>2. /\ a \in Autos /\ a.pending = auto.pending /\ a.inflight = auto.inflight
      /\ a.station = auto.station /\ a.access = auto.access
  BY <1>1 DEF Autos
<1>3. /\ auto' \in {auto, a} /\ late' \in {late, TRUE}
      /\ UNCHANGED <<op, access, session, media, last, call>>
  BY DEF Pass, Delay
<1> HIDE DEF a
<1>4. /\ y \in Worlds /\ y.op = op /\ y.auto = auto' /\ y.access = access
      /\ y.session = session /\ y.media = media
  BY <1>1, <1>2, <1>3 DEF World, Worlds
<1>5. y = World'
  OBVIOUS
<1> DEFINE L == Orphans(World)
<1>8. Tidy(L, World) /\ Held(World)
  BY OrphansAreLost DEF UnlockInv
<1> HIDE DEF y, L
<1>6. Sound(y)
  BY <1>1, <1>2, <1>3, <1>4 DEF UnlockInv, Sound, Request, Backed, Due
<1>7. Tidy(L, y) /\ Held(y)
  BY <1>1, <1>4, <1>8 DEF Tidy, Claimed, Claims, OnlyPrepared, Held, Active
<1> QED BY <1>3, <1>5, <1>6, <1>7, KeepsIs DEF UnlockInv, Tidy, L

LEMMA StutterKeeps ==
  ASSUME UnlockInv, UNCHANGED vars
  PROVE  Keeps
<1>1. media \in [Stations -> Entries] /\ call \in CallRecords
  BY WorldIs
<1>2. \A p \in Stations : Lesser(media'[p], media[p])
  BY <1>1, LesserSelf DEF vars
<1> QED BY <1>1, <1>2, MediaOnly DEF vars

LEMMA UnlockInitially == Init => UnlockInv
<1> SUFFICES ASSUME Init PROVE UnlockInv
  OBVIOUS
<1>1. /\ 0 \in AccessGenerations /\ 0 \in Sessions /\ 0 \in Calls /\ 0 \in 0 .. MaxRequests
      /\ NoStation \in Anywhere /\ "idle" \in Stages
  BY AccessAssumption, UnlockAssumption
  DEF AccessGenerations, Sessions, Calls, Anywhere, Stages
<1>2. NoPreview \in Previews
  BY <1>1 DEF NoPreview, Previews
<1>3. op \in Operations /\ auto \in Autos /\ late \in BOOLEAN /\ last \in Sessions
  BY <1>1, <1>2 DEF Init, Operations, Autos
<1>4. access \in AccessControls /\ session \in AccessSessions
  BY <1>1 DEF Init, NoAccess, NoAccessSession, AccessControls, AccessStates, AccessSessions
<1>5. media \in [Stations -> Entries] /\ \A p \in Stations : media[p] = NoEntry
  BY NoEntryIsFree DEF Init
<1>6. call \in CallRecords
  BY <1>1 DEF Init, NoCall, CallRecords
<1>7. /\ World \in Worlds /\ World.op = op /\ World.auto = auto /\ World.access = access
      /\ World.session = session /\ World.media = media
  BY <1>3, <1>4, <1>5 DEF World, Worlds
<1>8. Sound(World)
  BY <1>7 DEF Init, Sound, Request, Backed, Due, NoAccessSession
<1>9. OnlyPrepared(World) /\ Held(World)
  BY <1>5, <1>7, NoEntryIsFree DEF OnlyPrepared, Held
<1> QED BY <1>6, <1>8, <1>9 DEF UnlockInv

LEMMA UnlockInductive == UnlockInv /\ [Next]_vars => Keeps
<1> SUFFICES ASSUME UnlockInv, [Next]_vars PROVE Keeps
  OBVIOUS
<1>1. CASE \E e \in Met(World) : Tick(e)
  BY <1>1, TickKeeps
<1>2. CASE \E p \in Stations, starts \in BOOLEAN, e \in Met(World) : Unlock(p, starts, e)
  BY <1>2, UnlockKeeps
<1>3. CASE \E p \in Stations, a \in Answers, queued \in BOOLEAN, e \in Met(World) :
             Reply(p, a, queued, e)
  BY <1>3, ReplyDoes
<1>4. CASE \E p \in Stations, e \in Met(World) : ChangeMaterial(p, e)
  BY <1>4, ChangeMaterialKeeps
<1>5. CASE \E p \in Stations : MonitorStart(p)
  BY <1>5, MonitorStartKeeps
<1>6. CASE \E p \in Stations, watching \in BOOLEAN : Viewer(p, watching)
  BY <1>6, ViewerKeeps
<1>7. CASE \E p \in Stations, stops \in BOOLEAN : MonitorStop(p, stops)
  BY <1>7, MonitorStopKeeps
<1>8. CASE \E p \in Stations, s \in {"asking", "acked", "live", "failed"} : Progress(p, s)
  BY <1>8, ProgressKeeps
<1>9. CASE \E p \in Stations : Gone(p)
  BY <1>9, GoneKeeps
<1>10. CASE \E p \in Stations, works \in BOOLEAN : Incoming(p, works)
  BY <1>10, IncomingKeeps
<1>11. CASE Answer
  BY <1>11, AnswerKeeps
<1>12. CASE HangUp
  BY <1>12, HangUpKeeps
<1>13. CASE Pass \/ Delay
  BY <1>13, TimeKeeps
<1>14. CASE UNCHANGED vars
  BY <1>14, StutterKeeps
<1> QED BY <1>1, <1>2, <1>3, <1>4, <1>5, <1>6, <1>7, <1>8, <1>9, <1>10, <1>11, <1>12,
           <1>13, <1>14 DEF Next

LEMMA UnlockSafety == Spec => []UnlockInv
<1>1. Init => UnlockInv
  BY UnlockInitially
<1>2. UnlockInv /\ [Next]_vars => UnlockInv'
  BY UnlockInductive DEF Keeps
<1> QED BY <1>1, <1>2, PTL DEF Spec

-----------------------------------------------------------------------------
(* The theorems *)

\* Every record of the unlock, the request, the sessions and the call has its type,
\* and no counter passes its end: a request always finds a generation left.
THEOREM UnlockTypes == Spec => []UnlockTypeOK
<1>1. UnlockInv => UnlockTypeOK
  <2> SUFFICES ASSUME UnlockInv PROVE UnlockTypeOK
    OBVIOUS
  <2>1. World \in Worlds /\ call \in CallRecords
    BY WorldIs
  <2>2. /\ op \in Operations /\ auto \in Autos /\ access \in AccessControls
        /\ session \in AccessSessions /\ media \in [Stations -> Entries]
        /\ last \in Sessions /\ late \in BOOLEAN
    BY <2>1 DEF World, Worlds
  <2> QED BY <2>1, <2>2 DEF UnlockTypeOK
<1> QED BY <1>1, UnlockSafety, PTL

\* The request that is out is the one of the operation that waits, whatever the
\* order of ticks, answers, calls and the other users of the sessions: an answer
\* carries no key, so nothing may begin while one is expected, and the flag of the
\* automatic unlock stands for its own request only.
THEOREM RequestStaysItsOwn == Spec => []RequestIsItsOwn
<1>1. UnlockInv => RequestIsItsOwn
  BY WorldIs DEF Sound, Request, RequestIsItsOwn
<1> QED BY <1>1, UnlockSafety, PTL

\* However many media sessions fit, a preparation that nobody adopted is only lost by
\* the manual unlock that must stop it in the step in which an automatic unlock begins
\* over it; until then some turn of the loop is still to stop it.
THEOREM PreparationsHandedOn == Spec => PreparationHandedOn
<1> DEFINE Step == \A p \in Stations :
                     Orphaned(p)' => \/ Orphaned(p) /\ media'[p].gen = media[p].gen
                                     \/ Owned(p) /\ TakenOver
<1>1. UnlockInv /\ [Next]_vars => [Step]_vars
  <2> SUFFICES ASSUME UnlockInv, Next, NEW p \in Stations, Orphaned(p)'
               PROVE  \/ Orphaned(p) /\ media'[p].gen = media[p].gen
                      \/ Owned(p) /\ TakenOver
    OBVIOUS
  <2> DEFINE y == World'
  <2>1. /\ UnlockInv /\ UnlockInv'
        /\ Claimed(Orphans(World), y) \/ Taking(World, y)
    BY UnlockInductive DEF Keeps
  <2>2. /\ World.op = op /\ World.media = media /\ World.access = access
        /\ y.op = op' /\ y.media = media'
    BY DEF World
  <2> HIDE DEF y
  <2>3. Fresh(y.media[p]) /\ ~Claims(y, p)
    BY <2>2 DEF Orphaned, Unstopped, Owned, Fresh, Claims
  <2>4. CASE Claimed(Orphans(World), y)
    <3>1. [station |-> p, gen |-> y.media[p].gen] \in Orphans(World)
      BY <2>3, <2>4 DEF Claimed
    <3>2. PICK q \in Stations :
            /\ Fresh(media[q]) /\ ~Claims(World, q)
            /\ [station |-> p, gen |-> y.media[p].gen]
                 = [station |-> q, gen |-> media[q].gen]
      BY <2>2, <3>1 DEF Orphans
    <3>3. q = p /\ media[p].gen = media'[p].gen
      BY <2>2, <3>2
    <3> QED BY <2>2, <3>2, <3>3 DEF Orphaned, Unstopped, Owned, Fresh, Claims
  <2>5. CASE Taking(World, y)
    <3>1. media' = media /\ TakenOver
      BY <2>2, <2>5 DEF Taking, TakenOver
    <3> QED BY <2>2, <2>3, <3>1 DEF Orphaned, Unstopped, Owned, Fresh
  <2> QED BY <2>1, <2>4, <2>5
<1> QED BY <1>1, UnlockSafety, PTL DEF Spec, PreparationHandedOn

\* The hangup that an automatic unlock leaves is for the call it opened the door
\* for: the call that rings now, of the station that answered, and the operation
\* of that call has got its answer.
THEOREM HangupMeantForItsCall == Spec => HangsUpItsCall
<1> DEFINE Step == ~call.hangup /\ call'.hangup
                   => /\ auto.inflight
                      /\ call.gen = auto.call /\ call.peer = op.station
                      /\ call.state \in {"ringing", "talking"}
                      /\ op.automatic /\ op'.stage \in Answers
<1>1. UnlockInv /\ [Next]_vars => [Step]_vars
  <2> SUFFICES ASSUME UnlockInv, Next PROVE Step
    BY DEF vars
  <2>1. CASE \E p \in Stations, a \in Answers, queued \in BOOLEAN, e \in Met(World) :
               Reply(p, a, queued, e)
    BY <2>1, ReplyDoes
  <2>2. CASE \E p \in Stations, works \in BOOLEAN : Incoming(p, works)
    BY <2>2, IncomingKeeps
  <2>3. CASE Answer \/ HangUp
    BY <2>3, WorldIs DEF Answer, HangUp, CallRecords
  <2>4. CASE UNCHANGED call
    BY <2>4
  <2> QED BY <2>1, <2>2, <2>3, <2>4 DEF Next, Tick, Unlock, ChangeMaterial, MonitorStart,
             Viewer, MonitorStop, Progress, Gone, Media, Pass, Delay
<1> QED BY <1>1, UnlockSafety, PTL DEF Spec, HangsUpItsCall
=============================================================================
