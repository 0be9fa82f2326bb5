--------------------------- MODULE PresenceProofs ---------------------------
(***************************************************************************)
(* Proofs about one terminal, for every set of peers and every interval:   *)
(* each clock the code keeps is tied to the time that really passed.       *)
(***************************************************************************)
EXTENDS Presence, TLAPS

\* The time the remaining seconds of a peer stand for, after the next tick.
Rest(n) == (n - 1) * Second

\* The time the first n questions take.
Asked(n) == n * AskInterval

\* A peer that is online: the time since it was heard and the time it has left
\* add up to the reset time, but for the part of a second that had passed when
\* it was heard; with no more than a probe's interval left it was probed.
PeerClock ==
  \A p \in Peers : online[p] =>
    /\ unseen[p] + peerIn + Rest(secs[p]) <= Rest(PeerReset) + Second
    /\ unseen[p] + peerIn + Rest(secs[p]) > Rest(PeerReset)
    /\ secs[p] <= PeerReset
    /\ p \in probed \/ secs[p] > PeerProbe

\* The silence so far and the time to the deadline add up to the deadlines
\* that have passed.
Waited ==
  \/ silence >= 2 * Period
  \/ phase = "wait" /\ silence + phaseIn >= StartDelay
  \/ phase = "ask" /\ silence + phaseIn >= StartDelay + Asked(round)
  \/ phase = "choose" /\ silence + phaseIn >= 0
  \/ phase = "periodic" /\ misses = 0 /\ silence + phaseIn >= Period
  \/ phase = "periodic" /\ misses = 1 /\ silence + phaseIn >= 2 * Period
  \/ phase = "down"

ClockInv ==
  /\ PeerClock
  /\ Waited
  /\ peerIn <= Second
  /\ phase = "ask" => round \in 1 .. Rounds
  /\ phase \in {"wait", "ask", "choose"} => misses = 0
  /\ phase # "down" => \A p \in Peers : secs[p] # 0
  /\ phase = "down" => \A p \in Peers : ~online[p]

Inv == PresenceTypeOK /\ ClockInv /\ VersionDurable

-----------------------------------------------------------------------------
(* Arithmetic: the provers see the products only through these lemmas *)

LEMMA RestFacts ==
  ASSUME NEW n \in Int
  PROVE  /\ Rest(n) \in Int
         /\ Rest(n) = Rest(n - 1) + Second
         /\ n = 1 => Rest(n) = 0
         /\ n >= 1 => Rest(n) >= 0
<1>1. Second \in Int /\ Second > 0
  BY PresenceAssumption
<1>2. (n - 1) * Second \in Int /\ (n - 1 - 1) * Second \in Int
  BY <1>1
<1>3. (n - 1) * Second = (n - 1 - 1) * Second + Second
  BY <1>1
<1>4. n = 1 => (n - 1) * Second = 0
  BY <1>1
<1>5. n >= 1 => (n - 1) * Second >= 0
  BY <1>1
<1> QED BY <1>2, <1>3, <1>4, <1>5 DEF Rest

LEMMA AskedFacts ==
  ASSUME NEW n \in Int
  PROVE  /\ Asked(n) \in Int
         /\ Asked(n + 1) = Asked(n) + AskInterval
         /\ Asked(1) = AskInterval
<1>1. AskInterval \in Int
  BY PresenceAssumption
<1>2. n * AskInterval \in Int /\ (n + 1) * AskInterval = n * AskInterval + AskInterval
  BY <1>1
<1>3. 1 * AskInterval = AskInterval
  BY <1>1
<1> QED BY <1>2, <1>3 DEF Asked

LEMMA ProbeAtItself == PeerProbe % PeerProbe = 0
BY PresenceAssumption

\* The constants as the proofs use them.
LEMMA Constants ==
  /\ Second \in Int /\ Second > 0
  /\ PeerProbe \in Int /\ PeerProbe > 0
  /\ PeerReset \in Int /\ PeerReset > PeerProbe
  /\ StartDelay \in Int /\ StartDelay > 0
  /\ AskInterval \in Int /\ AskInterval > 0
  /\ ChooseInterval \in Int /\ ChooseInterval > 0
  /\ Period \in Int /\ Period > 0
  /\ Rounds \in Int /\ Rounds > 0
  /\ MaxLag \in Int /\ MaxLag > 0
  /\ SaveLimit \in Int
  /\ StartDelay + Asked(Rounds) <= 2 * Period
BY PresenceAssumption DEF Asked

LEMMA UptoType ==
  ASSUME NEW t \in Nat
  PROVE  /\ Upto(2 * Period, t) \in 0 .. 2 * Period
         /\ Upto(2 * Period, t) >= 2 * Period \/ Upto(2 * Period, t) = t
BY Constants DEF Upto

-----------------------------------------------------------------------------
(* The start, and the passing of time *)

LEMMA FreshTypes ==
  /\ [p \in Peers |-> PeerReset + 1] \in [Peers -> 0 .. PeerReset + 1]
  /\ [p \in Peers |-> 0] \in [Peers -> 0 .. PeerReset + 1]
  /\ [p \in Peers |-> 0] \in [Peers -> Nat]
  /\ [p \in Peers |-> FALSE] \in [Peers -> BOOLEAN]
  /\ 0 \in 0 .. Rounds /\ 0 \in 0 .. 1 /\ 0 \in 0 .. 2 * Period
  /\ 0 > -MaxLag /\ Second > -MaxLag /\ StartDelay > -MaxLag
<1>1. 0 \in 0 .. PeerReset + 1 /\ PeerReset + 1 \in 0 .. PeerReset + 1
  BY Constants
<1>2. /\ 0 \in 0 .. Rounds /\ 0 \in 0 .. 1 /\ 0 \in 0 .. 2 * Period
      /\ 0 > -MaxLag /\ Second > -MaxLag /\ StartDelay > -MaxLag
  BY Constants
<1> QED BY <1>1, <1>2

LEMMA FreshClock ==
  ASSUME phase' = "wait", round' = 0, misses' = 0, phaseIn' = StartDelay,
         peerIn' = Second, silence' = 0,
         secs' = [p \in Peers |-> PeerReset + 1],
         online' = [p \in Peers |-> FALSE]
  PROVE  ClockInv'
BY Constants DEF ClockInv, PeerClock, Waited

LEMMA InitInv == Init => Inv
<1> SUFFICES ASSUME Init PROVE Inv
  OBVIOUS
<1>1. PresenceTypeOK
  BY FreshTypes, Constants DEF Init, PresenceTypeOK, Phases
<1>2. ClockInv
  BY Constants DEF Init, ClockInv, PeerClock, Waited
<1>3. VersionDurable
  BY DEF Init, VersionDurable
<1> QED BY <1>1, <1>2, <1>3 DEF Inv

LEMMA StartInv ==
  ASSUME Inv, CaptureRecovered \/ Start PROVE Inv'
<1> USE DEF CaptureRecovered, Start, Started
<1>1. PresenceTypeOK'
  BY FreshTypes, Constants DEF Inv, PresenceTypeOK, Phases, file
<1>2. ClockInv'
  BY FreshClock
<1>3. VersionDurable'
  BY DEF Inv, VersionDurable, file
<1> QED BY <1>1, <1>2, <1>3 DEF Inv

LEMMA StopInv ==
  ASSUME Inv, CaptureLost PROVE Inv'
<1> USE DEF CaptureLost, Stopped
<1>1. PresenceTypeOK'
  <2>1. /\ secs' \in [Peers -> 0 .. PeerReset + 1]
        /\ unseen' \in [Peers -> Nat]
        /\ online' \in [Peers -> BOOLEAN]
    BY FreshTypes
  <2>2. /\ running' = running /\ version' = version
        /\ saved' = saved /\ unsaved' = unsaved
    BY DEF file
  <2>3. PresenceTypeOK
    BY DEF Inv
  <2>4. /\ phase' \in Phases /\ maintainer' \in BOOLEAN /\ probed' \subseteq Peers
        /\ round' = 0 /\ misses' = 0 /\ phaseIn' = 0 /\ peerIn' = 0 /\ silence' = 0
    BY DEF Phases
  <2>5. 0 \in Int
    OBVIOUS
  <2> HIDE DEF CaptureLost, Stopped
  <2> QED BY <2>1, <2>2, <2>3, <2>4, <2>5, FreshTypes DEF PresenceTypeOK
<1>2. ClockInv'
  BY Constants DEF ClockInv, PeerClock, Waited
<1>3. VersionDurable'
  BY DEF Inv, VersionDurable, file
<1> QED BY <1>1, <1>2, <1>3 DEF Inv

LEMMA ExitInv ==
  ASSUME Inv, SendFails \/ Crash PROVE Inv'
<1>1. running' = FALSE /\ UNCHANGED <<sync, peerIn, peers, file, silence>>
  BY DEF SendFails, Crash
<1> USE <1>1 DEF sync, peers, file
<1>2. PresenceTypeOK'
  BY DEF Inv, PresenceTypeOK
<1>3. ClockInv'
  BY DEF Inv, ClockInv, PeerClock, Waited
<1>4. VersionDurable'
  BY DEF Inv, VersionDurable
<1> QED BY <1>2, <1>3, <1>4 DEF Inv

LEMMA ElapseInv ==
  ASSUME Inv, NEW d \in 1 .. MaxLag, Elapse(d) PROVE Inv'
<1>1. PresenceTypeOK
  BY DEF Inv
<1>2. d \in Nat /\ d > 0 /\ d <= MaxLag
  BY Constants
<1>3. /\ silence' \in 0 .. 2 * Period
      /\ silence' >= 2 * Period \/ silence' = silence + d
  <2>1. silence + d \in Nat
    BY <1>1, <1>2, Constants DEF PresenceTypeOK
  <2> QED BY <2>1, UptoType DEF Elapse
<1>4. \A p \in Peers : unseen[p] \in Nat
  BY <1>1 DEF PresenceTypeOK
<1>5. unseen' \in [Peers -> Nat]
  BY <1>2, <1>4 DEF Elapse
<1>6. PresenceTypeOK'
  BY <1>1, <1>2, <1>3, <1>5, Constants DEF PresenceTypeOK, Elapse, Quiet, file
<1>7. PeerClock'
  <2> SUFFICES ASSUME NEW p \in Peers, online'[p]
               PROVE  /\ unseen'[p] + peerIn' + Rest(secs'[p])
                           <= Rest(PeerReset) + Second
                      /\ unseen'[p] + peerIn' + Rest(secs'[p]) > Rest(PeerReset)
                      /\ secs'[p] <= PeerReset
                      /\ p \in probed' \/ secs'[p] > PeerProbe
    BY DEF PeerClock
  <2>1. unseen'[p] = unseen[p] + d /\ peerIn' = peerIn - d /\ secs' = secs
    BY DEF Elapse
  <2>2. Rest(secs[p]) \in Int /\ peerIn \in Int /\ unseen[p] \in Int
    BY <1>1, <1>4, RestFacts, Constants DEF PresenceTypeOK
  <2>3. unseen'[p] + peerIn' = unseen[p] + peerIn
    BY <1>2, <2>1, <2>2
  <2> QED BY <2>1, <2>3 DEF Inv, ClockInv, PeerClock, Elapse
<1>8. Waited'
  <2>1. silence + d + (phaseIn - d) = silence + phaseIn
    BY <1>1, <1>2, Constants DEF PresenceTypeOK
  <2>2. CASE silence' = silence + d /\ ~(silence >= 2 * Period)
    <3>1. silence' + phaseIn' = silence + phaseIn
      BY <2>1, <2>2 DEF Elapse
    <3> QED BY <2>2, <3>1 DEF Inv, ClockInv, Waited, Elapse
  <2>3. CASE silence' = silence + d /\ silence >= 2 * Period
    BY <1>1, <1>2, <2>3, Constants DEF PresenceTypeOK, Waited
  <2> QED BY <1>3, <2>2, <2>3 DEF Waited
<1>9. ClockInv'
  BY <1>1, <1>2, <1>7, <1>8, Constants
  DEF Inv, ClockInv, PresenceTypeOK, Elapse, Quiet
<1>10. VersionDurable'
  BY DEF Inv, VersionDurable, Elapse, file
<1> QED BY <1>6, <1>9, <1>10 DEF Inv

-----------------------------------------------------------------------------
(* The candidate peers *)

LEMMA LeftFacts ==
  ASSUME Inv, Up, NEW p \in Peers
  PROVE  /\ secs[p] \in 1 .. PeerReset + 1
         /\ Left(p) = secs[p] - 1
         /\ Silent(p) <=> secs[p] = 1
BY Constants DEF Inv, PresenceTypeOK, ClockInv, Up, Left, Silent

LEMMA PeerTickInv ==
  ASSUME Inv, PeerTick PROVE Inv'
<1>1. Up /\ PresenceTypeOK /\ peerIn <= 0
  BY DEF Inv, PeerTick, PeerDue
<1>2. \A p \in Peers : /\ secs'[p] = IF Silent(p) THEN PeerReset ELSE secs[p] - 1
                       /\ secs'[p] \in 1 .. PeerReset + 1
  BY <1>1, LeftFacts, Constants DEF PeerTick
<1>3. PresenceTypeOK'
  <2>1. secs' \in [Peers -> 0 .. PeerReset + 1]
    <3>1. \A p \in Peers :
            (IF Silent(p) THEN PeerReset ELSE Left(p)) \in 0 .. PeerReset + 1
      <4> SUFFICES ASSUME NEW p \in Peers
                   PROVE  (IF Silent(p) THEN PeerReset ELSE Left(p)) \in 0 .. PeerReset + 1
        OBVIOUS
      <4>1. secs[p] \in 1 .. PeerReset + 1 /\ Left(p) = secs[p] - 1
        BY <1>1, LeftFacts
      <4> QED BY <4>1, Constants
    <3> QED BY <3>1 DEF PeerTick
  <2>2. online' \in [Peers -> BOOLEAN] /\ unseen' \in [Peers -> Nat]
    BY <1>1 DEF PresenceTypeOK, PeerTick
  <2>3. peerIn' \in Int /\ peerIn' > -MaxLag
    BY <1>1, Constants DEF PresenceTypeOK, PeerTick
  <2>4. probed' \subseteq Peers
    BY <1>1 DEF PresenceTypeOK, PeerTick
  <2> QED BY <1>1, <2>1, <2>2, <2>3, <2>4 DEF PresenceTypeOK, PeerTick, sync, file
<1>4. PeerClock'
  <2> SUFFICES ASSUME NEW p \in Peers, online'[p]
               PROVE  /\ unseen'[p] + peerIn' + Rest(secs'[p])
                           <= Rest(PeerReset) + Second
                      /\ unseen'[p] + peerIn' + Rest(secs'[p]) > Rest(PeerReset)
                      /\ secs'[p] <= PeerReset
                      /\ p \in probed' \/ secs'[p] > PeerProbe
    BY DEF PeerClock
  <2>1. online[p] /\ ~Silent(p) /\ unseen'[p] = unseen[p] /\ peerIn' = peerIn + Second
    BY DEF PeerTick
  <2>2. secs'[p] = secs[p] - 1 /\ secs[p] \in Int
    BY <1>1, <1>2, <2>1, LeftFacts
  <2>3. Rest(secs[p]) = Rest(secs'[p]) + Second /\ Rest(secs'[p]) \in Int
    BY <2>2, RestFacts
  <2>4. unseen[p] \in Int /\ peerIn \in Int /\ Rest(PeerReset) \in Int
    BY <1>1, RestFacts, Constants DEF PresenceTypeOK
  <2>5. unseen'[p] + peerIn' + Rest(secs'[p]) = unseen[p] + peerIn + Rest(secs[p])
    BY <2>1, <2>3, <2>4, Constants
  <2>6. PeerClock
    BY DEF Inv, ClockInv
  <2>7. p \in probed' \/ secs'[p] > PeerProbe
    <3>1. CASE p \in probed
      BY <3>1 DEF PeerTick
    <3>2. CASE secs'[p] = PeerProbe
      <4>1. Left(p) = PeerProbe
        BY <1>1, <2>2, <3>2, LeftFacts
      <4>2. ProbeDue(p)
        BY <2>1, <4>1, ProbeAtItself DEF ProbeDue
      <4> QED BY <4>2 DEF PeerTick
    <3> QED BY <2>1, <2>2, <2>6, <3>1, <3>2, Constants DEF PeerClock
  <2> QED BY <2>1, <2>2, <2>5, <2>6, <2>7, Constants DEF PeerClock
<1>5. ClockInv'
  <2>1. peerIn' <= Second
    BY <1>1, Constants DEF PresenceTypeOK, PeerTick
  <2>2. \A p \in Peers : secs'[p] # 0
    BY <1>2, Constants
  <2> QED BY <1>1, <1>4, <2>1, <2>2 DEF Inv, ClockInv, Waited, PeerTick, sync, Up
<1>6. VersionDurable'
  BY DEF Inv, VersionDurable, PeerTick, file
<1> QED BY <1>3, <1>5, <1>6 DEF Inv

LEMMA ObserveInv ==
  ASSUME Inv, NEW q \in Peers, ObservePeer(q) PROVE Inv'
<1>1. Quiet /\ PresenceTypeOK
  BY DEF Inv, ObservePeer
<1>2. PresenceTypeOK'
  <2>1. PeerReset \in 0 .. PeerReset + 1
    BY Constants
  <2>2. /\ secs' \in [Peers -> 0 .. PeerReset + 1]
        /\ online' \in [Peers -> BOOLEAN] /\ unseen' \in [Peers -> Nat]
    BY <1>1, <2>1 DEF PresenceTypeOK, ObservePeer
  <2>3. probed' \subseteq Peers
    BY <1>1 DEF PresenceTypeOK, ObservePeer
  <2> QED BY <1>1, <2>2, <2>3 DEF PresenceTypeOK, ObservePeer, sync, file
<1>3. PeerClock'
  <2> SUFFICES ASSUME NEW p \in Peers, online'[p]
               PROVE  /\ unseen'[p] + peerIn' + Rest(secs'[p])
                           <= Rest(PeerReset) + Second
                      /\ unseen'[p] + peerIn' + Rest(secs'[p]) > Rest(PeerReset)
                      /\ secs'[p] <= PeerReset
                      /\ p \in probed' \/ secs'[p] > PeerProbe
    BY DEF PeerClock
  <2>1. CASE p = q
    <3>1. unseen'[p] = 0 /\ secs'[p] = PeerReset /\ peerIn' = peerIn
      BY <1>1, <2>1 DEF PresenceTypeOK, ObservePeer
    <3>2. peerIn \in Int /\ peerIn > 0 /\ peerIn <= Second
      BY <1>1 DEF Quiet, PresenceTypeOK, Inv, ClockInv
    <3>3. Rest(PeerReset) \in Int
      BY RestFacts, Constants
    <3> QED BY <3>1, <3>2, <3>3, Constants
  <2>2. CASE p # q
    <3>1. /\ unseen'[p] = unseen[p] /\ secs'[p] = secs[p] /\ peerIn' = peerIn
          /\ online[p] /\ (p \in probed' <=> p \in probed)
      BY <1>1, <2>2 DEF PresenceTypeOK, ObservePeer
    <3> QED BY <3>1 DEF Inv, ClockInv, PeerClock
  <2> QED BY <2>1, <2>2
<1>4. ClockInv'
  <2>1. \A p \in Peers : secs'[p] # 0
    BY <1>1, Constants DEF Inv, ClockInv, PresenceTypeOK, ObservePeer, Quiet, Up
  <2> QED BY <1>1, <1>3, <2>1 DEF Inv, ClockInv, Waited, ObservePeer, sync, Quiet, Up
<1>5. VersionDurable'
  BY DEF Inv, VersionDurable, ObservePeer, file
<1> QED BY <1>2, <1>4, <1>5 DEF Inv

-----------------------------------------------------------------------------
(* Who maintains *)

LEMMA FileStep ==
  ASSUME Inv, running' = running,
         UNCHANGED file \/ \E v \in Versions : Adopt(v)
  PROVE  /\ version' \in Versions /\ saved' \in Versions /\ unsaved' \in BOOLEAN
         /\ VersionDurable'
<1>1. CASE UNCHANGED file
  BY <1>1 DEF Inv, PresenceTypeOK, VersionDurable, file
<1>2. ASSUME NEW v \in Versions, Adopt(v)
      PROVE  /\ version' \in Versions /\ saved' \in Versions /\ unsaved' \in BOOLEAN
             /\ VersionDurable'
  BY <1>2 DEF Inv, PresenceTypeOK, VersionDurable, Adopt
<1> QED BY <1>1, <1>2

\* What the actions that leave the peers alone have to show.
LEMMA PhaseStep ==
  ASSUME Inv, Up, UNCHANGED <<running, peerIn, peers>>,
         UNCHANGED file \/ \E v \in Versions : Adopt(v),
         phase' \in Phases, phase' # "down", maintainer' \in BOOLEAN,
         round' \in 0 .. Rounds, misses' \in 0 .. 1,
         phaseIn' \in Int, phaseIn' > -MaxLag, silence' \in 0 .. 2 * Period,
         phase' = "ask" => round' \in 1 .. Rounds,
         phase' \in {"wait", "ask", "choose"} => misses' = 0,
         Waited'
  PROVE  Inv'
<1>1. PresenceTypeOK'
  BY FileStep DEF Inv, PresenceTypeOK, peers
<1>2. PeerClock'
  BY DEF Inv, ClockInv, PeerClock, peers
<1>3. ClockInv'
  BY <1>2 DEF Inv, ClockInv, peers, Up
<1>4. VersionDurable'
  BY FileStep
<1> QED BY <1>1, <1>3, <1>4 DEF Inv

LEMMA PhaseTickInv ==
  ASSUME Inv, PhaseTick PROVE Inv'
<1>1. Up /\ PresenceTypeOK /\ Waited /\ phaseIn <= 0 /\ phaseIn > -MaxLag
  BY DEF Inv, ClockInv, PhaseTick, PhaseDue, PresenceTypeOK
<1>2. /\ UNCHANGED <<running, peerIn, peers, file, silence>>
      /\ silence' \in 0 .. 2 * Period /\ silence \in Int /\ phaseIn \in Int
      /\ maintainer \in BOOLEAN /\ misses \in 0 .. 1
      /\ phase \in {"wait", "ask", "choose"} => misses = 0
  BY <1>1 DEF Inv, ClockInv, PhaseTick, PresenceTypeOK
<1>3. round \in 0 .. Rounds /\ (phase = "ask" => round \in 1 .. Rounds)
  BY <1>1 DEF Inv, ClockInv, PresenceTypeOK
<1> DEFINE Long == silence >= 2 * Period
<1>4. CASE StartAsking
  <2>1. Asked(1) = AskInterval
    BY AskedFacts
  <2>2. Long \/ silence' + phaseIn' >= StartDelay + Asked(round')
    BY <1>1, <1>2, <1>4, <2>1, Constants DEF Waited, StartAsking
  <2>3. Waited'
    BY <1>2, <1>4, <2>2 DEF Waited, StartAsking
  <2> QED BY <1>1, <1>2, <1>4, <2>3, PhaseStep, Constants DEF StartAsking, Phases
<1>5. CASE AskAgain
  <2>1. Asked(round + 1) = Asked(round) + AskInterval /\ Asked(round) \in Int
    BY <1>3, AskedFacts, Constants
  <2>2. Long \/ silence' + phaseIn' >= StartDelay + Asked(round')
    BY <1>1, <1>2, <1>5, <2>1, Constants DEF Waited, AskAgain
  <2>3. Waited'
    BY <1>2, <1>5, <2>2 DEF Waited, AskAgain
  <2>4. round' \in 1 .. Rounds
    BY <1>3, <1>5, Constants DEF AskAgain
  <2> QED BY <1>1, <1>2, <1>5, <2>3, <2>4, PhaseStep, Constants DEF AskAgain, Phases
<1>6. CASE Claim
  <2>1. Asked(round) \in Int /\ Asked(round) >= 0
    <3>1. round \in Int /\ round >= 0 /\ AskInterval \in Int /\ AskInterval >= 0
      BY <1>3, Constants
    <3> QED BY <3>1 DEF Asked
  <2>2. Long \/ silence' + phaseIn' >= 0
    BY <1>1, <1>2, <1>6, <2>1, Constants DEF Waited, Claim
  <2>3. Waited'
    BY <1>2, <1>6, <2>2 DEF Waited, Claim
  <2> QED BY <1>1, <1>2, <1>6, <2>3, PhaseStep, Constants DEF Claim, Phases
<1>7. CASE AskVersions
  <2>1. Long \/ silence' + phaseIn' >= 0
    BY <1>1, <1>2, <1>7, Constants DEF Waited, AskVersions
  <2>2. Waited'
    BY <1>2, <1>7, <2>1 DEF Waited, AskVersions
  <2>3. round' \in 0 .. Rounds
    BY <1>3, <1>7, Constants DEF AskVersions
  <2> QED BY <1>1, <1>2, <1>7, <2>2, <2>3, PhaseStep, Constants DEF AskVersions, Phases
<1>8. CASE Settle
  <2>1. Long \/ silence' + phaseIn' >= Period
    BY <1>1, <1>2, <1>8, Constants DEF Waited, Settle
  <2>2. Waited'
    BY <1>2, <1>8, <2>1 DEF Waited, Settle
  <2> QED BY <1>1, <1>2, <1>8, <2>2, PhaseStep, Constants DEF Settle, Phases
<1>9. CASE MissPeriod
  <2>1. misses = 0 /\ misses' = 1
    BY <1>2, <1>9 DEF MissPeriod
  <2>2. Long \/ silence' + phaseIn' >= 2 * Period
    BY <1>1, <1>2, <1>9, <2>1, Constants DEF Waited, MissPeriod
  <2>3. Waited'
    BY <1>2, <1>9, <2>1, <2>2 DEF Waited, MissPeriod
  <2> QED BY <1>1, <1>2, <1>3, <1>9, <2>1, <2>3, PhaseStep, Constants DEF MissPeriod, Phases
<1>10. CASE Broadcast
  <2>1. Long \/ silence' + phaseIn' >= Period
    BY <1>1, <1>2, <1>10, Constants DEF Waited, Broadcast
  <2>2. Waited'
    BY <1>2, <1>10, <2>1 DEF Waited, Broadcast
  <2> QED BY <1>1, <1>2, <1>3, <1>10, <2>2, PhaseStep, Constants DEF Broadcast, Phases
<1> QED BY <1>4, <1>5, <1>6, <1>7, <1>8, <1>9, <1>10 DEF PhaseTick

LEMMA AskReplyInv ==
  ASSUME Inv, ReceiveAskReply PROVE Inv'
<1>1. /\ Up /\ UNCHANGED <<running, peerIn, peers>> /\ Adopt(0)
      /\ phase' = "periodic" /\ misses' = 0 /\ round' = 0
      /\ phaseIn' = Period /\ silence' = 0 /\ maintainer' = FALSE
  BY DEF ReceiveAskReply, Quiet
<1>2. \E v \in Versions : Adopt(v)
  <2>1. 0 \in Versions
    BY PresenceAssumption
  <2> QED BY <1>1, <2>1
<1>3. Waited'
  BY <1>1, Constants DEF Waited
<1>4. /\ phase' \in Phases /\ phase' # "down" /\ phase' \notin {"wait", "ask", "choose"}
      /\ maintainer' \in BOOLEAN
  BY <1>1 DEF Phases
<1>5. /\ round' \in 0 .. Rounds /\ misses' \in 0 .. 1 /\ silence' \in 0 .. 2 * Period
      /\ phaseIn' \in Int /\ phaseIn' > -MaxLag
  BY <1>1, Constants
<1> QED BY <1>1, <1>2, <1>3, <1>4, <1>5, PhaseStep

LEMMA VersionReplyInv ==
  ASSUME Inv, NEW m \in Machines, NEW v \in Versions, ReceiveVersionReply(m, v)
  PROVE  Inv'
<1>1. /\ Up /\ UNCHANGED <<running, phase, round, misses, phaseIn, peerIn, peers,
                           file, silence>>
      /\ maintainer' = FALSE
  BY DEF ReceiveVersionReply, Quiet
<1>2. Waited'
  BY <1>1 DEF Inv, ClockInv, Waited
<1> QED BY <1>1, <1>2, PhaseStep DEF Inv, ClockInv, PresenceTypeOK, Up

LEMMA NormalInv ==
  ASSUME Inv, NEW v \in Versions, ReceiveNormal(v) PROVE Inv'
<1>1. /\ Up /\ UNCHANGED <<running, phase, round, misses, phaseIn, peerIn, peers,
                           silence>>
      /\ Adopt(v) /\ maintainer' = FALSE
  BY DEF ReceiveNormal, Quiet
<1>2. Waited'
  BY <1>1 DEF Inv, ClockInv, Waited
<1> QED BY <1>1, <1>2, PhaseStep DEF Inv, ClockInv, PresenceTypeOK, Up

LEMMA PeriodInv ==
  ASSUME Inv, NEW m \in Machines, NEW v \in Versions, ReceivePeriod(m, v)
  PROVE  Inv'
<1>1. /\ Up /\ UNCHANGED <<running, phase, round, peerIn, peers>>
      /\ phase = "periodic" /\ misses' = 0 /\ phaseIn' = Period /\ silence' = 0
      /\ UNCHANGED file \/ Adopt(v)
  BY DEF ReceivePeriod, Quiet
<1>2. maintainer' \in BOOLEAN
  BY DEF ReceivePeriod, Outranks
<1>3. Waited'
  BY <1>1, Constants DEF Waited
<1>4. phase' \in Phases /\ round' \in 0 .. Rounds
  BY <1>1 DEF Inv, PresenceTypeOK
<1> QED BY <1>1, <1>2, <1>3, <1>4, PhaseStep, Constants

LEMMA NextInv == ASSUME Inv, [Next]_vars PROVE Inv'
<1>1. ASSUME NEW d \in 1 .. MaxLag, Elapse(d) PROVE Inv'
  BY <1>1, ElapseInv
<1>2. CASE PeerTick
  BY <1>2, PeerTickInv
<1>3. CASE PhaseTick
  BY <1>3, PhaseTickInv
<1>4. CASE SendFails \/ Crash
  BY <1>4, ExitInv
<1>5. ASSUME NEW p \in Peers, ObservePeer(p) PROVE Inv'
  BY <1>5, ObserveInv
<1>6. CASE ReceiveAskReply
  BY <1>6, AskReplyInv
<1>7. ASSUME NEW m \in Machines, NEW v \in Versions, ReceiveVersionReply(m, v)
      PROVE  Inv'
  BY <1>7, VersionReplyInv
<1>8. ASSUME NEW v \in Versions, ReceiveNormal(v) PROVE Inv'
  BY <1>8, NormalInv
<1>9. ASSUME NEW m \in Machines, NEW v \in Versions, ReceivePeriod(m, v) PROVE Inv'
  BY <1>9, PeriodInv
<1>10. CASE CaptureLost
  BY <1>10, StopInv
<1>11. CASE CaptureRecovered \/ Start
  BY <1>11, StartInv
<1>12. CASE UNCHANGED vars
  BY <1>12 DEF vars, sync, peers, file, Inv, PresenceTypeOK, ClockInv, PeerClock,
               Waited, VersionDurable
<1> QED BY <1>1, <1>2, <1>3, <1>4, <1>5, <1>6, <1>7, <1>8, <1>9, <1>10, <1>11,
           <1>12 DEF Next

-----------------------------------------------------------------------------
(* What the invariant says of a state and of a step *)

LEMMA RecentFromInv == ASSUME Inv PROVE OnlineIsRecent
<1> SUFFICES ASSUME Quiet, NEW p \in Peers, online[p]
             PROVE  unseen[p] < PeerReset * Second
  BY DEF OnlineIsRecent
<1>1. /\ unseen[p] + peerIn + Rest(secs[p]) <= Rest(PeerReset) + Second
      /\ secs[p] \in Int /\ secs[p] >= 1 /\ peerIn \in Int /\ peerIn > 0
      /\ unseen[p] \in Int
  <2>1. Up /\ PresenceTypeOK
    BY DEF Quiet, Inv
  <2> QED BY <2>1, LeftFacts, Constants
      DEF Inv, ClockInv, PeerClock, PresenceTypeOK, Quiet
<1>2. Rest(secs[p]) \in Int /\ Rest(secs[p]) >= 0
  BY <1>1, RestFacts
<1>3. Rest(PeerReset) + Second = PeerReset * Second /\ Rest(PeerReset) \in Int
  BY Constants DEF Rest
<1> QED BY <1>1, <1>2, <1>3, Constants

Earned ==
  \A p \in Peers :
    online[p] /\ ~online'[p] /\ phase' # "down" /\ running =>
      p \in probed /\ unseen[p] > (PeerReset - 1) * Second

LEMMA EarnedFromInv == ASSUME Inv, [Next]_vars PROVE [Earned]_vars
<1> SUFFICES ASSUME NEW p \in Peers, online[p], ~online'[p], phase' # "down", running
             PROVE  p \in probed /\ unseen[p] > (PeerReset - 1) * Second
  BY DEF Earned
<1>1. phase # "down" /\ Up
  BY DEF Inv, ClockInv, Up
<1>2. CASE PeerTick
  <2>1. secs[p] = 1
    BY <1>1, <1>2, LeftFacts DEF PeerTick
  <2>2. Rest(secs[p]) = 0 /\ Rest(PeerReset) \in Int
    BY <2>1, RestFacts, Constants
  <2>3. /\ unseen[p] + peerIn + Rest(secs[p]) > Rest(PeerReset)
        /\ p \in probed \/ secs[p] > PeerProbe
    BY DEF Inv, ClockInv, PeerClock
  <2>4. unseen[p] \in Int /\ peerIn \in Int /\ peerIn <= 0
    BY <1>2, Constants DEF Inv, PresenceTypeOK, PeerTick, PeerDue
  <2>5. unseen[p] > Rest(PeerReset)
    BY <2>2, <2>3, <2>4
  <2>6. p \in probed
    BY <2>1, <2>3, Constants
  <2> QED BY <2>5, <2>6 DEF Rest
<1>3. ~PeerTick => online' = online
          \/ \E q \in Peers : online' = [online EXCEPT ![q] = TRUE]
  BY <1>1 DEF Next, vars, Elapse, PhaseTick, SendFails, ObservePeer,
     ReceiveAskReply, ReceiveVersionReply, ReceiveNormal, ReceivePeriod,
     CaptureLost, Stopped, CaptureRecovered, Crash, Start, peers
<1>4. ASSUME NEW q \in Peers, online' = [online EXCEPT ![q] = TRUE] PROVE FALSE
  BY <1>4 DEF Inv, PresenceTypeOK
<1> QED BY <1>2, <1>3, <1>4

Claimed ==
  ~maintainer /\ maintainer' =>
    \/ phase = "ask" /\ silence >= StartDelay + Rounds * AskInterval
    \/ phase = "periodic" /\ silence >= 2 * Period
    \/ \E m \in Machines, v \in Versions :
         v < version /\ ReceivePeriod(m, v)

LEMMA ClaimFromInv == ASSUME Inv, [Next]_vars PROVE [Claimed]_vars
<1> SUFFICES ASSUME ~maintainer, maintainer'
             PROVE  \/ phase = "ask" /\ silence >= StartDelay + Rounds * AskInterval
                    \/ phase = "periodic" /\ silence >= 2 * Period
                    \/ \E m \in Machines, v \in Versions :
                         v < version /\ ReceivePeriod(m, v)
  BY DEF Claimed
<1>1. PresenceTypeOK /\ Waited
  BY DEF Inv, ClockInv
<1>2. CASE PhaseTick
  <2>1. phaseIn <= 0 /\ phaseIn \in Int /\ silence \in Int
    BY <1>1, <1>2, Constants DEF PhaseTick, PhaseDue, PresenceTypeOK
  <2>2. Claim \/ Broadcast
    BY <1>2 DEF PhaseTick, StartAsking, AskAgain, AskVersions, Settle, MissPeriod
  <2>3. CASE Claim
    <3>1. phase = "ask" /\ round = Rounds
      BY <2>3, Constants DEF Inv, ClockInv, Claim
    <3>2. silence >= StartDelay + Asked(Rounds)
      <4>1. Asked(Rounds) \in Int
        BY AskedFacts, Constants
      <4> QED BY <1>1, <2>1, <3>1, <4>1, Constants DEF Waited
    <3> QED BY <3>1, <3>2 DEF Asked
  <2>4. CASE Broadcast
    <3>1. phase = "periodic" /\ misses = 1
      BY <1>1, <2>4 DEF Broadcast, PresenceTypeOK
    <3> QED BY <1>1, <2>1, <3>1, Constants DEF Waited
  <2> QED BY <2>2, <2>3, <2>4
<1>3. ASSUME NEW m \in Machines, NEW v \in Versions, ReceivePeriod(m, v)
      PROVE  v < version
  BY <1>1, <1>3, PresenceAssumption DEF ReceivePeriod, Outranks, PresenceTypeOK
<1>4. CASE ~PhaseTick /\ ~(\E m \in Machines, v \in Versions : ReceivePeriod(m, v))
  BY <1>4 DEF Next, vars, sync, Elapse, PeerTick, SendFails, ObservePeer,
     ReceiveAskReply, ReceiveVersionReply, ReceiveNormal,
     CaptureLost, Stopped, CaptureRecovered, Crash, Start, Started
<1> QED BY <1>2, <1>3, <1>4

-----------------------------------------------------------------------------
(* What every behaviour of the daemon keeps *)

\* The invariant holds from the first start on, through lost captures, crashes
\* and any frames, for any intervals and any lateness of the loop.
THEOREM PresenceInvariant == Spec => []Inv
<1>1. Inv /\ [Next]_vars => Inv'
  BY NextInv
<1> QED BY InitInv, <1>1, PTL DEF Spec

\* Phases, rounds, misses and seconds stay within the ranges the code compares
\* them with.
THEOREM PresenceTypes == Spec => []PresenceTypeOK
<1>1. Inv => PresenceTypeOK
  BY DEF Inv
<1> QED BY <1>1, PresenceInvariant, PTL

\* A peer is reported online only if a frame of it arrived within the reset time
\* (gvs_presence.c:191-213).
THEOREM OnlineRecent == Spec => []OnlineIsRecent
<1>1. Inv => OnlineIsRecent
  BY RecentFromInv
<1> QED BY <1>1, PresenceInvariant, PTL

\* No peer is taken offline early or without a probe (gvs_presence.c:48-74).
THEOREM OfflineOnlyEarned == Spec => OfflineEarned
<1>1. Inv /\ [Next]_vars => [Earned]_vars
  BY EarnedFromInv
<1> QED BY <1>1, PresenceInvariant, PTL DEF Spec, OfflineEarned, Earned

\* A terminal makes itself the maintainer only on the three grounds the code
\* has, each after the full time (gvs_presence.c:77-132, 326-374).
THEOREM ClaimOnlyEarned == Spec => ClaimEarned
<1>1. Inv /\ [Next]_vars => [Claimed]_vars
  BY ClaimFromInv
<1> QED BY <1>1, PresenceInvariant, PTL DEF Spec, ClaimEarned, Claimed

\* The state file can always be loaded, and holds the version in use unless a
\* save failed (runtime_service.c:1614-1628).
THEOREM VersionIsDurable == Spec => []VersionDurable
<1>1. Inv => VersionDurable
  BY DEF Inv
<1> QED BY <1>1, PresenceInvariant, PTL

=============================================================================
