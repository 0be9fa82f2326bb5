------------------------------ MODULE Presence ------------------------------
(***************************************************************************)
(* One indoor terminal among the terminals of its flat: gvs_presence.c,    *)
(* which keeps every candidate peer online for as long as it is heard and  *)
(* settles which terminal maintains the shared settings, behind            *)
(* gvs_runtime_sync.c and the version kept by gvs_sync_state.c.            *)
(*                                                                         *)
(* Time is relative: peerIn and phaseIn are next_peer_tick_ms and          *)
(* next_phase_ms less the clock.  The loop of runtime_service.c ticks      *)
(* before it handles a frame, at the same instant; df_gvs_presence_tick    *)
(* serves every deadline that is due and commits after each, so a deadline *)
(* is one action here and nothing else happens while one is due (Quiet).   *)
(* The clock is monotonic and far from its end: those checks never fail.   *)
(*                                                                         *)
(* The other terminals are the environment.  Their frames are the ones     *)
(* that reach the state machine, with any version; a frame that is refused *)
(* changes nothing.  The values of the shared settings (gvs_sync.c) and    *)
(* resend_local, which the daemon only logs, are left out.                 *)
(***************************************************************************)
EXTENDS Integers

CONSTANTS
  Peers,          \* the other terminals and managers of the flat
  Machines,       \* last address byte of the other terminals, as int8_t
  Me,             \* the last byte of identity
  Versions,       \* the versions of a frame, a uint16_t
  SaveLimit,      \* 60000: the highest version that is saved or loaded
  Second,         \* the interval of peer ticks, in units of the clock
  PeerReset,      \* DF_GVS_PEER_RESET_SECONDS
  PeerProbe,      \* DF_GVS_PEER_PROBE_SECONDS
  StartDelay,     \* DF_GVS_SYNC_START_DELAY_MS
  AskInterval,    \* DF_GVS_SYNC_ASK_INTERVAL_MS
  ChooseInterval, \* DF_GVS_SYNC_CHOOSE_INTERVAL_MS
  Period,         \* DF_GVS_PERIODIC_SYNC_INTERVAL_MS
  Rounds,         \* DF_GVS_SYNC_ROUNDS
  MaxLag          \* bound: how late the loop may come round

ASSUME PresenceAssumption ==
  /\ Machines \subseteq Int
  /\ Me \in Int \ Machines
  /\ Versions \subseteq Nat /\ 0 \in Versions
  /\ SaveLimit \in Nat
  /\ Second \in Nat \ {0}
  /\ PeerProbe \in Nat \ {0}
  /\ PeerReset \in Nat /\ PeerReset > PeerProbe
  /\ StartDelay \in Nat \ {0}
  /\ AskInterval \in Nat \ {0}
  /\ ChooseInterval \in Nat \ {0}
  /\ Period \in Nat \ {0}
  /\ Rounds \in Nat \ {0}
  /\ StartDelay + Rounds * AskInterval <= 2 * Period
  /\ MaxLag \in Nat \ {0}

VARIABLES
  running,    \* the daemon is up
  phase, maintainer, version, round, misses,  \* struct df_gvs_presence
  phaseIn, peerIn,
  secs,       \* peers[].seconds_remaining
  online,     \* peers[].online
  saved,      \* the version in the state file
  unsaved,    \* ghost: the last save of this daemon failed
  silence,    \* ghost: time since the start, or a frame that made this
              \* terminal wait for another, up to two periods
  unseen,     \* ghost: time since a peer that is online was heard
  probed      \* ghost: peers probed since they were heard

sync == <<phase, maintainer, round, misses, phaseIn>>
peers == <<secs, online, unseen, probed>>
file == <<version, saved, unsaved>>
vars == <<running, sync, peerIn, peers, file, silence>>

Phases == {"down", "wait", "ask", "choose", "periodic"}

-----------------------------------------------------------------------------
(* Start, stop and the passing of time *)

Started ==
  /\ phase' = "wait"
  /\ maintainer' = FALSE
  /\ round' = 0
  /\ misses' = 0
  /\ phaseIn' = StartDelay
  /\ peerIn' = Second
  /\ secs' = [p \in Peers |-> PeerReset + 1]
  /\ online' = [p \in Peers |-> FALSE]
  /\ unseen' = [p \in Peers |-> 0]
  /\ probed' = {}
  /\ silence' = 0

Stopped ==
  /\ phase' = "down"
  /\ maintainer' = FALSE
  /\ round' = 0
  /\ misses' = 0
  /\ phaseIn' = 0
  /\ peerIn' = 0
  /\ secs' = [p \in Peers |-> 0]
  /\ online' = [p \in Peers |-> FALSE]
  /\ unseen' = [p \in Peers |-> 0]
  /\ probed' = {}
  /\ silence' = 0

Init ==
  /\ running = TRUE
  /\ phase = "wait" /\ maintainer = FALSE /\ round = 0 /\ misses = 0
  /\ phaseIn = StartDelay /\ peerIn = Second
  /\ secs = [p \in Peers |-> PeerReset + 1]
  /\ online = [p \in Peers |-> FALSE]
  /\ unseen = [p \in Peers |-> 0]
  /\ probed = {}
  /\ saved \in {v \in Versions : v <= SaveLimit}
  /\ version = saved /\ unsaved = FALSE
  /\ silence = 0

\* The capture is open, so the loop ticks and receives.
Up == running /\ phase # "down"
Quiet == Up /\ peerIn > 0 /\ phaseIn > 0

Upto(limit, t) == IF t < limit THEN t ELSE limit

Elapse(d) ==
  /\ Quiet
  /\ phaseIn' = phaseIn - d
  /\ peerIn' = peerIn - d
  /\ silence' = Upto(2 * Period, silence + d)
  /\ unseen' = [p \in Peers |-> IF online[p] THEN unseen[p] + d ELSE 0]
  /\ UNCHANGED <<running, phase, maintainer, round, misses, secs, online,
                 probed, file>>

-----------------------------------------------------------------------------
(* The candidate peers *)

PeerDue == Up /\ peerIn <= 0 /\ peerIn <= phaseIn

Left(p) == IF secs[p] > 0 THEN secs[p] - 1 ELSE 0
Silent(p) == Left(p) = 0
ProbeDue(p) == ~Silent(p) /\ Left(p) % PeerProbe = 0

\* Broken on purpose: a peer whose time is up is reset but stays online.
PeerTickOnline ==
  /\ PeerDue
  /\ peerIn' = peerIn + Second
  /\ secs' = [p \in Peers |-> IF Silent(p) THEN PeerReset ELSE Left(p)]
  /\ probed' = probed \cup {p \in Peers : ProbeDue(p)}
  /\ UNCHANGED <<running, sync, online, unseen, file, silence>>

PeerTick ==
  /\ PeerDue
  /\ peerIn' = peerIn + Second
  /\ secs' = [p \in Peers |-> IF Silent(p) THEN PeerReset ELSE Left(p)]
  /\ online' = [p \in Peers |-> online[p] /\ ~Silent(p)]
  /\ unseen' = [p \in Peers |-> IF Silent(p) THEN 0 ELSE unseen[p]]
  /\ probed' = probed \cup {p \in Peers : ProbeDue(p)}
  /\ UNCHANGED <<running, sync, file, silence>>

\* Broken on purpose: a peer that answers keeps what was left of its time.
ObservePeerUnrefreshed(p) ==
  /\ Quiet
  /\ online' = [online EXCEPT ![p] = TRUE]
  /\ unseen' = [unseen EXCEPT ![p] = 0]
  /\ probed' = probed \ {p}
  /\ UNCHANGED <<running, sync, peerIn, secs, file, silence>>

\* A probe (07/01) or the answer to one (07/81) from a candidate.
ObservePeer(p) ==
  /\ Quiet
  /\ online' = [online EXCEPT ![p] = TRUE]
  /\ secs' = [secs EXCEPT ![p] = PeerReset]
  /\ unseen' = [unseen EXCEPT ![p] = 0]
  /\ probed' = probed \ {p}
  /\ UNCHANGED <<running, sync, peerIn, file, silence>>

-----------------------------------------------------------------------------
(* Who maintains: asking, choosing, and the periodic broadcast *)

PhaseDue == Up /\ phaseIn <= 0 /\ phaseIn < peerIn

StartAsking ==
  /\ phase = "wait"
  /\ phase' = "ask"
  /\ round' = 1
  /\ phaseIn' = phaseIn + AskInterval
  /\ UNCHANGED <<maintainer, misses>>

AskAgain ==
  /\ phase = "ask" /\ round < Rounds
  /\ round' = round + 1
  /\ phaseIn' = phaseIn + AskInterval
  /\ UNCHANGED <<phase, maintainer, misses>>

Claim ==
  /\ phase = "ask" /\ round >= Rounds
  /\ phase' = "choose"
  /\ maintainer' = TRUE
  /\ round' = 1
  /\ phaseIn' = phaseIn + ChooseInterval
  /\ UNCHANGED misses

AskVersions ==
  /\ phase = "choose" /\ round < Rounds
  /\ round' = round + 1
  /\ phaseIn' = phaseIn + ChooseInterval
  /\ UNCHANGED <<phase, maintainer, misses>>

\* Broken on purpose: who settles maintains, whatever was answered.
SettleAnyway ==
  /\ phase = "choose" /\ round >= Rounds
  /\ phase' = "periodic"
  /\ round' = 0
  /\ maintainer' = TRUE
  /\ phaseIn' = phaseIn + Period
  /\ UNCHANGED misses

Settle ==
  /\ phase = "choose" /\ round >= Rounds
  /\ phase' = "periodic"
  /\ round' = 0
  /\ phaseIn' = phaseIn + Period
  /\ UNCHANGED <<maintainer, misses>>

MissPeriod ==
  /\ phase = "periodic" /\ ~maintainer /\ misses + 1 < 2
  /\ misses' = misses + 1
  /\ phaseIn' = phaseIn + Period
  /\ UNCHANGED <<phase, maintainer, round>>

Broadcast ==
  /\ phase = "periodic" /\ (maintainer \/ misses + 1 >= 2)
  /\ maintainer' = TRUE
  /\ misses' = 0
  /\ phaseIn' = phaseIn + Period
  /\ UNCHANGED <<phase, round>>

PhaseTick ==
  /\ PhaseDue
  /\ \/ StartAsking \/ AskAgain \/ Claim
     \/ AskVersions \/ Settle
     \/ MissPeriod \/ Broadcast
  /\ UNCHANGED <<running, peerIn, peers, file, silence>>

\* The phase tick sends in every case but Settle and MissPeriod.
Transmits ==
  \/ phase \in {"wait", "ask"}
  \/ phase = "choose" /\ round < Rounds
  \/ phase = "periodic" /\ (maintainer \/ misses + 1 >= 2)

\* A frame that cannot be sent fails the tick and ends the daemon.
SendFails ==
  /\ \/ PeerDue /\ \E p \in Peers : ProbeDue(p)
     \/ PhaseDue /\ Transmits
  /\ running' = FALSE
  /\ UNCHANGED <<sync, peerIn, peers, file, silence>>

-----------------------------------------------------------------------------
(* The frames of the other terminals, and the version that survives *)

\* Broken on purpose: a version is saved whatever a later start can load.
AdoptUnchecked(v) ==
  /\ version' = v
  /\ \/ v = version /\ UNCHANGED <<saved, unsaved>>
     \/ v # version /\ saved' = v /\ unsaved' = FALSE
     \/ v # version /\ unsaved' = TRUE /\ UNCHANGED saved

\* The version of the frame is taken over, and saved when it is a change.
Adopt(v) ==
  /\ version' = v
  /\ \/ v = version /\ UNCHANGED <<saved, unsaved>>
     \/ v # version /\ v <= SaveLimit /\ saved' = v /\ unsaved' = FALSE
     \/ v # version /\ unsaved' = TRUE /\ UNCHANGED saved

\* 91/81 answers the question: another terminal maintains.
ReceiveAskReply ==
  /\ Quiet /\ phase = "ask"
  /\ phase' = "periodic"
  /\ maintainer' = FALSE
  /\ misses' = 0
  /\ round' = 0
  /\ phaseIn' = Period
  /\ Adopt(0)
  /\ silence' = 0
  /\ UNCHANGED <<running, peerIn, peers>>

\* 91/82 from a terminal that comes first.
ReceiveVersionReply(m, v) ==
  /\ Quiet /\ phase = "choose"
  /\ v >= version /\ m < Me
  /\ maintainer' = FALSE
  /\ UNCHANGED <<running, phase, round, misses, phaseIn, peerIn, peers, file,
                 silence>>

\* Broken on purpose: it postpones the deadline, as a broadcast does.
ReceiveNormalPostponing(v) ==
  /\ Quiet /\ phase = "periodic"
  /\ maintainer' = FALSE
  /\ phaseIn' = Period
  /\ Adopt(v)
  /\ UNCHANGED <<running, phase, round, misses, peerIn, peers, silence>>

\* 91/03, one setting that was changed elsewhere.
ReceiveNormal(v) ==
  /\ Quiet /\ phase = "periodic"
  /\ maintainer' = FALSE
  /\ Adopt(v)
  /\ UNCHANGED <<running, phase, round, misses, phaseIn, peerIn, peers,
                 silence>>

\* The broadcast of terminal m leaves this one the maintainer.
Outranks(m, v) ==
  \/ version > v
  \/ maintainer /\ version = v /\ Me <= m

\* 91/03, the broadcast of a maintainer.
ReceivePeriod(m, v) ==
  /\ Quiet /\ phase = "periodic"
  /\ maintainer' = Outranks(m, v)
  /\ IF maintainer /\ version < v THEN Adopt(v) ELSE UNCHANGED file
  /\ misses' = 0
  /\ phaseIn' = Period
  /\ silence' = 0
  /\ UNCHANGED <<running, phase, round, peerIn, peers>>

-----------------------------------------------------------------------------
(* Losing the capture, ending and starting again *)

CaptureLost ==
  /\ Quiet
  /\ Stopped
  /\ UNCHANGED <<running, file>>

CaptureRecovered ==
  /\ running /\ phase = "down"
  /\ Started
  /\ UNCHANGED <<running, file>>

\* The process ends, at any point; what it had in memory is lost.
Crash ==
  /\ running
  /\ running' = FALSE
  /\ UNCHANGED <<sync, peerIn, peers, file, silence>>

Start ==
  /\ ~running /\ saved <= SaveLimit
  /\ running' = TRUE
  /\ Started
  /\ version' = saved
  /\ unsaved' = FALSE
  /\ UNCHANGED saved

Next ==
  \/ \E d \in 1 .. MaxLag : Elapse(d)
  \/ PeerTick
  \/ PhaseTick
  \/ SendFails
  \/ \E p \in Peers : ObservePeer(p)
  \/ ReceiveAskReply
  \/ \E m \in Machines, v \in Versions : ReceiveVersionReply(m, v)
  \/ \E v \in Versions : ReceiveNormal(v)
  \/ \E m \in Machines, v \in Versions : ReceivePeriod(m, v)
  \/ CaptureLost
  \/ CaptureRecovered
  \/ Crash
  \/ Start

Spec == Init /\ [][Next]_vars

\* Time passes and the loop of a daemon that is up comes round.
FairSpec ==
  /\ Spec
  /\ WF_vars(\E d \in 1 .. MaxLag : Elapse(d))
  /\ WF_vars(PeerTick)
  /\ WF_vars(PhaseTick)

-----------------------------------------------------------------------------
(* Properties *)

\* The fields keep their ranges through late ticks, frames and restarts: the
\* two counters of the phases stay within the rounds and misses the code
\* compares them with (gvs_presence.c:77-132).
PresenceTypeOK ==
  /\ running \in BOOLEAN /\ unsaved \in BOOLEAN
  /\ phase \in Phases /\ maintainer \in BOOLEAN
  /\ version \in Versions /\ saved \in Versions
  /\ round \in 0 .. Rounds /\ misses \in 0 .. 1
  /\ phaseIn \in Int /\ phaseIn > -MaxLag
  /\ peerIn \in Int /\ peerIn > -MaxLag
  /\ secs \in [Peers -> 0 .. PeerReset + 1]
  /\ online \in [Peers -> BOOLEAN]
  /\ silence \in 0 .. 2 * Period
  /\ unseen \in [Peers -> Nat]
  /\ probed \subseteq Peers

\* A peer is reported online only if a frame of it arrived within the last
\* DF_GVS_PEER_RESET_SECONDS, however its frames and the ticks interleave and
\* however late a tick is, once the tick is done (gvs_presence.c:191-213).
OnlineIsRecent ==
  Quiet => \A p \in Peers : online[p] => unseen[p] < PeerReset * Second

\* A peer goes offline only after it was probed and left at least one second
\* short of the full time to answer: no tick takes it offline early
\* (gvs_presence.c:48-74).
OfflineEarned ==
  [][\A p \in Peers :
       online[p] /\ ~online'[p] /\ phase' # "down" /\ running =>
         p \in probed /\ unseen[p] > (PeerReset - 1) * Second]_vars

\* A terminal makes itself the maintainer only when all its questions went
\* unanswered for their time, when it heard no broadcast for two periods, or
\* when a broadcast shows a lower version than its own; losing to another
\* terminal is not forgotten at any other step (gvs_presence.c:77-132, 326-374).
ClaimEarned ==
  [][~maintainer /\ maintainer' =>
       \/ phase = "ask" /\ silence >= StartDelay + Rounds * AskInterval
       \/ phase = "periodic" /\ silence >= 2 * Period
       \/ \E m \in Machines, v \in Versions :
            v < version /\ ReceivePeriod(m, v)]_vars

\* The version in the file is the one in use unless a save failed, and a start
\* can always load it, whatever versions other terminals announce
\* (runtime_service.c:1614-1628, gvs_sync_state.c:36-50).
VersionDurable ==
  /\ saved <= SaveLimit
  /\ running /\ ~unsaved => saved = version

\* Left alone, a terminal ends as the maintainer: the start cannot be drawn out
\* and single changes do not keep a follower waiting (gvs_presence.c:113-127).
LeftAloneMaintains ==
  Up /\ silence > 0 ~>
    \/ phase = "periodic" /\ maintainer
    \/ silence = 0
    \/ ~Up

=============================================================================
