------------------------------ MODULE Monitor ------------------------------
(***************************************************************************)
(* The monitor of one media session, gvs_monitor.c: how a preview is asked   *)
(* of its station (03/04, confirmed by 03/84), kept alive (03/51), refused    *)
(* (03/50), ended by either side (03/02, 03/82) and asked for again.         *)
(*                                                                         *)
(* Operators over monitor records, in the style of the code's functions: a   *)
(* step or a frame returns the monitor it leaves and what its caller has to   *)
(* do.  Deadlines are not counted: `due` says that the one a step looks at    *)
(* has passed, and an armed deadline is one that can pass.  Keepalives need   *)
(* no state of their own, a confirmed or fed monitor always has the next one  *)
(* armed.  VIEWING is never a state of the monitor here: only the older       *)
(* media_module.c sets it.                                                  *)
(***************************************************************************)
EXTENDS Naturals

CONSTANTS
  LastAttempt,  \* stands for UINT64_MAX, where the monitor stops counting
  BusyLimit     \* DF_GVS_MONITOR_STARTUP/RECOVERY_BUSY_RETRY_LIMIT

ASSUME MonitorAssumption ==
  /\ LastAttempt \in Nat \ {0}
  /\ BusyLimit \in Nat \ {0}

Attempts == 0 .. LastAttempt

MonitorStates == {"idle", "requesting", "awaiting", "publishing", "stopping", "failed"}

\* What a station sends: 03/84, 03/50, 03/51, 03/52, 03/02 with either reason
\* and 03/82.
MonitorFrames == {"confirm", "busy", "keepalive", "alive", "hangup", "ended", "released"}

\* `asked` is request_attempts # 0; `confirm` and `frame` are the armed
\* deadlines of the confirmation and of the first frame.
Monitors ==
  [state : MonitorStates, gen : Attempts, persistent : BOOLEAN,
   grace : BOOLEAN, asked : BOOLEAN, busy : 0 .. BusyLimit,
   confirm : BOOLEAN, frame : BOOLEAN, ready : BOOLEAN, established : BOOLEAN,
   afterStop : BOOLEAN, retryReady : BOOLEAN, waiting : BOOLEAN,
   peerStop : BOOLEAN, stopSent : BOOLEAN]

Quiet ==
  [state |-> "idle", gen |-> 0, persistent |-> FALSE, grace |-> FALSE,
   asked |-> FALSE, busy |-> 0, confirm |-> FALSE, frame |-> FALSE,
   ready |-> FALSE, established |-> FALSE, afterStop |-> FALSE,
   retryReady |-> FALSE, waiting |-> FALSE, peerStop |-> FALSE, stopSent |-> FALSE]

Watching(m) == m.state \in {"requesting", "awaiting", "publishing"}
Receiving(m) == m.state \in {"awaiting", "publishing"}

\* df_gvs_monitor_start_with_generation of a preview.
Asking(gen, grace) ==
  [Quiet EXCEPT !.state = "requesting", !.gen = gen, !.persistent = TRUE,
                !.grace = grace]

\* The call is accepted elsewhere, the monitor only admits its video.
BoundToCall(gen) ==
  [Quiet EXCEPT !.state = "awaiting", !.gen = gen, !.frame = TRUE]

MonitorFailed(m) ==
  [m EXCEPT !.state = "failed", !.confirm = FALSE, !.frame = FALSE,
            !.ready = FALSE, !.afterStop = FALSE, !.retryReady = FALSE,
            !.waiting = FALSE, !.peerStop = FALSE]

\* Leaves the attempt: tells the station, then asks again.
StopToRetry(m) ==
  [m EXCEPT !.state = "stopping", !.confirm = FALSE, !.frame = FALSE,
            !.ready = FALSE, !.afterStop = TRUE, !.retryReady = FALSE,
            !.waiting = FALSE, !.peerStop = FALSE, !.stopSent = FALSE]

CanRetry(m) == m.persistent /\ Watching(m)

CanStop(m, gen) == gen = m.gen /\ Watching(m)

Stopped(m) ==
  [m EXCEPT !.state = "stopping", !.afterStop = FALSE, !.retryReady = FALSE,
            !.waiting = FALSE, !.peerStop = FALSE, !.stopSent = FALSE]

\* The next attempt of a persistent monitor.
NextAttempt(m) ==
  [m EXCEPT !.state = "requesting", !.gen = @ + 1, !.asked = FALSE,
            !.busy = 0, !.ready = FALSE, !.afterStop = FALSE, !.stopSent = FALSE]

\* The station ended the attempt: the next one waits for four seconds.
AfterPeerStop(m) ==
  [NextAttempt(m) EXCEPT !.confirm = FALSE, !.frame = FALSE,
                         !.waiting = FALSE, !.peerStop = TRUE]

Sends(m, what) == [m |-> m, send |-> what]

\* df_gvs_monitor_step.
Step(m, due) ==
  CASE m.state = "requesting" /\ due ->
         Sends([m EXCEPT !.asked = TRUE, !.waiting = FALSE, !.confirm = TRUE], "request")
    [] m.state = "awaiting" /\ m.frame /\ ~m.ready /\ due ->
         Sends(IF m.persistent THEN StopToRetry(m) ELSE MonitorFailed(m), "none")
    [] m.persistent /\ Receiving(m) /\ m.ready /\ due -> Sends(m, "keepalive")
    [] m.state = "stopping" /\ ~m.stopSent ->
         Sends([m EXCEPT !.stopSent = TRUE], "hangup")
    [] m.state = "stopping" /\ m.stopSent /\ due ->
         Sends(IF ~m.afterStop THEN [m EXCEPT !.state = "idle", !.ready = FALSE]
               ELSE IF m.gen = LastAttempt THEN MonitorFailed(m)
               ELSE [NextAttempt(m) EXCEPT !.retryReady = TRUE], "none")
    [] OTHER -> Sends(m, "none")

Nothing(m) ==
  [m |-> m, confirmed |-> FALSE, reply |-> "none", retrying |-> FALSE,
   retryReady |-> FALSE, failed |-> FALSE, stopped |-> FALSE]

\* The confirmation can follow the first frame, which has its own socket.
VideoFirst(m) == m.ready /\ Receiving(m) /\ m.confirm

Accepts(m, frame, due) ==
  CASE frame = "confirm" ->
         ~m.waiting /\ (m.state = "requesting" \/ (VideoFirst(m) /\ ~due))
    [] frame = "busy" ->
         /\ m.state = "requesting"
         /\ ~m.waiting
         /\ (m.grace /\ ~m.established => m.asked)
    [] frame \in {"keepalive", "alive"} -> Watching(m)
    [] frame = "released" -> m.state = "stopping"
    [] OTHER -> \/ Watching(m)
                \/ m.state = "stopping" /\ (m.afterStop => m.gen < LastAttempt)

Confirmed(m) ==
  LET first == m.state = "requesting"
  IN [Nothing([m EXCEPT !.state = IF first THEN "awaiting" ELSE @,
                        !.frame = first \/ m.frame \/ m.state = "awaiting",
                        !.confirm = FALSE, !.busy = 0, !.peerStop = FALSE,
                        !.waiting = FALSE])
        EXCEPT !.confirmed = TRUE]

\* While a new preview has its grace, busy answers only end an attempt once
\* they went on for twelve seconds (`due`); afterwards they are counted.
Refused(m, due) ==
  LET busy == IF m.busy < BusyLimit THEN m.busy + 1 ELSE m.busy
      told == [m EXCEPT !.confirm = FALSE, !.busy = busy]
  IN IF IF m.grace /\ ~m.established THEN due ELSE busy >= BusyLimit
     THEN [Nothing([StopToRetry(told) EXCEPT !.busy = busy]) EXCEPT !.retrying = TRUE]
     ELSE Nothing(told)

\* 03/02 from the station of a preview.  The reason `ended` closes the attempt
\* even while the next one waits; both are answered with 03/82.
PeerEnded(m, frame) ==
  IF m.peerStop
  THEN IF frame = "ended" THEN Nothing(m) ELSE [Nothing(m) EXCEPT !.reply = "released"]
  ELSE IF m.gen = LastAttempt
  THEN [Nothing(MonitorFailed(m)) EXCEPT !.reply = "released", !.failed = TRUE]
  ELSE [Nothing(IF frame = "ended"
                THEN [AfterPeerStop(m) EXCEPT !.waiting = TRUE, !.confirm = m.confirm,
                                              !.afterStop = m.afterStop]
                ELSE [AfterPeerStop(m) EXCEPT !.retryReady = FALSE])
          EXCEPT !.reply = "released", !.retrying = TRUE]

\* 03/02 or 03/82 from the station while the monitor is stopping.
StopAnswered(m, frame) ==
  LET reply == IF frame = "hangup" THEN "released" ELSE "none"
      next  == IF frame = "released"
               THEN [NextAttempt(m) EXCEPT !.retryReady = TRUE, !.peerStop = FALSE]
               ELSE [AfterPeerStop(m) EXCEPT !.retryReady = TRUE]
  IN IF ~m.afterStop
     THEN [Nothing([m EXCEPT !.state = "idle", !.ready = FALSE])
             EXCEPT !.reply = reply, !.stopped = TRUE]
     ELSE IF m.gen = LastAttempt
     THEN [Nothing(MonitorFailed(m)) EXCEPT !.failed = TRUE]
     ELSE [Nothing(next) EXCEPT !.reply = reply, !.retryReady = TRUE]

\* df_gvs_monitor_receive, of a frame that Accepts.
Receive(m, frame, due) ==
  CASE frame = "confirm" -> Confirmed(m)
    [] frame = "busy" -> Refused(m, due)
    [] frame = "keepalive" -> [Nothing(m) EXCEPT !.reply = "alive"]
    [] frame = "alive" -> Nothing(m)
    [] OTHER -> IF m.state = "stopping" THEN StopAnswered(m, frame) ELSE PeerEnded(m, frame)

\* df_gvs_monitor_admit_jpeg.
Admits(m, gen) ==
  /\ gen = m.gen
  /\ ~m.peerStop
  /\ Watching(m)
  /\ ~(m.state = "requesting" /\ m.waiting)

Admitted(m) ==
  [m EXCEPT !.state = IF @ = "requesting" THEN "awaiting" ELSE @,
            !.retryReady = FALSE, !.ready = TRUE, !.established = TRUE]
=============================================================================
