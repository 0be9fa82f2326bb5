------------------------------ MODULE CallMedia ------------------------------
(***************************************************************************)
(* The media sessions that calls use, as media_session_manager.c keeps them: *)
(* at most one session per registered station, each with a generation of    *)
(* its own that is never the generation of the call.  The operators return   *)
(* whether the manager accepted the request and the sessions it leaves.      *)
(*                                                                         *)
(* What the monitor of a session makes of the frames and the video of its    *)
(* station is left to chance: MediaChanges lists what it can come to.        *)
(***************************************************************************)
EXTENDS CallSession, FiniteSets

CONSTANTS
  Registered,       \* the stations of the configuration, all enabled
  Capacity,         \* media sessions that fit, max_encoders
  PreemptPreviews,  \* overload_policy is DF_MEDIA_OVERLOAD_STOP_OLDEST_PREVIEW
  MediaFaults,      \* what happens to a session unasked
  MaxMedia          \* stands for UINT64_MAX, where the manager stops counting

ASSUME MediaAssumption ==
  /\ Registered \subseteq Stations
  /\ Capacity \in Nat \ {0}
  /\ PreemptPreviews \in BOOLEAN
  /\ MediaFaults \subseteq {"gone", "live", "failed", "stopping", "unconfirmed"}
  /\ MaxMedia \in Nat \ {0}

MediaGenerations == 0 .. MaxMedia

ReleaseReasons == {"local_hangup", "peer_hangup", "session_timeout",
                   "confirmation_timeout", "preempted", "runtime_reset", "unknown"}

\* `confirmed` is what DF_MEDIA_OUTBOUND_CHECK asks of a preview; `pending` is
\* the release that could not stop its encoder yet.
MediaSessions == [active : BOOLEAN, generation : MediaGenerations,
                  purpose : {"preview", "call"}, handoff : BOOLEAN,
                  call : Generations, sent : BOOLEAN, viewer : BOOLEAN,
                  confirmed : BOOLEAN, state : {"live", "stopping", "failed"},
                  pending : ReleaseReasons \cup {"none"}]

NoMedia == [active |-> FALSE, generation |-> 0, purpose |-> "preview",
            handoff |-> FALSE, call |-> 0, sent |-> FALSE, viewer |-> FALSE,
            confirmed |-> FALSE, state |-> "live", pending |-> "none"]

NewMedia(generation, purpose, call) ==
  [NoMedia EXCEPT !.active = TRUE, !.generation = generation,
                  !.purpose = purpose, !.call = call]

Used(media) == {p \in Registered : media[p].active}
Calling(media) == {p \in Used(media) : media[p].purpose = "call"}
Previews(media) == {p \in Used(media) : media[p].purpose = "preview"}

\* Broken on purpose: takes the key of an earlier session of the station.
KeyedByStation(media, p, generation) == media[p].active

\* The key of a request names the session that is there now.
Keyed(media, p, generation) == media[p].active /\ media[p].generation = generation

Done(ok, media) == [ok |-> ok, media |-> media]

\* A release is only ever repeated for the reason it began with.
Releasable(media, p, generation, call, reason) ==
  /\ Keyed(media, p, generation)
  /\ media[p].pending \in {"none", reason}
  /\ call = media[p].call

\* DF_MEDIA_OUTBOUND_RELEASE* and DF_MEDIA_INCOMING_RELEASE*.  The session is
\* gone, or it stays and remembers its release until its encoder `stops`.
Release(media, p, reason, stops) ==
  Done(stops,
       [media EXCEPT ![p] = IF stops THEN NoMedia
                            ELSE [@ EXCEPT !.pending = reason,
                                           !.state = "stopping",
                                           !.viewer = FALSE]])

ReleaseOutbound(media, p, generation, call, reason, stops) ==
  IF Releasable(media, p, generation, call, reason) /\ media[p].handoff
  THEN Release(media, p, reason, stops)
  ELSE Done(FALSE, media)

\* The binding made by the incoming call is checked first: it holds the same
\* pair of generations as the session it was made for.
ReleaseIncoming(media, p, call, reason, stops) ==
  IF /\ Releasable(media, p, media[p].generation, call, reason)
     /\ media[p].purpose = "call"
     /\ ~media[p].handoff
  THEN Release(media, p, reason, stops)
  ELSE Done(FALSE, media)

\* Broken on purpose: the preview stays bound to the call that never was.
RollbackPurpose(media, p, generation, call) ==
  IF Keyed(media, p, generation) /\ media[p].call = call
  THEN Done(TRUE, [media EXCEPT ![p] = [@ EXCEPT !.purpose = "preview"]])
  ELSE Done(FALSE, media)

Rollback(media, p, generation, call) ==
  IF /\ Keyed(media, p, generation)
     /\ media[p].pending = "none"
     /\ media[p].handoff
     /\ media[p].call = call
     /\ ~media[p].sent
  THEN Done(TRUE, [media EXCEPT ![p] = [@ EXCEPT !.purpose = "preview",
                                                 !.handoff = FALSE, !.call = 0]])
  ELSE Done(FALSE, media)

MarkSent(media, p, generation, call) ==
  IF /\ Keyed(media, p, generation)
     /\ media[p].pending = "none"
     /\ media[p].handoff
     /\ media[p].call = call
     /\ call # 0
  THEN Done(TRUE, [media EXCEPT ![p].sent = TRUE])
  ELSE Done(FALSE, media)

BindControl(media, p, generation, call) ==
  IF /\ Keyed(media, p, generation)
     /\ media[p].pending = "none"
     /\ media[p].handoff
     /\ call # 0
     /\ media[p].call \in {0, call}
  THEN Done(TRUE, [media EXCEPT ![p].call = call])
  ELSE Done(FALSE, media)

\* Whether a preview may become the call: `room` stands for the route and the
\* memory that the manager asks for.
Check(media, p, generation, room) ==
  IF ~Keyed(media, p, generation) \/ media[p].pending # "none"
     \/ Calling(media) \ {p} # {}
  THEN "refused"
  ELSE IF media[p].purpose = "call"
  THEN IF media[p].handoff THEN "ok" ELSE "refused"
  ELSE IF ~media[p].confirmed THEN "unconfirmed"
  ELSE IF room THEN "ok" ELSE "refused"

\* The confirmed preview becomes the call and keeps its generation.
Promote(media, p) ==
  IF media[p].handoff THEN media
  ELSE [media EXCEPT ![p] = [@ EXCEPT !.purpose = "call", !.handoff = TRUE,
                                      !.sent = FALSE, !.call = 0]]

StartPreview(media, last, p) ==
  IF media[p].active THEN Done(TRUE, media)
  ELSE IF Cardinality(Used(media)) < Capacity /\ last < MaxMedia
  THEN Done(TRUE, [media EXCEPT ![p] = NewMedia(last + 1, "preview", 0)])
  ELSE Done(FALSE, media)

\* DF_MEDIA_MODULE_COMMAND_STOP.  A session that is already stopping goes at
\* once, any other one when its station agreed.
StopPreview(media, p, generation, stops) ==
  IF ~Keyed(media, p, generation) \/ media[p].pending # "none"
  THEN Done(FALSE, media)
  ELSE IF media[p].state = "live"
  THEN Done(stops, [media EXCEPT ![p] = [@ EXCEPT !.state = "stopping", !.viewer = FALSE,
                                                  !.confirmed = FALSE]])
  ELSE Done(stops, IF stops THEN [media EXCEPT ![p] = NoMedia] ELSE media)

OldestPreview(media) ==
  CHOOSE p \in Previews(media) :
    \A q \in Previews(media) : media[p].generation <= media[q].generation

\* An incoming call takes the session of its station, a free one, or the one of
\* the oldest preview when the configuration lets it.
IncomingMedia(media, last, p, call, works) ==
  LET own  == media[p].active
      next == NewMedia(last + 1, "call", call)
      full == Cardinality(Used(media)) >= Capacity
  IN IF own /\ media[p].purpose = "call" /\ media[p].pending = "none"
        /\ Calling(media) = {p} /\ call = media[p].call
     THEN Done(TRUE, media)
     ELSE IF \/ own /\ media[p].pending # "none"
             \/ Calling(media) \ {p} # {}
             \/ own /\ media[p].purpose = "call" /\ call < media[p].call
             \/ last = MaxMedia
             \/ ~works
             \/ ~own /\ full /\ (~PreemptPreviews \/ Previews(media) = {})
     THEN Done(FALSE, media)
     ELSE IF ~own /\ full
     THEN Done(TRUE, [media EXCEPT ![OldestPreview(media)] = NoMedia, ![p] = next])
     ELSE Done(TRUE, [media EXCEPT ![p] = next])

\* The generations the manager has given out after a change.
LastGeneration(last, media) ==
  IF \E p \in Registered : media[p].generation > last THEN last + 1 ELSE last

\* A viewer finds the session live, whatever became of it before; one that leaves
\* a session which publishes does the same.
Viewed(m, watching) ==
  {[m EXCEPT !.viewer = watching, !.state = s] :
     s \in IF watching THEN {"live"} ELSE {m.state, "live"}}

Turned(m, state, confirmed, viewer) ==
  [m EXCEPT !.state = state, !.confirmed = confirmed, !.viewer = viewer]

\* Whether the station has confirmed, and whether somebody watches, later on.
Confirmations(m) ==
  {m.confirmed} \cup (IF m.purpose = "preview" THEN {TRUE} ELSE {})
  \cup (IF "unconfirmed" \in MediaFaults THEN {FALSE} ELSE {})
Watchers(m) == {m.viewer} \cup (IF "failed" \in MediaFaults THEN {FALSE} ELSE {})

\* What the monitor and the encoder can make of a session.
Turns(m) ==
  {Turned(m, s, c, v) :
     s \in {m.state} \cup (MediaFaults \cap {"live", "failed", "stopping"}),
     c \in Confirmations(m), v \in Watchers(m)}

\* What they and the retry of a release can do between two requests.
MediaChanges(m) ==
  IF ~m.active THEN {}
  ELSE IF m.pending # "none" THEN {NoMedia}
  ELSE Turns(m)
       \cup (IF "gone" \in MediaFaults \/ m.state = "stopping" THEN {NoMedia} ELSE {})
=============================================================================
