# Formal models of doorfast

doorfast is a daemon that plays the part of an indoor unit (a household's phone) in a GVS
video-intercom network: it rings when a door station calls, places calls to stations, opens doors,
calls elevators, shows their video and carries audio, for clients that reach it over ubus and over a
Unix event stream. This directory holds TLA+ models of that program, the TLC configurations that
check them and the proofs that TLAPS checks. `PROJECT.json` lists every component, run, mutant,
hazard and theorem, and, under `map`, the source lines that every definition stands for.

- [Reading order](#reading-order)
- [The system](#the-system)
- [The models](#the-models)
- [Runs](#runs)
- [Fairness](#fairness)
- [Proofs](#proofs)
- [What was found](#what-was-found)
- [What is not modelled](#what-is-not-modelled)
- [Plan](#plan)

## Reading order

| module | what it is |
|---|---|
| `CallSession` | operators: the call session, its deadline, every control frame that changes them |
| `CallCommands` | operators: command slot, acknowledgement, heartbeat |
| `CallControl` | state machine: call control driven by the main loop, the requests and the packets |
| `CallLifecycle` | the abstract specification that `CallControl` implements |
| `CallControlProofs` | theorems about `CallControl` |
| `CallMedia` | operators: the media sessions as calls use them |
| `StationCall` | state machine: the outbound station call, composed with `CallControl` and `CallMedia` |
| `StationCallProofs` | theorems about `StationCall` |
| `SendQueue` | state machine: replies to presence probes, their queue and their transaction |
| `SendQueueProofs` | theorems about `SendQueue` |
| `Presence` | state machine: one terminal among those of its flat, who maintains, the version that survives |
| `PresenceProofs` | theorems about `Presence` |
| `Monitor` | operators: the watching of one station, its attempts, its retries, its end |
| `MediaSession` | operators: one media session with its encoder child and its publication |
| `MediaManager` | state machine: the media module, all sessions and the calls bound to them |
| `MediaRefinement` | what calls see of `MediaManager`: the refinement mapping to `CallMedia` |
| `MediaProofs` | theorems about `MediaManager`, among them that it implements `CallMedia` |
| `Access` | operators: the request that opens a door |
| `Unlock` | state machine: opening doors, by hand and for a call, with the media sessions it borrows |
| `UnlockProofs` | theorems about `Unlock` |
| `Events` | state machine: an event's way to a client's queue, the relay and the service |
| `Recorder`, `RecorderProofs` | state machine and theorems: the rings of evidence files |
| `Audio` | state machine: listening, from the packets to the files of chunks |
| `Speech` | state machine: speaking, from HTTP requests to the peer |
| `Video` | state machine: pictures put together from fragments, the snapshot |
| `Elevator` | state machine: calling the lift, its position |
| `ServiceProofs` | theorems about `Elevator`, `Speech`, `Video` and `Events` |
| `MCCallControl`, `MCStationCall`, `MCMediaManager`, `MCUnlock`, `MCServices` | instances for TLC; `SendQueue` and `Presence`, and the violation runs of `Unlock` and `Speech`, need none |

Definitions whose comment says `Broken on purpose` or `Mutant of ...` model a plausible bug. Nothing uses them:
`PROJECT.json` says which definition each one replaces and which property then fails, so that every
property is known to be able to fail.

## The system

The daemon is one process with one thread. `df_runtime_service_run` (runtime_service.c:1260-1830) is a loop;
one iteration

1. waits for a captured frame, and reads the clock,
2. serves the ubus requests that have arrived and accepts event clients,
3. ticks media sessions, unlocks and elevator calls,
4. expires the reply queue and steps the send transaction (1343, 1354),
5. ticks presence (1368),
6. steps call control (1376; `df_runtime_call_step`: station call, call control, station call, release
   of the media of an ended call),
7. handles the frame (1525-1808) or, when the capture failed, resets what depended on it (1449-1523).

Nothing is preempted: all the concurrency is between the loop, the clients whose requests it serves at
two places of an iteration, the peers on the network, the encoder processes and the clock. What makes the
code hard is therefore *order*: timers that fire in the same step, a request between a datagram and its
acknowledgement, an acknowledgement of what was already given up, one struct (session, operation, media
session, command slot) that outlives what another struct says of it. The code's answer is everywhere the same:
generations (numbers given out once and compared before every use), copy-then-commit of whole structs,
and clean-ups that may be repeated. The models keep exactly these and ask whether they suffice.

### Components

For each: the state it keeps, its operations, who it talks to, what is hard, and what makes it correct.

**Call session and receive path** (gvs_session.c, gvs_deadline.c, gvs_priority.c, gvs_observer.c,
gvs_receive.c). State: session (state, peer, generation, pick window) and deadline. Operations: begin,
abort, tick, and the frames 03/01 call, 03/02 hangup, 03/03 pick and its answer 03/83, 03/57 time
synchronisation. Hard: a caller of higher rank replaces a ringing call; timers re-armed by peers;
generations that end. Correct: an active call always has a deadline of its own.

**Call commands** (gvs_call_command.c, gvs_call_dispatch.c, gvs_call_ack.c, gvs_call_runtime.c,
gvs_handshake.c). State: one slot with the command to send and its attempts, one acknowledgement, one
heartbeat and its own slot. Operations: enqueue, attempt, retry, cancel; await, resolve, expire; ask, reply.
Hard: a retry or an answer that belongs to a call that is over. Correct: what is sent belongs to the current
call; the slot frees itself.

**Call control and main loop** (gvs_call_control.c, runtime_service.c). State: the above plus the record of
how the last call ended. Operations: step, receive, submit answer, hangup, reset. Hard: five timers in one
step, five writers of one record; an error leaves the loop. Correct: the record is of exactly the call that
ended; no step fails.

**Outbound station call** (runtime_station_call.c). State: one operation (stage, station, the generations
of its media and of its call, what it owns). Operations: admit, install, step, hangup, take-over, reset.
Talks to: call control (same structs), media module, ubus. Hard: a call it placed has no deadline until it is
answered; an incoming call may take over in mid-flight; clean-ups that fail half way; the preview it
made may have found viewers meanwhile. Correct: the call, the operation and the video begin and end together.

**Reply queue and send transaction** (gvs_reply_queue.c, gvs_send_transaction.c). State: up to 16 replies
with their lifetimes; one transaction (attempt, completion id, timers). Operations: enqueue, expire, take; step,
complete. Hard: repeated probes share an entry; late completions; the end of the clock. Correct: each probe is
answered once, or accounted for.

**Presence and runtime synchronisation** (gvs_presence.c, gvs_runtime_sync.c, gvs_sync*.c). State: phase,
role (maintainer or follower), six candidate peers, version of the flat's shared settings, which is persisted. Operations:
start, stop, tick; probe and answer of a peer; the answers 91/81 and 91/82 and the two kinds of 91/03; save and load. Hard:
deadlines that some frames move and others do not; ticks that are late and served all at once; a version that is
adopted but cannot be saved; a send that fails ends the daemon. Correct: a peer is online while it is heard; the role is
taken on good grounds and not left vacant; what was saved can be loaded.

**Access control and unlocking** (gvs_access.c, runtime_unlock.c, part of runtime_ubus.c). State: material, one request, the
operation with the preview it began, its clean-up; the automatic unlock of a call. Operations: begin, send, observe a reply,
tick, unlock by hand, schedule, automatic tick and result. Hard: a station obeys only while it is watched or calls, so an unlock
begins a preview that others may adopt, stop or displace; a reply carries no key; the automatic unlock shares the
record of the operation. Correct: a preview it began is given back unless somebody took it; a reply is for the request
that waits; the automatic unlock hangs up its own call only.

**Elevator control** (gvs_elevator*.c, part of runtime_ubus.c). State: one transaction with one retry, the last position heard,
which call was served. Hard: two clocks in one turn of the loop; repeated frames. Correct: at most two datagrams, one request
per call, a position never from the future.

**Video monitor** (gvs_monitor.c). State: attempts, lease, keepalive and retries of the watching of one station. Hard: video
before the confirmation; late answers; retries begun by either side. Correct: its attempt is the session's.

**Media session manager** (media_session_manager.c, media_session.c, media_encoder.c, media_capacity.c,
media_frame_queue.c). State: at most one session per station, generations, viewers, an encoder child, a
publication. Operations: start, stop, viewer, incoming call, outbound check / promote / bind / sent / rollback /
release, frames, video, tick. Hard: encoders that do not stop, previews preempted, sessions that change purpose, handlers
that fail half way. Correct: no child without an owner; the accounts of manager and runtime agree; a session that
must go goes.

**Media module** (media_module.c, runtime_media_module.c ...): loads the manager as a plug-in, forwards, and keeps which
session a call was given.

**Audio path** (gvs_audio_*.c, gvs_pcm_*.c). State: the owner of the path, a window of packets, silence to be
inserted, the chunk being filled, the files. Hard: numbers that wrap, gaps that a timer closes, files that cannot be
removed. Correct: what is heard is in order, with marked silence for what is missing; the files of an opening are one
chain. The other way: the pump and the transmitter, one generation at a time.

**PCM gateway** (pcm_http*.c, pcm_submit_main.c): one process per HTTP request; a locked state file holds who speaks and
the next frame. Hard: processes that die between a frame and its record, leases, a daemon that starts again. Correct: a frame
is spoken once, by one client.

**Video reassembly and snapshots** (gvs_media*.c, gvs_video_*.c): fragments of one picture at a time, a status, a file.
Hard: numbers that wrap, late fragments, a file that cannot be written or removed. Correct: what clients are told of is what
the file holds.

**Event stream and relay** (event*.c): bounded queues; a slow client is dropped, the relay drops the oldest and retries its
posts. Correct: a connection delivers a run without gaps; no event overtakes another.
**Recorder and evidence** (pcap_ring.c, evidence_*.c, recorder_*.c): three rings of files within a budget. Hard: any file operation
may fail, the process may die between two. Correct: only the oldest segment is lost, to a newer one.
**Control socket** (runtime_ubus.c): requests, connection loss and reconnection, the station scan.
**UDP sender, identity and discovery**, **Capture**, **Configuration**, **Deployment tools**,
**Frame codecs**: I/O, parsing and pure data around these.

The status of each is in `PROJECT.json`.

## The models

Time is relative wherever the code only compares `now - started` with a timeout: a timer is the number of
clock ticks it has left, 0 meaning reached. Only `SendQueue` keeps the absolute clock, because the
code there tests for its end. Numbers that the code stops at UINT64_MAX are bounded by a constant that stands for
it (`MaxGeneration`, `MaxMedia`, `MaxTime`, `MaxId`), so that the bound is a case of the code and no
artefact. A frame is its kind, its source and its destination; parsers are left out. Every operation of a C struct
that is passed by pointer is an operator that returns the new struct.

### CallSession, CallCommands

The session, deadline, slot, acknowledgement and heartbeat as records, one operator per C function
(`ReceiveCall` is `df_gvs_receive_call` ..., `DispatchStep` is `df_gvs_call_dispatch_step` ...). A result is a record
with the new structs and the flags that the C function fills in; `ok` is its status. An operator
that refuses returns what it was given, as the functions that work on copies do.

### CallControl

Variables: `session`, `deadline`, `dispatch`, `ack`, `handshake`, `handshakeDispatch`, `terminal`, `fault` are the
structs the loop owns; `phase` is where in the iteration the loop is; `wire` is the set of commands that the
iteration has handed to the transport. Actions:

| action | code |
|---|---|
| `Answer`, `Hangup` | the ubus requests, for any generation a client may have read |
| `Step` | `df_gvs_call_control_step`: heartbeat, deadline, acknowledgement, heartbeat slot, command slot, with every outcome of the datagrams; commits all or nothing |
| `Receive` | `df_gvs_call_control_receive` of every frame of every caller, also of strangers' calls and other phones' hangups |
| `NoPacket` | no packet or one for another part |
| `CaptureLost` | the reset branch of the loop, and the step that follows it |
| `Tick` | the clock |

Here calls are incoming; the state `preview` of an outbound call only arises in `StationCall`.

`CallLifecycle` is what a client that polls the status may rely on: generations count up, a call rings before it
talks, it ends once, and the record then names that generation and the reason. `CallControl` implements it
(`ImplementsLifecycle`): a step of call control is one lifecycle step or none, though in the code five timers
may fire in one step.

### CallMedia, StationCall

`CallMedia` is the media session manager as a call sees it: per station one session with a
generation, a purpose, the call it is bound to, whether it was announced, whether it has a viewer, whether its stream is confirmed,
and a release that could not finish. What monitor, frames and encoder may do to a session in the meantime
is `MediaChanges`, a nondeterministic choice limited by `MediaFaults`.

`StationCall` adds `op` (`struct df_runtime_station_call_operation`), `media` and `last` to the variables of
`CallControl`, and its actions are those of `CallControl` with the coordinator's calls around them:
`StationCallStep` is `df_runtime_call_step`, `StationReceiveCall` and `StationReceive` are
`df_runtime_receive_control_with_media`, `StationCaptureLost` the reset. New ones are the requests `Admit`, `RequestCall`,
`HangupStation`, `HangupGeneration`, `MonitorStart`, `MonitorViewer`, `MonitorStop`, and `MediaChange`.
The operators take and return a `World` (all structs at once), because the C functions call one another with
pointers to them and the order of the calls matters.

Abstractions worth knowing: `stops` is whether an encoder that is told to stop does so, `works` whether the set-up
of an incoming call's media works, `room` whether a route and memory are there; they are chosen
once per step. What only a repeated clean-up would read (`owns`, `promoted`, `sent`) is forgotten once
the clean-up has succeeded (`Settled`), which keeps the state space small and is not visible. Frames `ask`
are left to the runs of `CallControl`.

### SendQueue

The queue is a set of entries; the number of the probe that made an entry stands for its place. `Enqueue` is
`df_gvs_reply_queue_enqueue`. `Turn` is one iteration's expiry and `df_gvs_send_transaction_step`: `TurnSending`,
`TurnWaiting` and `TurnIdle` are its three branches; `Exit` is the error path that leaves the loop.
`Complete` is `df_gvs_send_transaction_complete`, the answer to an attempt that the sender left pending;
`fate` is what really became of each datagram, which the code learns late or never. The ghost variables `heard`,
`probes` and `gone` only record what the properties speak of.

### Presence

One terminal; the others are the environment, which may send any of its frames with any version at any time. Time is
relative (`phaseIn`, `peerIn`), and `Elapse` lets up to `MaxLag` units pass at once, so that several deadlines can be
overdue together. `df_gvs_presence_tick` serves them one after the other and commits after each; `PeerTick` and
`PhaseTick` are one such round, and `Quiet` keeps everything else out until none is due, because the loop ticks before it
handles a frame of the same instant (runtime_service.c:1368). `PhaseTick` has one disjunct per branch of
`df_gvs_presence_phase_tick`. `SendFails` is the tick whose frame cannot be sent: the daemon leaves its loop. `ObservePeer`
is a probe or an answer of a candidate; of a stranger's probe only the reply exists, which is `SendQueue`'s.
`ReceiveAskReply`, `ReceiveVersionReply`, `ReceiveNormal` and `ReceivePeriod` are the frames that are accepted and change
something. `Adopt` is the change of version with `df_gvs_sync_state_save`, which is atomic (temporary file, rename) and may
fail. `CaptureLost` and `CaptureRecovered` stop and restart presence but keep the version; `Crash` and `Start` lose all
but the file. The ghost variables `silence`, `unseen` and `probed` measure the time that really passed, independently
of the counters in the code; `unsaved` is whether the last save failed.

### Monitor, MediaSession, MediaManager

`Monitor` and `MediaSession` hold the operators on one station's watching (gvs_monitor.c) and on one session with its encoder
(media_session.c, media_encoder.c, media_frame_queue.c). A session record contains its monitor, as the struct does. What a handler
meets is an argument `e`: whether a deadline is due, whether video stalled, whether a send succeeded,
whether the child stops when told to, and what became of a payload that was pushed. A handler returns the session it leaves and whether the
slot becomes free. `MediaManager` has the sessions of all stations, `last` (the generation given out last), `bound`
(`incoming_bindings` of runtime_media_module.c) and the ghost `orphan`; its actions are the entry points of media_session_manager.c:

| action | code |
|---|---|
| `Start`, `Stop`, `View` | `start_monitor_internal` and the requests of clients |
| `Upgrade`, `Bind`, `MarkSent`, `Rollback`, `Release` | the outbound call: promotion of a preview, the control generation, its failure and its end |
| `Incoming`, `ReleaseIncoming` | the call that takes a session over, makes room or preempts the oldest preview |
| `ReceiveControl`, `PushVideo`, `Tick` | frames, payloads and time; one visit of one session each, since the visits of a tick share nothing |

`MediaRefinement` maps each session to what `CallMedia` keeps of it (`CallSide`) and asks that every step of
`MediaManager` is one request of `CallMedia`, one of its `MediaChanges`, or none (`ImplementsCallMedia`). `StationCall` is
built on `CallMedia`, so this is what justifies its abstraction of the media.

### Access, Unlock

`Unlock` has the operation `op` (`struct df_runtime_unlock_operation`, with the preview it began, `mine`), the automatic unlock
`auto`, the request `access` with its `session`, and, as status records, the media sessions `media` and the call. Handlers work on
a record of all of them. `Tick` is one iteration: the automatic unlock, the request's deadline, then the manual unlock, in the order of
runtime_service.c:1308-1329. `Unlock` is the request, `Reply` the station's answer, `ChangeMaterial` new material, and the other
actions are what clients, calls and the media module do in between; `late` stands for the deadline of the
step that the operation is in.

### Events

`Publish`, `Accept`, `Flush` and `DaemonRestart` are the daemon's end (event_stream.c), `Connect`, `Disconnect`, `RelayTurn` and
`RelayRestart` the relay (event_relay.c, event_relay_main.c). An event is its number. A line is two halves, so that a client
may have received half of one when its connection goes. A post may be answered by any status, or its answer may be lost.
`OtherClient` takes slots that the relay then misses.

### Recorder

Three rings (`log`, `recent`, `control`); a ring has its files (time and size per slot), its partial file and its
memory. `Packet` chooses the rings a packet goes to, `Rotate`, `Reopen` and `Write` are the steps of one append, one file operation
each, so that a failure or a `Crash` falls between any two; `Start` opens the rings over whatever it finds, `Close` is the end
of each.

### Audio

`Receive` is `df_runtime_receive_audio_payload`: jitter buffer and playout; `Service` is the loop's turn: gap timer, chunk, its
file, pruning; `Sync` follows the call session as gvs_media_lifecycle.c does. A packet is its number and its
count of samples. `step` records what the last packets appended, for the property.

### Speech

A request of a client is a process: `Arrive` opens and waits for the lock, `OpenSession`, `EndSession` and `Submit` run with
the status the daemon gave, `HandOver` and `Note` alternate for each frame, `Leave` is its end; with `slips` it dies in
between. The life of the daemon in a record is its `runtime_id`; a frame in the socket carries its generation alone, and its life
only for the properties. The ghosts are `spoken` and `again` (frames counted by the call they were submitted for), `strays` (frames
spoken to a call of a later daemon) and `caught` (frames a request had still to hand over when its daemon went). `SpeechTurn` is the pump's turn of the loop, `Move` changes the call, `Expire` is the lease, `Respawn` a new daemon with or
without a new state file. `path` and `files` distinguish the file that has the name from those that were removed but are
still locked.

### Video

`Film` sends a picture in fragments, `Watch` delivers any fragment under way, again if it likes, through
`df_gvs_video_reassembly_push`, the cache and the file; `ViewMoves` is a change of the call, `ViewRestart` a new daemon.

### Elevator

`Turn` is the loop's tick with the time it began at; `Answer`, `Position` and `Call` are the packets a turn handles,
`Wait` is the pause between two replies, in which ubus is served with the time that has come meanwhile, `Lost` an answer that is lost.

## Runs

All state counts are of distinct states; every run that passes ends with an empty queue. A run marked *violation* checks a single
claim of a document, which the code does not keep.

| run | question | size |
|---|---|---|
| `call_control` | Does call control keep its structs sound, and implement the lifecycle, under every interleaving of requests, frames, failures and ticks? Does a hangup end its call, and does the slot free itself, whatever is lost? | 311,968 |
| `call_confirmed` | Does a confirmed answer always mean talking, as a document says? (No.) | violation |
| `station_call` | Do a placed call, its operation and its video begin and end together? Does an operation leave every waiting stage? | 288,068 |
| `station_takeover` | Does cleaning up after one call spare the video of the next? | 414,689 |
| `send_queue` | Is every probe answered once or accounted for, reported truly, and never in the way of the next? | 258,120 |
| `presence` | Are peers online while they are heard, is the role taken rightly and never left vacant, does the version survive? | 404,032 |
| `unlock` | Is every reply taken for its own request, only the right call hung up, and no preview lost, but in the one way there is? | 662,855 |
| `unlock_overwritten` | Does a preview that an unlock began keep its unlock to stop it, as README.md:282 says? (No.) | violation |
| `media_session` | Do sessions, monitors, children and calls agree through every failure, and is it all what `CallMedia` says? | 46,249 |
| `media_liveness` | Does a session that must go free its slot? | 17,511 |
| `services` | The parts beside the call, each by itself: events, recorder, listening, speaking, pictures, lift | 2,382,442 |
| `speech_restart` | Does a restart keep the microphone out of the call that replaces its own, as the audio design says? (No.) | violation |

**Properties of `call_control`.** `DaemonRuns`: no step fails; above all a command never reaches the wire while
another one waits for its acknowledgement, since that is the one condition the step treats as an error. `WireIsCurrent`:
whatever is sent belongs to the call that is current after the timers of the same step. `CallTimed`: a call always has a
deadline of its own generation. `HeartbeatWatches`: after every step the heartbeat watches the current call.
`HangupIsFinal`: an accepted hangup is not undone by another client. `ImplementsLifecycle`: among others, the end of the
last call, and of no other, is on record exactly while no call is active. `HangupEnds`: a call that was hung up ends.
`SlotFrees`: the command slot does not stay taken.

**Properties of the station runs.** `OutboundOwned`: a placed call that nobody has answered has an operation that will
end it. `OwnedMedia`: its video does not outlive it. `AccountsAgree`: the operation and call control tell the same of the same
call. `PeerIsTold`: a station that was told of the call is told of its end. `WatchedPreviewKept`: a preview somebody watches
survives a call that was never announced. `OutcomeStands`: how an operation ended stands until the next one, though clean-ups repeat and incoming calls take over.
`IncomingMediaKept`: cleaning up never reaches the video of the call that replaced it. `OperationMoves`: no stage lasts.

**Properties of `send_queue`.** `ProbesAccounted`: no two replies that wait are for the same probe, each lives from its last
repetition (`OneReplyPerProbe`), and all probes add up to those waiting, in flight and gone (`NothingLost`). `OutcomeTrue`: the outcome
reported is what became of the last datagram. `TransactionEnds`: a reply makes room for the next.

**Properties of `presence`.** `OnlineIsRecent`: a peer is online only if a frame of it arrived within the reset time.
`OfflineEarned`: it goes offline only after a probe and all but a second of that time. `ClaimEarned`: a terminal becomes
the maintainer only when its questions went unanswered for their whole time, when no broadcast was heard for two
periods, or when a broadcast shows a lower version; in particular an election that was lost stays lost.
`VersionDurable`: the file agrees with the version in use unless a save failed, and can always be loaded.
`LeftAloneMaintains`: with no broadcast to hear, a terminal ends as the maintainer, though single changes keep coming.

**Properties of the unlock runs.** `RequestIsItsOwn`: what waits for a reply is what was sent. `HangsUpItsCall`: the automatic
unlock hangs up the call it opened the door for and no other. `PreparationHandedOn`: a preview that an unlock began and nobody
adopted is named by the operation that will stop it, and loses that operation in one way only, when an automatic unlock begins
over a manual one whose request is not out any more. `PreparationOwned`, which `unlock_overwritten` refutes, is what the README of
the repository says: it never does.

**Properties of the media runs.** `AttemptsInStep`: session and monitor, which count attempts separately, are in the same one,
and a picture that an unlock may trust was taken in it. `ChildOwned`: a running child belongs to a publication, and no session goes
while its child is there. `CallsAreBound`: the accounts of manager and runtime agree after every takeover, preemption and
retry. `ImplementsCallMedia`. `LeavingSessionsGo`: a session that is stopping, failed or waiting for a release does not stay so.

**Properties of `services`.** `StreamUnbroken`: a connection delivers consecutive events, and the service never gets an
older one after a younger one. `NewestKept`: a completed segment is lost only to a newer one, and only the oldest
of a full ring. `HeardInOrder`: two packets heard in a row are neighbours or have the right amount of silence between them. `ChunkChain`:
the files of the open generation are one chain that ends at what was written last. `SpokenOnce`: each frame submitted is spoken once and in
order, to whatever call it gets, again only if its request died before recording it. `RestartCutsOff`: what is spoken to a call of a
later daemon than it was submitted to was still to be handed over when its daemon went, and two requests speak under one generation only
if one of them is such a leftover. `HeardWhereSubmitted`, which `speech_restart` refutes, says that nothing at all is. `PictureTrue`: when
clients are told of a picture, the file is one whole picture of the present call and no older than any shown.
`LiftOncePerCall`: one request per call, two datagrams per request, no time that runs backwards.

### Bounds, and why they are enough

- *Callers*: two in `CallControl`, a door and an extension, because rank decides preemption and two ranks give
  every order; two members of the household, because a frame for the sibling is observed too. In `StationCall`
  one registered station and one stranger (`station_call`), or two registered ones of one rank that are
  interchangeable (`station_takeover`, where symmetry is sound: it checks safety only).
- *Calls*: two generations, one to be current and one to be stale; a third would only repeat the relation. The last one also stands for
  UINT64_MAX. `station_call` has one generation: a call placed *or* received, so faults
  and clean-ups are exhaustive; `station_takeover` has two, without sessions that fail unasked and with
  answered incoming calls left out (`CONSTRAINT MCUnanswered`), so that what it asks about, ringing and
  taking over, fits.
- *Timers*: one or two ticks. One tick makes "before", "at" and "after" the limit distinct and lets any set of
  timers expire in the same step; in `call_control` ring and talk last two, so that time
  synchronisation can shorten as well as extend, and commands have two attempts.
- *Media*: capacity one, so that every start competes with what is there, with preemption of previews allowed;
  two media generations.
- *Probes*: three keys and a queue of two make it full; three probes repeat a key before and after its reply was taken; six ticks
  and four completion ids reach both ends of the clock and of the ids.

- *Terminals*: one before and one after the own address, which is all the election compares; versions below, at and
  above the highest one that is saved; two peers, so that one can be mistaken for the other.
- *Intervals of presence*: the order of the real ones is kept (a question takes half a peer tick, a period the longest), with
  a reset time of four seconds and a probe every two; the loop is up to three units late, more than one peer tick, so that two
  peer ticks and a phase are served in one go.

- *Media sessions*: two stations and room for one session, so that starts, calls and preemptions compete; two attempts, the last of
  which stands for UINT64_MAX; two calls. `media_liveness` has one station, since the sessions share nothing in a tick.
- *Unlocks*: two stations, two generations of media, so that a record of an earlier one is stale. `MCUnlock` has two kinds of
  behaviours side by side: with the one encoder of the default configuration and two calls, where calls displace previews; and with room for
  a session of each station, as `media_max_encoders` allows, and one call, where sessions of an unlock and of a call exist at a time. The
  theorems hold for any number of either.
- *Services*: queues and windows of two and three, so that they are full and come round; one more event, packet, picture or frame than
  that; eight sequence numbers of audio and four of pictures, so that they wrap; two lives of a daemon, one request that dies.

Deadlock is checked except where the model really stops: in `send_queue`, where the daemon may leave its loop at the
end of the clock or of the ids; in the media runs, where a generation at its end refuses everything and an idle manager has
nothing to do; and in `services` and `speech_restart`, whose parts stop at their bounds (the last event, packet, call or tick).
Symmetry of the stations is used in `station_takeover`, `unlock` and `media_session`, which check no liveness.

## Fairness

`Fairness` of `CallControl` (and `StationFairness`) has two parts. *The loop turns*: `WF_phase(LoopTurn)`, some step that moves
the loop from one half of its iteration to the other is taken. The loop polls with a timeout, so it
never blocks, and nothing is assumed of which packet arrives, what a datagram's outcome is or what a client requests. *The clock
moves*: `SF(Tick)`, because ticks are enabled only between iterations and `CLOCK_MONOTONIC` does move. No
packet, no answer of a peer and no success of a send is assumed. `SendQueue` has weak fairness of
`Turn` and `Tick` for the same reasons; no completion is assumed. `Presence` has weak fairness of the passing
of time and of the two ticks; no frame, no successful save, no recovery of the capture and no restart is assumed.
`LiveSpec` of `MediaManager` has weak fairness of `Tick(p, Fine)`: the loop ticks for ever, and sooner or later a tick finds the
deadlines passed, the station reachable and the child stoppable. The last two are assumptions about the surroundings (an encoder
that is killed does exit, a socket does not refuse for ever) without which the slot rightly stays taken.

## Proofs

`tlapm` checks all of them; they hold for every value of the constants that satisfies the named assumptions
(`SessionAssumption`, `CommandAssumption`, `MediaAssumption`, `StationAssumption`, `SendAssumption`, `PresenceAssumption`,
`ElevatorAssumption`, `RecorderAssumption`, `SpeechAssumption`, `EventsAssumption`, `MonitorAssumption`, `SessionMediaAssumption`, `ManagerAssumption`,
`AccessAssumption`, `UnlockAssumption`: addresses are distinct, limits and
timeouts are positive, a probe comes before the reset time is over, the questions of the start take less than two periods;
all of which the `#define`s they stand for satisfy).

**CallControlProofs.** `TypeInvariant` (`Spec => []TypeOK`) is inductive as it stands, one lemma per operator and per
action. The safety properties are not: that the step never fails depends on the slot being used exclusively, and on the
deadline. `CallInv` adds `Sound` (an active call has a deadline armed for its own generation and its peer is
a station) and `Exclusive` (a command is never both queued and awaited). `CallInvariant` proves it; `StepNeverFails`
and `EveryCallIsTimed` follow. The one interesting case is the step: the timers may end the call, the
acknowledgement may expire and the command may be sent in the same step, and `StepDispatchSound` shows that a freshly sent
command always finds the acknowledgement free.

`WireInv` is the second inductive invariant, for what the step does across structs. It adds that the
record of the last end is of an earlier call while one is active and of the last one otherwise (`Recorded`), that an accepted hangup
sits in the slot or waits for its acknowledgement (`Holds`), that nothing expired is awaited once the step is over, and the two
properties `WireIsCurrent` and `HeartbeatWatches` themselves, which hold of an iteration as a whole and so need the phase of the loop.
Each operator of the step is shown to *end*, *begin*, *answer* or *leave* the session and to keep the record with it (`Told`);
`NextMoves` says that every action is one of these. `WireStaysCurrent`, `HeartbeatFollows` and `HangupStays` are read off it,
and so is the refinement, `LifecycleImplemented`: with the record and the session moving together, each step is one action of
`CallLifecycle`, which the witness of `Told` names, or none.

**StationCallProofs.** A handler of the coordinator is an operator on the record of the whole `World`: call control, the
operation and the sessions. `StationInv` adds to the types what `Kept` says of that record. `Numbered`: the call of the operation is
its station's and never later than the session's. `Placed`: a call that is placed and not answered has its operation (`OutboundOwned`).
`Agreed`: the outcome of an operation that is over is final and what call control has on record (`AccountsAgree`), and a cleanup is
only repeated after a failure. `Fetched`: a session is handed over only to the operation under way, which promoted it, with the same
generation and call, and is told that the call was sent only if the operation was (`OwnedMedia`). The last clause is what makes the
property inductive: the manager refuses to roll back a call that it was told of, so an operation that knew less than the manager would leave the
session behind.

The proof is in layers. What the manager may do is never to hand a session over (`Softer`, `Mild`), but for the promotion
of `InstallCall`; what call control may do is to go on with the call, to end it, or to begin the next one
(`Onward`, `Fresh`), and it touches the record only of a call that was active; so any of their steps keeps `Kept`
(`FetchedTamer`, `CarriesKept`). The end of an operation (`ConcludeIs`, `EndOperationKept`) is the crux: whatever the reason, and
whatever could not be stopped, what the operation held is a preview again, gone, or has its release pending, and the record is the outcome.
The step, the hangup and the frame that takes over are put together from these (`Whole`), each action from the handlers.
`StationInvariant` holds for any number of stations, sessions and any overload policy; `StationTypes`, `CallsStayOwned`,
`MediaStayOwned` and `AccountsStayAgreed` are read off it. `OutcomesStand` needs it too: a repeated cleanup would send
another hangup, and so begin anew, if the call that is over could still be active; `Agreed` excludes that.

`PeerTold` (`PeerIsTold`) follows one reason through every way an operation can end. `TellInv` says of an operation that calls or talks
that its call is the one call control runs, that no end of it is on record, and that only its own CALL waits to be sent or
acknowledged (`Calls`). Therefore the slot is free for the hangup once that CALL is cancelled, and the operation
finds a session that is over only with a record that says why. A step *finds* such a world, or one in which the call has just ended for
a reason that excuses the operation, or in which another call took over (`Finds`), and leaves one whose call is *accounted* for: it
still runs, its hangup was queued, or the reason is an excuse (`Accounted`). That the media are still the operation's is needed too, since
one whose media are gone ends before it looks at the record, but holds only before a packet: between two iterations a session may fail.
The frame that takes over and the two steps around the step of call control are chained by `GoodTwice`; the hangups of a
user need less (`Fits`).

`PreviewsStayWatched` (`WatchedPreviewKept`) follows the session instead. What is *viewed* belongs to an operation that announced nothing, has a viewer
and is not being released (`Viewing`); what is *spared* is still a preview with its viewer after the operation is over (`Spared`). Every
handler turns what is viewed or spared into the same again (`Spares`) and begins nothing new (`Tends`). The end of an
operation is again the crux (`CleanupSpares`): a promotion that was not announced is rolled back to the preview, and the preview is not
given up because one with a viewer is not the operation's own (`Owns`). Three facts make this inductive, in `WatchInv`. A CALL that was delivered is known
to the operation (`Noted`), or an operation that believes it announced nothing would release a call. Sessions are numbered
as they come, so that the number an operation keeps is never reused, and its session is no incoming call's (`Counted`).
The two cases the property excludes appear where they must: `CallStepMinds` needs that no CALL was sent in the step, and
`ReceiveCallFrameKeeps` that no session was added.

`IncomingMediaStays` (`IncomingMediaKept`) is the other side: what a placed call leaves behind spares the incoming call. In a world
that is `Clear` the session of an incoming call is not the operation's, active or over; it belongs to no later call
than the current one; and it is live, unconfirmed and not being released while the call lasts (`Ringing`). Each part is needed. An operation
that is over keeps the key of its session for a hangup that repeats the cleanup, so that the key must not be reused; the number of a call that has not
begun must not be in the sessions already, or an old session would become the new call's; and a
viewer makes a session live, which changes nothing only if it was. The handlers of the coordinator leave such sessions alone
(`Heeds`), but for the release of the media of an incoming call that is over, which finds no call under way (`ReleaseEndedClear`), and the frame of a new
call, which raises the number of the call (`CallReceivedClear`). The theorem supposes what its run does, that no session fails, stops or goes
unasked (`MediaSteady`): the property says that viewers alone change the session, and a failed encoder is none.

**MediaProofs.** `MediaInv` says of each slot that it is free or holds a session that is `Sane`, and that manager and
runtime agree on the calls. `Sane` is what `AttemptsInStep` and `ChildOwned` need to be inductive: session and monitor count the same attempt
*unless the session has failed*, and a session may only be failed while its child cannot be stopped (`Stuck`), because
nothing else keeps a failed session in its slot; a picture is trusted only in the attempt it came in; a child runs only for a
publication. Every handler of a session leaves it `Sane` or frees the slot (`Outcome`), in lemmas that follow the layers
monitor, pipeline, session, manager. The accounts (`CallsAreBound`) then need only what a handler may do to the purpose and the
binding of its own session, for which the counting of the used slots is cut down to one slot that is taken or freed.

`SessionsImplementCallMedia` (`ImplementsCallMedia`) maps every step of the manager to one request of `CallMedia`, to one of its
`MediaChanges`, or to none. The requests (`Start`, `Upgrade`, `Bind`, `MarkSent`, `Rollback`, `Release`, `View`, `Incoming`) map
one to one, each in a lemma of its own; a request that is stopped halfway by a child that does not go maps to what its session
looks like then, often to no step at all. The handlers that no call asked for may only turn a session (`Unasked`, `UnaskedSide`). `CallMedia` says that
such a turn never confirms the preview of a *call*; that is not inductive, because a late answer of the station to the preview that the call was is
still accepted. `CallsEngaged` is the strengthening: the monitor of a call asks for nothing and retries nothing
(`Settled`), an answer may only be open if the preview had been confirmed for the attempt it is in (`Engaged`), and only
calls are handed over or wait for a release. The upgrade checks just that, and every handler keeps it (`Fades`,
`CallsStayEngaged`). So what is proved of `StationCall`, with the sessions of `CallMedia`, is about the sessions that this manager keeps.

**UnlockProofs.** Handlers are operators on the record of the whole daemon, so each has a lemma that says what it
leaves alone (`Settles`, `LeavesMedia`) and a lemma that says what it keeps. `Sound` strengthens `RequestIsItsOwn`: while the
automatic unlock is in flight, the station of its operation is the one it was scheduled for, and there are fewer requests
than operations begun, so that a request always finds a generation left. From this, for any number of sessions that fit,
`UnlockTypes`, `RequestStaysItsOwn` and `HangupMeantForItsCall`.

`PreparationsHandedOn` (`PreparationHandedOn`) follows the preparations, for any number of sessions that fit. `Claimed(L, x)` says that the record
names each of them but those in L, which were lost before; the step begins with L the `Orphans` of its first state, and no handler may add
to them. `Held` is what makes that inductive: an operation that has ended with a preparation has its clean-up pending, so
that no unlock begins over it. What was adopted is no preparation (`OnlyPrepared`). A turn of several handlers
may break `Held` in the middle (`Calm`: the reply was observed, the clean-up has not run) and restores it in the last one (`Fine`); the one
handler that can come in between and begin anew is the automatic unlock (`Begins`), which is the step that `TakenOver` names (`Taking`).

**SendQueueProofs.** `Inv` is `SendTypeOK`, `OneReplyPerProbe` and `OutcomeTrue` strengthened by `Sound`: the
attempt in flight is the one that was numbered last, and a transaction that pauses has attempts left. Without the first,
a completion with the right id could speak of the wrong datagram; without the second, the number of attempts has no bound.
`SendTypes`, `RepliesDistinct` and `OutcomesTrue` follow from `SendInvariant`. `EveryProbeAccounted` (`ProbesAccounted`) is also about a
sum over the queue. What the sum does when an entry is added, taken, counted up or dropped would be an induction over the queue; it is proved
instead from a least counterexample in the size of the queue, which the order of the numbers gives. Its hypothesis
`MaxProbes <= MaxRepeat` is the code's own limit: an entry stops counting at UINT_MAX repetitions, and only then are probes not counted.

**PresenceProofs.** None of the properties is inductive: the code has only its own counters, and what they say of the time
that passed depends on every earlier tick. `Inv` ties them together with two sums. `PeerClock`: for a peer that is online, the
time since it was heard, the time to the next tick and the seconds it has left after that add up to the reset time, less
than a second out; and with no more than a probe's interval left it was probed. `Waited`: the silence so far and
the time to the deadline add up to the deadlines that have passed. Ticks move an amount from one summand to
the other, however late they are, and the frames that reset one reset the other; `PresenceInvariant` is that argument,
and `OnlineRecent`, `OfflineOnlyEarned`, `ClaimOnlyEarned` and `VersionIsDurable` are read off it.

**ServiceProofs.** *Elevator.* `LiftInv` adds to the property that the control was last used no later than ubus was last served, and that
the frames of a request are its attempts. So a tick with the turn's older time is never earlier than the control's own
(`LiftInvariant`, `OncePerCall`); the attempts never exceed two (`LiftTypes`).

*Speech.* Two requests that send hold the locks of different files, unless they are one. A request that sends for the present life
of the daemon holds the file that has the name, because a file is removed only between two lives; and one that sends for an
earlier life has that life's record. So two that send for the same life hold the same file (`SpeechInvariant`), for
any number of clients, and of two that send under one generation one is of an earlier life. What such a leftover can still do is fixed when its daemon
goes: `CutInv` says that whatever it has yet to hand over, whatever of it waits in the socket and whatever of it was spoken was *caught*
then. The batch of a request is taken once and only gets shorter (`Dwindles`), so no step adds to it, and a restart, which is
the one step that turns a request of the present life into a leftover, counts its batch as caught
(`RestartsCutOff`).

That a frame is spoken again only if its request died before it was recorded (`EachFrameOnce`, which is the whole of `SpokenOnce`) is an account. A request
that dies between handing over and recording leaves a record that *owes*: the frame it names next was had before. The frames that are spoken a
second time come from such a record, by way of the socket: the number of those spoken, of those that wait in the socket
and of the records that owe is at most the number of such deaths (`OnceInv`). A frame handed over moves one from the third
summand to the second, the pump from the second to the first, and a record that is lost or replaced takes its one away. For this, a call must
be *fresh* when a record of it is begun: a call of a life or generation to come was never spoken to (`Unspoken`),
and a record that is removed is of a life that is over.

*Video.* `PictureTrue` needs that all fragments kept are of one picture, though they are told apart by a number that wraps.
`VideoInv` says that nothing under way, in the network or in the window, is older than half the circle of numbers, so equal numbers are
equal pictures; that the picture in the window is not older than the newest shown; and that everything is of the present
call (`VideoInvariant`, `VideoTypes`, `PicturesTrue`).

*Events.* The halves of all lines are numbered through: those of the event e are 2e - 1 and 2e. `StreamInv` says that for some even x, all halves
up to x have been parsed; the relay's buffer, the socket and the client's queue continue from there without a gap; and, while the
daemon knows the client, they end with the last event made (`InStep`). So whatever a flush or a read splits, the pieces
join to one run. A run that starts with a line gives as many events as it has even halves, of which there are half as many as halves
(`CountEvens`, by a bijection; `ParsedIs`), and leaves the odd one over (`UnfinishedIs`). What a connection delivers is
therefore consecutive. That the service is never told an older event after a younger one, across connections, needs that
the relay's queue rises from what was told last (`Ordered`) and that nothing told or queued is beyond x
(`StreamInvariant`, `EventTypes`, `StreamStaysUnbroken`).

**RecorderProofs.** `NewestKept` follows from an order: the files before the slot in use are all there, in the order of time;
those from it on are older, and in order too, or all missing; and the partial file is newer than all of them.
`RecorderInv` says so of each ring in each stage of an append, together with which rings the packet at hand has still to go
to. The start re-establishes it from the files alone, by picking the first empty or the oldest slot (`RecorderInvariant`,
`OldestGoes`, `RecorderTypes`).

Type invariants of `CallControl`, `StationCall`, `MediaManager`, `Unlock`, `SendQueue`, `Presence`, `Elevator`, `Video`, `Events` and `Recorder` are proved, so TLC is
not asked for them again; those of the other modules are stated for the reader and were checked while the modules were written.

Only model-checked:

- all liveness (`HangupEnds`, `SlotFrees`, `OperationMoves`, `TransactionEnds`, `LeftAloneMaintains`, `LeavingSessionsGo`), which needs
  fairness and ENABLED, beyond the prover;
- `HeardInOrder` and `ChunkChain` of `Audio`: about what a recursive operator drains from a buffer and about chains of files of any
  length, whose proofs are inductions over data that the provers cannot instantiate.

`PreparationOwned` and `HeardWhereSubmitted` are not proved because they are false; the theorems `PreparationsHandedOn` and `RestartsCutOff`
say how far they hold.

## What was found

`call_confirmed` shows a disagreement between code and documentation.
docs/2026-09-08_gvs-call-control-evidence.md:260 says that a matching answer makes the acknowledgement CONFIRMED and
the call talking together. When an answer was submitted, expired, and is submitted again while the pick window of the first one is
still open, the second one does not extend the window (gvs_session.c:135). If the peer's 03/83 then comes after the window, the
acknowledgement is confirmed and the session refuses the pick (gvs_session.c:156): the call keeps ringing while the client was told its
answer was confirmed.

`unlock_overwritten` shows another. README.md:282 says that a failed clean-up of an unlock is kept and tried again, and keeps a new transaction from
replacing it. `media_max_encoders` may be more than one (runtime_config.c:524-531). The reply to an unlock by hand at A arrives while the
automatic unlock of a call at B is due; the next automatic tick (runtime_service.c:1308) observes that the operation has ended and begins its
own (runtime_unlock.c:140) before the clean-up of the first has run or failed, when `cleanup_pending` is not set yet
(runtime_unlock.c:160). The record is cleared, and A's preview is never stopped. With the default of one encoder no such call
can have a session; that this is the only way to lose a preview is `PreparationHandedOn`.

`speech_restart` shows a third. docs/superpowers/specs/2026-10-12-continuous-duplex-audio-design.md:105 says that a restart of the
daemon must not connect the microphone to the call that replaces its own, and README.md:354 that a change of `runtime_id` ends the capture. A
request compares the `runtime_id` once, before it reads its body (pcm_http.c:156-175); a frame on the socket carries the generation
alone (gvs_pcm_ingress.c:48) and so compares the pump (gvs_pcm_pump.c:41); and the generations of a daemon begin at one. A batch
that was admitted by the old daemon and is handed over after the restart is spoken into the first call of the new one. It is no more than what
was in hand at the restart (`RestartCutsOff`).

The models were written from the code, and the following was seen on the way. None of it contradicts a document, and none is a
violation of a run.

*Presence.* Two maintainers may keep each other waiting for ever, since each broadcast heard postpones the own one and
`resend_local` is only logged (gvs_presence.c:355).

*Calls.* The acknowledgement keeps the command it waited for after it is resolved (gvs_call_runtime.c:102); the generation
compared before its use makes that harmless. The record of an outbound call in call control is lost when an incoming one takes
over; the operation still tells (`OutcomeStands`).

*Unlocking.* An automatic unlock or its hangup that fails to begin is not tried again.

*Media.* A hangup that cannot be sent during a retry releases the session (media_session_manager.c:1546); the stall timer is lost
after an encoder was recovered (media_session.c:43). When a ringing call is preempted by a caller of higher rank, the first caller's session still counts as the call, and the
new call gets no video (media_session_manager.c:1157); the old session stays bound to the call it was given for (`CallsAreBound`).

*Elevator.* An answer carries no key, so a late one completes the next request. A position received in a turn whose replies
were spaced out is dropped until the next query (runtime_ubus.c:2845).

*Events and recorder.* A connection that is dead keeps one of the 16 slots until an event is flushed to it
(event_stream.c:61). A post whose answer is lost is made again, so the service may see an event twice. The relay's queue does not survive
a restart. The recorder takes modification times for an order, that is a wall clock that does not jump back.

*Listening.* The model assumes that a chunk which was just renamed can be unlinked again when the prune that follows it fails
(gvs_audio_chunk_store.c), though the oldest chunks may be gone by then.

*Speaking.* A request that dies between handing over
and recording a frame lets it be sent again. A record torn by a process that dies while writing answers 503
until the service is started. `start` run on a service that already runs removes the file under a live session and so splits its
lock: the model assumes that it is started over a daemon that has gone. A frame the network refuses is lost.

*Pictures.* The model assumes that the network keeps no fragment longer than half the circle of picture numbers, nor from
one call of a peer to the next; otherwise an old part of a picture could be completed by one 65536 later
(gvs_video_reassembly.c:146). A snapshot that cannot be removed stays, but the status is then not ready.

## What is not modelled

- *Data*: frame contents, ports, addresses beyond identity, formatting, logs, JSON.
- *Errors of arguments* (NULL pointers, a clock that goes back), which the loop cannot cause.
- `df_gvs_call_dispatch_complete`: no caller in the daemon; its transports answer at once.
- *Restarts of the daemon*, except in `Presence`, `Events`, `Audio`, `Speech` and `Video`: nothing of a call is persisted, a restart is
  the initial state.
- *The values of the shared settings* and the other terminals' side of the election: `Presence` is one terminal.
- *Station scan and discovery*: a table of candidates filled from replies, LRU of 64, in one thread with nothing waiting on it; its
  correctness is that of the parser. The UDP sender is the environment that takes, refuses or loses a datagram.
- *Capture recovery*: five attempts to open again, each after twice the delay of the one before, then the daemon exits. No other part
  reads that counter; `CaptureLost` and `CaptureRecovered` are what the others see.
- *The media module's loading* and versions; the HTTP parser; codecs (A-law, JPEG markers, ffmpeg's arguments); the connection to
  ubus and its reconnection; the configuration; the command line tools: pure data or pure I/O.
- *Shared state of the services*: the parts in `services` share no variable but the call session, which each of them that
  follows it has as its environment.

## Plan

All modules of the plan exist, and each property of a passing run that the provers can reach has its theorem; what is left to TLC is listed
under the proofs, with the reason.

The number of runs and properties is kept small on purpose; a property that replaces one of those above should be about more.
