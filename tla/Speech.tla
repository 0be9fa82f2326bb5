------------------------------- MODULE Speech -------------------------------
(***************************************************************************)
(* Speaking to the door: a client opens an audio session over HTTP and     *)
(* submits its frames in batches; each request is a process of its own     *)
(* (pcm_http.c) that locks a state file, asks the daemon for its status    *)
(* (pcm_http_ubus.c), hands the frames to the daemon's socket one by one   *)
(* (gvs_pcm_ingress.c) and records each.  The main loop's turns take them  *)
(* from the socket (gvs_pcm_pump.c) and send them to the peer              *)
(* (gvs_audio_tx.c).                                                       *)
(*                                                                         *)
(* A frame is the call it was submitted for and its number.  The socket    *)
(* and the pump know a call by its generation, and every life of the       *)
(* daemon begins with the first: the life is kept for the properties only. *)
(* Time is what it does: a lease runs out, a frame is due or not.  The     *)
(* service is started over a daemon that has gone.                         *)
(***************************************************************************)
EXTENDS Integers, Sequences, FiniteSets

CONSTANTS Speakers,      \* the clients, with one request each at a time
          BatchLimit,    \* DF_PCM_HTTP_MAX_FRAMES
          SocketRoom,    \* frames the socket holds
          MaxFrames,     \* bound: frames of a call
          MaxTalks,      \* bound: calls of one life of the daemon
          MaxLives,      \* bound: lives of the daemon
          MaxSlips       \* bound: requests that die between two steps

ASSUME SpeechAssumption ==
    /\ {BatchLimit, SocketRoom, MaxFrames, MaxLives} \subseteq Nat \ {0}
    /\ {MaxTalks, MaxSlips} \subseteq Nat
    /\ IsFiniteSet(Speakers)
    /\ {"none", "lost", "torn"} \cap Speakers = {}

VARIABLES runtime,  \* which life of the daemon this is
          talk,     \* the call that talks, or talked last
          tx,       \* the transmitter
          socket,   \* frames waiting in it
          path,     \* the file the name of the state leads to, 0 for none
          files,    \* the records: that one, and those that were removed
          requests,
          spoken,   \* of the frames submitted for a call, up to the last sent
          again,    \* frames sent although they, or later ones, had been
          strays,   \* frames sent to a call of a later life than their own
          caught,   \* frames a request had yet to hand over at a restart
          slips     \* requests that died with a frame handed over, unrecorded

\* What has been said, and to whom.
heard == <<spoken, again, strays>>

speechVars ==
    <<runtime, talk, tx, socket, path, files, requests, heard, caught, slips>>

\* Each client has one file open at most, and its next request the named one.
Files == 1..Cardinality(Speakers)
Lives == 1..MaxLives
Talks == 0..MaxTalks
None  == "none"

Record(life, gen, next, holder, live) ==
    [life |-> life, gen |-> gen, next |-> next, holder |-> holder,
     live |-> live]

Empty == Record(0, 0, 0, None, FALSE)
\* A record whose writer died before it had cut off what the last one left:
\* nobody can read it, nor mend it.
Torn  == Record(0, 0, 0, "torn", FALSE)
Off   == [on |-> FALSE, gen |-> 0]
Idle  == [pc |-> "idle", file |-> 0, left |-> 0, seq |-> 0,
          record |-> Empty]

\* A request with a batch to hand over, from the frame seq on.
Sending(file, left, seq, record) ==
    [pc |-> "sending", file |-> file, left |-> left, seq |-> seq,
     record |-> record]

SpeechTypeOK ==
    /\ runtime \in Lives /\ path \in {0} \cup Files
    /\ {talk, tx} \subseteq [on : BOOLEAN, gen : Talks]
    /\ Len(socket) <= SocketRoom
    /\ \A p \in Speakers :
          requests[p].pc \in {"idle", "waiting", "sending", "sent"}

SpeechInit ==
    /\ runtime = 1 /\ talk = Off /\ tx = Off /\ socket = <<>>
    /\ path = 0 /\ files = [f \in Files |-> Empty]
    /\ requests = [p \in Speakers |-> Idle]
    /\ spoken = [call \in Lives \X Talks |-> 0]
    /\ again = 0 /\ slips = 0 /\ strays = {} /\ caught = {}

-----------------------------------------------------------------------------
(* A request.                                                              *)

Holding(p) == requests[p].pc \in {"sending", "sent"}

\* A record nobody can reach any more is forgotten.
Swept(fs, rs, way) ==
    [f \in Files |-> IF f = way \/ \E p \in Speakers : rs[p].file = f
                     THEN fs[f] ELSE Empty]

Go(p, r, fs) ==
    LET rs == [requests EXCEPT ![p] = r]
    IN  requests' = rs /\ files' = Swept(fs, rs, path)

\* open_state: the file is opened, or made, and its lock waited for.
Arrive(p) ==
    /\ requests[p].pc = "idle"
    /\ \E f \in Files :
          /\ IF path # 0 THEN f = path
             ELSE \A q \in Speakers : requests[q].file # f
          /\ path' = f
          /\ requests' = [requests EXCEPT ![p] = [Idle EXCEPT !.pc = "waiting",
                                                              !.file = f]]
    /\ UNCHANGED <<runtime, talk, tx, socket, files, heard, caught, slips>>

\* The daemon's status, read in one piece: that of a call that talks and has
\* the transmitter.
Talking == talk.on /\ tx = talk

\* The lock is had, and the request names the call of the status.
Admitted(p) ==
    /\ requests[p].pc = "waiting"
    /\ \A q \in Speakers \ {p} :
          ~(Holding(q) /\ requests[q].file = requests[p].file)
    /\ Talking

Kept(p)       == files[requests[p].file]
Written(p, r) == [files EXCEPT ![requests[p].file] = r]
Readable(r)   == r # Torn

\* Mutant of Matches: the generation alone names the call.
MatchesGeneration(r) == r.gen = talk.gen

Matches(r)    == r.life = runtime /\ r.gen = talk.gen
Busy(r)       == r.holder # None /\ r.live

\* Mutant of Continued: every session counts its frames from the beginning.
Restarted(r) == 0

\* A session of a call goes on where the one before it stopped.
Continued(r) == IF Matches(r) THEN r.next ELSE 0

\* A session is opened: for its client, or for nobody if the answer is lost.
OpenSession(p) ==
    /\ Admitted(p) /\ Readable(Kept(p))
    /\ ~(Matches(Kept(p)) /\ Busy(Kept(p)))
    /\ \E holder \in {p, "lost"}, torn \in BOOLEAN :
          /\ torn => Kept(p) # Empty /\ ~Matches(Kept(p))
          /\ Go(p, Idle, Written(p,
                IF torn THEN Torn
                ELSE Record(runtime, talk.gen, Continued(Kept(p)), holder,
                            TRUE)))
    /\ UNCHANGED <<runtime, talk, tx, socket, path, heard, caught, slips>>

Holds(p, r) == Matches(r) /\ r.holder = p /\ r.live

EndSession(p) ==
    /\ Admitted(p) /\ Holds(p, Kept(p))
    /\ \E torn \in BOOLEAN :
          Go(p, Idle, Written(p,
                IF torn THEN Torn
                ELSE [Kept(p) EXCEPT !.holder = None, !.live = FALSE]))
    /\ UNCHANGED <<runtime, talk, tx, socket, path, heard, caught, slips>>

\* A batch is taken if it goes on where the last one stopped.  Its body may
\* come long after the status, the record and the time have been read.
Submit(p) ==
    /\ Admitted(p) /\ Holds(p, Kept(p))
    /\ \E sequence \in 0..(MaxFrames - 1), count \in 1..BatchLimit :
          /\ sequence = Kept(p).next
          /\ sequence + count <= MaxFrames
          /\ requests' = [requests EXCEPT ![p] =
                Sending(@.file, count, sequence, Kept(p))]
    /\ UNCHANGED <<runtime, talk, tx, socket, path, files, heard, caught,
                   slips>>

Frame(r) == [life |-> r.record.life, gen |-> r.record.gen, seq |-> r.seq]

\* The next frame is handed to the socket that is there now.
HandOver(p) ==
    /\ requests[p].pc = "sending" /\ Len(socket) < SocketRoom
    /\ socket' = Append(socket, Frame(requests[p]))
    /\ requests' = [requests EXCEPT ![p].pc = "sent"]
    /\ UNCHANGED <<runtime, talk, tx, path, files, heard, caught, slips>>

\* It is recorded, and the lease renewed.
Note(p) ==
    /\ requests[p].pc = "sent"
    /\ LET old  == requests[p].record
           r    == Record(old.life, old.gen, old.next + 1, old.holder, TRUE)
           left == requests[p].left - 1
       IN  Go(p, IF left = 0 THEN Idle
                 ELSE Sending(requests[p].file, left, requests[p].seq + 1, r),
              Written(p, r))
    /\ UNCHANGED <<runtime, talk, tx, socket, path, heard, caught, slips>>

\* The request is refused, cannot hand over its frame, cannot record it, or is
\* killed with its connection.
Leave(p) ==
    /\ requests[p].pc # "idle"
    /\ slips' = IF requests[p].pc = "sent" THEN slips + 1 ELSE slips
    /\ slips' <= MaxSlips
    /\ Go(p, Idle, files)
    /\ UNCHANGED <<runtime, talk, tx, socket, path, heard, caught>>

\* A lease runs out; that of a batch being sent is not looked at again.
Expire ==
    \E f \in Files :
       /\ files[f].live
       /\ files' = [files EXCEPT ![f].live = FALSE]
       /\ UNCHANGED <<runtime, talk, tx, socket, path, requests, heard,
                      caught, slips>>

-----------------------------------------------------------------------------
(* The daemon.                                                             *)

\* The call ends, or another one is answered.
Move ==
    /\ talk' \in {[talk EXCEPT !.on = FALSE],
                  [on |-> TRUE, gen |-> talk.gen + 1]} \ {talk}
    /\ talk'.gen <= MaxTalks
    /\ UNCHANGED <<runtime, tx, socket, path, files, requests, heard, caught,
                   slips>>

\* df_gvs_audio_tx_sync: the transmitter follows the call that talks.
Followed == IF talk.on THEN talk ELSE Off

\* df_gvs_audio_tx_submit_pcm: it reaches the peer, or the network fails.
Transmit(frame) ==
    LET call == <<frame.life, frame.gen>>
    IN  \/ UNCHANGED heard
        \/ /\ again' = IF frame.seq < spoken[call] THEN again + 1 ELSE again
           /\ spoken' = [spoken EXCEPT ![call] =
                             IF frame.seq < @ THEN @ ELSE frame.seq + 1]
           /\ strays' = IF frame.life = runtime THEN strays
                        ELSE strays \cup {frame}

\* The waiting frames of the generation that is transmitted.
Speakable(now) == {i \in DOMAIN socket : now.on /\ socket[i].gen = now.gen}

\* df_gvs_pcm_pump: frames of another generation are dropped; the first of
\* this one is sent if the last one is long enough ago.
Pump(now) ==
    LET mine  == Speakable(now)
        first == CHOOSE i \in mine : \A j \in mine : i <= j
    IN  IF mine = {}
        THEN socket' = <<>> /\ UNCHANGED heard
        ELSE /\ socket' = SubSeq(socket, first + 1, Len(socket))
             /\ Transmit(socket[first])

SpeechTurn ==
    /\ tx' = Followed
    /\ \/ Pump(tx')
       \/ tx'.on /\ UNCHANGED <<socket, heard>>
    /\ UNCHANGED <<runtime, talk, path, files, requests, caught, slips>>

\* The frames of its batch that a request has yet to hand over.
Remaining(p) ==
    LET r     == requests[p]
        first == IF r.pc = "sent" THEN r.seq + 1 ELSE r.seq
    IN  {[life |-> r.record.life, gen |-> r.record.gen, seq |-> n] :
            n \in first..(r.seq + r.left - 1)}

\* The daemon goes and comes back with another identity, the first generation
\* and a new socket.  When the service starts it, the state file is removed;
\* when it is respawned, the file stays.
Respawn ==
    /\ runtime < MaxLives /\ runtime' = runtime + 1
    /\ talk' = Off /\ tx' = Off /\ socket' = <<>>
    /\ path' \in {0, path}
    /\ files' = Swept(files, requests, path')
    /\ caught' = caught \cup UNION {Remaining(p) : p \in Speakers}
    /\ UNCHANGED <<requests, heard, slips>>

SpeechNext ==
    \/ \E p \in Speakers :
          \/ Arrive(p) \/ OpenSession(p) \/ EndSession(p) \/ Submit(p)
          \/ HandOver(p) \/ Note(p) \/ Leave(p)
    \/ Expire \/ Move \/ SpeechTurn \/ Respawn

SpeechSpec == SpeechInit /\ [][SpeechNext]_speechVars

-----------------------------------------------------------------------------
\* Over expired leases, requests that die, calls that end under them and a
\* daemon that starts again, with or without the record of the sessions, each
\* frame that is submitted for a call is spoken once and in order, to whatever
\* call it gets - again only if its request died before it could record it
\* (pcm_http.c:144, pcm_http.c:223).
SpokenOnce == again <= slips

Stray(p) == requests[p].record.life # runtime

\* What gets past a restart is what a request had in hand: nothing is spoken to
\* a call of the new daemon that was submitted to the old one, but the frames
\* that were still to be handed over when it went; and two requests speak under
\* one generation, which is all that the pump tells calls apart by, only if
\* one of them is such a leftover (pcm_http.c:156, gvs_pcm_pump.c:41).
RestartCutsOff ==
    /\ strays \subseteq caught
    /\ \A p \in Speakers : Holding(p) /\ Stray(p) => Remaining(p) \subseteq caught
    /\ \A p, q \in Speakers :
          p # q /\ Holding(p) /\ Holding(q)
                /\ requests[p].record.gen = requests[q].record.gen =>
             Stray(p) \/ Stray(q)

\* The audio design says that a restart of the daemon must not connect the
\* microphone to the call that replaces its own (2026-10-12-continuous-duplex-
\* audio-design.md:105).  It can: the body of a batch that was admitted before
\* is handed to the new socket, and the pump takes it for the first call again.
HeardWhereSubmitted == strays = {}
=============================================================================
