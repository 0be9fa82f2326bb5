-------------------------------- MODULE Audio --------------------------------
(***************************************************************************)
(* The listening path of a call: packets admitted for the call session are *)
(* put in order by a jitter buffer (gvs_audio_jitter.c), appended to the   *)
(* play-out buffer (gvs_audio_playout.c, gvs_audio_buffer.c) and written   *)
(* as chunk files a reader follows by their revisions                      *)
(* (gvs_audio_chunk_store.c).  The runtime opens and closes the path with  *)
(* the session (gvs_media_lifecycle.c, runtime_service.c).                 *)
(*                                                                         *)
(* A packet is its sequence number, modulo Wrap, and its number of         *)
(* samples.  Waiting times are flags: the 40 ms of a gap have passed when  *)
(* the packets behind it are old, a chunk is due or not.  The play-out     *)
(* buffer and the stage before it have one generation and are one record.  *)
(***************************************************************************)
EXTENDS Integers, Sequences, FiniteSets

CONSTANTS Wrap,          \* sequence numbers, 65536 in the code
          JitterSlots,   \* DF_GVS_AUDIO_JITTER_SLOTS
          MaxSilence,    \* DF_GVS_AUDIO_JITTER_MAX_SILENCE, in samples
          ChunkLimit,    \* DF_GVS_AUDIO_CHUNK_LIMIT
          MaxPackets,    \* bound: packets heard in one opening of the path
          MaxGeneration  \* bound: calls in one life of the daemon

ASSUME AudioAssumption ==
    /\ {Wrap, JitterSlots, MaxSilence, ChunkLimit} \subseteq Nat \ {0}
    /\ Wrap % 2 = 0

Half     == Wrap \div 2
Sequence == 0..(Wrap - 1)
Samples  == 1..2
States   == {"idle", "preview", "ringing", "talking", "ended"}

VARIABLES session,   \* the call session: its state and generation
          life,      \* the lifecycle's memory of it: active, generation
          previous,  \* the state at the last synchronisation
          jitter, playout,
          store,     \* the chunk files
          step       \* what the last step appended, after what

audioVars == <<session, life, previous, jitter, playout, store, step>>

Closed(gen) == [gen |-> gen, has |-> FALSE, expected |-> 0, last |-> 0,
                silent |-> 0, slots |-> [q \in {} |-> 0]]
Silent(gen) == [gen |-> gen, has |-> FALSE, last |-> 0, packets |-> 0,
                snap |-> 0, pending |-> FALSE, concealed |-> FALSE]
Nothing     == [has |-> FALSE, seq |-> 0, count |-> 0, out |-> <<>>,
                refused |-> FALSE]

AudioTypeOK ==
    /\ session \in [state : States, gen : 0..MaxGeneration]
    /\ previous \in States
    /\ life \in [active : BOOLEAN, gen : 0..MaxGeneration]
    /\ jitter.gen \in 0..MaxGeneration /\ jitter.expected \in Sequence
    /\ DOMAIN jitter.slots \subseteq Sequence
    /\ Cardinality(DOMAIN jitter.slots) <= JitterSlots
    /\ playout.gen = jitter.gen /\ playout.packets \in 0..MaxPackets
    /\ playout.snap \in 0..playout.packets
    /\ Cardinality(store) <= ChunkLimit

AudioInit ==
    /\ session = [state |-> "idle", gen |-> 0]
    /\ life = [active |-> FALSE, gen |-> 0]
    /\ previous = "idle"
    /\ jitter = Closed(0) /\ playout = Silent(0)
    /\ store = {} /\ step = Nothing

-----------------------------------------------------------------------------
(* The play-out buffer.                                                    *)

\* How far a is ahead of b on the circle of sequence numbers.
Ahead(a, b) == (a - b) % Wrap

\* Mutant of Takes: without the exception for the packet after a capped gap.
TakesNear(p, e) ==
    e.real => \/ ~p.has
              \/ Ahead(e.seq, p.last) \in 1..(Half - 1)

\* A packet that repeats the last one or lies half the circle behind it is
\* refused.  The jitter buffer counts from the number it expects, one after
\* the last: the packet behind its widest gap is exactly half the circle
\* ahead, and is let through as one that follows a concealed, capped gap.
Takes(p, e) ==
    e.real => \/ ~p.has
              \/ Ahead(e.seq, p.last) \in 1..(Half - 1)
              \/ p.concealed /\ e.disc /\ Ahead(e.seq, p.last) = Half

\* Silence counts as samples only, not as a packet.
Quieted(p) == [p EXCEPT !.pending = TRUE, !.concealed = TRUE]

Taken(p, e) ==
    IF e.real
    THEN [p EXCEPT !.has = TRUE, !.last = e.seq, !.packets = @ + 1,
                   !.pending = TRUE, !.concealed = FALSE]
    ELSE Quieted(p)

-----------------------------------------------------------------------------
(* The jitter buffer.  s is [j |-> jitter, p |-> playout, t |-> step].      *)

Emit(s, e) ==
    IF Takes(s.p, e)
    THEN [s EXCEPT !.p = Taken(@, e), !.t.out = Append(@, e)]
    ELSE [s EXCEPT !.t.refused = TRUE]

\* The waiting packet closest after the expected number.
Nearest(j) ==
    CHOOSE q \in DOMAIN j.slots :
        \A o \in DOMAIN j.slots :
            Ahead(q, j.expected) <= Ahead(o, j.expected)

\* The gap's deadline counts from the oldest waiting packet.
GapOver(j) == \E q \in DOMAIN j.slots : j.slots[q].old

\* The packet q has been appended.
Passed(j, q, count) ==
    [j EXCEPT !.expected = (q + 1) % Wrap, !.last = count, !.silent = 0,
              !.slots = [o \in DOMAIN @ \ {q} |-> @[o]]]

\* Waiting packets leave in order; a gap is waited for, then concealed by
\* silence as long as the packet before it times the packets missing, at most
\* MaxSilence.  What is refused stays, and the silence before it is not
\* repeated.
RECURSIVE Drain(_, _)
Drain(s, force) ==
    IF DOMAIN s.j.slots = {} THEN s
    ELSE
    LET q       == Nearest(s.j)
        count   == s.j.slots[q].count
        missing == Ahead(q, s.j.expected)
        capped  == missing # 0 /\ missing > MaxSilence \div s.j.last
        silence == [real |-> FALSE, seq |-> s.j.expected, disc |-> capped,
                    count |-> IF capped THEN MaxSilence
                              ELSE missing * s.j.last]
        quiet   == IF missing = 0 \/ s.j.silent # 0 THEN s
                   ELSE LET t == Emit(s, silence)
                        IN  IF t.t.refused THEN t
                            ELSE [t EXCEPT !.j.silent = silence.count]
        heard   == Emit(quiet, [real |-> TRUE, seq |-> q, disc |-> capped,
                                count |-> count])
    IN  IF missing # 0 /\ ~force /\ s.j.silent = 0 /\ ~GapOver(s.j) THEN s
        ELSE IF quiet.t.refused THEN quiet
        ELSE IF heard.t.refused THEN heard
        ELSE Drain([heard EXCEPT !.j = Passed(@, q, count)], FALSE)

Inserted(s, q, count) ==
    Drain([s EXCEPT !.j.slots = [o \in DOMAIN @ \cup {q} |->
              IF o = q THEN [count |-> count, old |-> FALSE] ELSE @[o]]],
          FALSE)

\* df_gvs_audio_jitter_push.  With every slot taken the expected packet goes
\* straight through; another one forces the first gap to be given up.
Pushed1(s0, q, count) ==
    LET s == IF s0.j.has THEN s0
             ELSE [s0 EXCEPT !.j.has = TRUE, !.j.expected = q]
        Late(j)   == Ahead(q, j.expected) >= Half
        repeated  == \/ q \in DOMAIN s.j.slots
                     \/ s.j.last # 0 /\ q = (s.j.expected - 1) % Wrap
        concealed == /\ s.j.silent # 0
                     /\ Ahead(q, s.j.expected) <
                            Ahead(Nearest(s.j), s.j.expected)
        direct == Emit(s, [real |-> TRUE, seq |-> q, disc |-> FALSE,
                           count |-> count])
        forced == Drain(s, TRUE)
    IN  IF repeated \/ Late(s.j) \/ concealed THEN s
        ELSE IF Cardinality(DOMAIN s.j.slots) < JitterSlots
        THEN Inserted(s, q, count)
        ELSE IF q = s.j.expected
        THEN IF direct.t.refused THEN direct
             ELSE Drain([direct EXCEPT !.j.expected = (q + 1) % Wrap,
                                       !.j.last = count], FALSE)
        ELSE IF forced.t.refused \/ Late(forced.j) THEN forced
        ELSE Inserted(forced, q, count)

Current == [j |-> jitter, p |-> playout,
            t |-> [has |-> playout.has, seq |-> playout.last,
                   count |-> jitter.last, out |-> <<>>, refused |-> FALSE]]

Become(s) ==
    \E t \in {s} : jitter' = t.j /\ playout' = t.p /\ step' = t.t

Active(s) == s.gen # 0 /\ s.state \in {"preview", "ringing", "talking"}

\* A packet of the session's peer for this identity.
Receive ==
    /\ Active(session) /\ jitter.gen = session.gen
    /\ playout.packets + Cardinality(DOMAIN jitter.slots) < MaxPackets
    /\ \E q \in Sequence, count \in Samples :
          Become(Pushed1(Current, q, count))
    /\ UNCHANGED <<session, life, previous, store>>

-----------------------------------------------------------------------------
(* The chunk files.                                                        *)

Older(c, d) == c.gen < d.gen \/ (c.gen = d.gen /\ c.rev < d.rev)

\* The oldest chunks go until no more than the limit are left.
Pruned(chunks) ==
    {c \in chunks :
        Cardinality({d \in chunks : Older(c, d)}) < ChunkLimit}

\* A file of that revision is there, of whatever is left of an earlier opening.
Exists(chunk) == \E c \in store : c.gen = chunk.gen /\ c.rev = chunk.rev

\* A chunk names the revision it follows.
Chunk(p) == [gen |-> p.gen, prev |-> p.snap, rev |-> p.packets]

Marked(p) == [p EXCEPT !.snap = p.packets, !.pending = FALSE]

\* The chunk becomes visible under its name, then the oldest ones go.
Stored(p) == Pruned(store \cup {Chunk(p)})

\* What is pending is written as the next chunk of its generation, unless a
\* file has that revision or a step fails, and is then pending still: a chunk
\* is taken back if the last step fails, though the oldest one may have gone.
ChunkOut(p) ==
    \/ playout' = p /\ store' = store
    \/ /\ p.gen # 0 /\ p.pending /\ p.packets # p.snap
       /\ ~Exists(Chunk(p))
       /\ \/ store' = Stored(p) /\ playout' = Marked(p)
          \/ store' = Stored(p) \ {Chunk(p)} /\ playout' = p

\* df_runtime_audio_service at the end of each turn of the main loop.  40 ms
\* may have gone by; after a refusal nothing is written.
Service ==
    /\ \E old \in BOOLEAN :
          LET aged == [Current EXCEPT !.j.slots = [q \in DOMAIN @ |->
                          [@[q] EXCEPT !.old = @ \/ old]]]
          IN  \E t \in {Drain(aged, FALSE)} :
                 /\ jitter' = t.j /\ step' = t.t
                 /\ IF t.t.refused THEN playout' = t.p /\ store' = store
                    ELSE ChunkOut(t.p)
    /\ UNCHANGED <<session, life, previous>>

-----------------------------------------------------------------------------
(* The runtime.                                                            *)

\* Mutant of OpenAfter: the path is opened whether or not the files are gone.
OpenAnyway(gen, cleared) == gen

\* The generation of the path after its files were to be cleared.
OpenAfter(gen, cleared) == IF cleared THEN gen ELSE 0

\* df_runtime_audio_clear: any of the files may fail to go.
ClearTo(gen) ==
    \E left \in SUBSET store :
       \E cleared \in {FALSE, left = {}} :
          LET open == OpenAfter(gen, cleared)
          IN  /\ store' = left
              /\ jitter' = Closed(open) /\ playout' = Silent(open)
              /\ step' = Nothing

\* Where the session can be found: further on in its call, or in another.
Rank(state) == CASE state = "idle" -> 0
                 [] state \in {"preview", "ringing"} -> 1
                 [] state = "talking" -> 2
                 [] state = "ended" -> 3

Moved(s) ==
    {n \in [state : States \ {"idle"}, gen : 1..MaxGeneration] :
        \/ n.gen = s.gen /\ (n.state = s.state \/ Rank(s.state) < Rank(n.state))
        \/ n.gen = s.gen + 1} \cup {s}

\* df_runtime_media_sync: the path is cleared when a call's media starts,
\* ends or becomes another call's, when talking starts, and again when the
\* last clearing left it closed.
Synced(now) ==
    LET active  == Active(now)
        gen     == IF active THEN now.gen ELSE 0
        changed == life.active /\ active /\ life.gen # now.gen
        started == active /\ (~life.active \/ changed)
        ended   == life.active /\ (~active \/ changed)
        talks   == now.state = "talking" /\ previous \in {"preview", "ringing"}
    IN  /\ session' = now /\ previous' = now.state
        /\ life' = [active |-> active, gen |-> gen]
        /\ IF started \/ ended \/ talks \/ (active /\ playout.gen # gen)
           THEN ClearTo(gen)
           ELSE UNCHANGED <<jitter, playout, store, step>>

Sync == \E now \in Moved(session) : Synced(now)

\* The daemon starts again over the files it left; generations begin at 1.
AudioRestart ==
    /\ session' = [state |-> "idle", gen |-> 0] /\ previous' = "idle"
    /\ life' = [active |-> FALSE, gen |-> 0]
    /\ ClearTo(0)

AudioNext == Receive \/ Service \/ Sync \/ AudioRestart

-----------------------------------------------------------------------------
\* What is heard is in order, and nothing the jitter buffer lets go is refused
\* behind it: two packets in a row are neighbours, or silence stands between
\* them for what is missing, marked when it was cut short - over the wrap of
\* the numbers, full slots and forced gaps (gvs_audio_jitter.c:75,
\* gvs_audio_jitter.c:166, gvs_audio_buffer.c:55).
HeardInOrder ==
    /\ ~step.refused
    /\ \A i \in DOMAIN step.out :
        LET e     == step.out[i]
            quiet == i > 1 /\ ~step.out[i - 1].real
            reals == {j \in 1..(i - 1) : step.out[j].real}
            prev  == IF reals = {} THEN step
                     ELSE step.out[CHOOSE j \in reals :
                                      \A o \in reals : o <= j]
            known == reals # {} \/ step.has
            gap   == Ahead(e.seq, prev.seq) - 1
            whole == gap * prev.count
        IN  IF e.real
            THEN IF ~known THEN ~quiet
                 ELSE /\ gap \in 0..(Half - 1)
                      /\ quiet <=> gap > 0
                      /\ quiet =>
                          /\ step.out[i - 1].count =
                                IF whole > MaxSilence THEN MaxSilence
                                ELSE whole
                          /\ e.disc <=> whole > MaxSilence
            ELSE i < Len(step.out) /\ step.out[i + 1].real

\* The files of the open generation are one chain that ends at what has been
\* written last: a reader that follows the revisions never meets a chunk of an
\* earlier opening of the path, whatever failed to be removed, across the
\* start of talking and a restart (runtime_service.c:90,
\* gvs_audio_chunk_store.c:196).
ChunkChain ==
    LET mine == {c \in store : c.gen = playout.gen}
    IN  playout.gen # 0 =>
          /\ \A c \in mine : \/ c.rev = playout.snap
                             \/ \E d \in mine : d.prev = c.rev
          /\ \A c, d \in mine : c.prev = d.prev => c = d
=============================================================================
