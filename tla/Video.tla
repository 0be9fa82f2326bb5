-------------------------------- MODULE Video --------------------------------
(***************************************************************************)
(* Watching the door without the media module: the fragments of a picture, *)
(* each a datagram of the session's peer, are put together one picture at  *)
(* a time (gvs_video_reassembly.c); a whole one goes to the cache, whose   *)
(* status clients read (gvs_video_frame_cache.c), and to the snapshot file *)
(* they fetch (gvs_video_snapshot.c).  The main loop clears all three when *)
(* the call changes (runtime_service.c, gvs_media_lifecycle.c), in the     *)
(* same turn and before the next datagram.                                 *)
(*                                                                         *)
(* The network loses, repeats and reorders fragments.  It keeps none for   *)
(* longer than half the circle of picture numbers, nor from one call of a  *)
(* peer to the next, and does not lose every picture of half the circle.   *)
(* Fragments of other peers, malformed ones and those no memory is found   *)
(* for are as good as lost.                                                *)
(***************************************************************************)
EXTENDS Integers, FiniteSets

CONSTANTS Numbers,      \* picture numbers, 65536 in the code
          MaxChunks,    \* bound: fragments of a picture
          MaxPictures,  \* bound: pictures of a call
          MaxViews      \* bound: calls in one life of the daemon

ASSUME VideoAssumption ==
    /\ {MaxChunks, MaxPictures, MaxViews} \subseteq Nat
    /\ Numbers \in Nat \ {0} /\ Numbers % 2 = 0

VARIABLES view,      \* the call with media: whether there is one, generation
          filmed,    \* pictures its peer has sent
          flight,    \* fragments the network has
          frame,     \* the picture being put together
          cache,     \* what clients are told of the last whole one
          snapshot,  \* the fragments in the file, {} if there is none
          newest     \* the last picture shown in this call

videoVars == <<view, filmed, flight, frame, cache, snapshot, newest>>

HalfRound == Numbers \div 2
Number(f) == f.pic % Numbers

NoFrame == [on |-> FALSE, no |-> 0, chunks |-> 0, got |-> {}]
Invalid == [ready |-> FALSE, gen |-> 0]

Fragments ==
    {f \in [call : 1..MaxViews, pic : 1..MaxPictures, chunks : 1..MaxChunks,
            index : 1..MaxChunks] : f.index <= f.chunks}

VideoTypeOK ==
    /\ view \in [on : BOOLEAN, gen : 0..MaxViews]
    /\ {filmed, newest} \subseteq 0..MaxPictures
    /\ flight \subseteq Fragments /\ snapshot \subseteq Fragments
    /\ frame.got \subseteq Fragments /\ frame.no \in 0..(Numbers - 1)
    /\ cache \in [ready : BOOLEAN, gen : 0..MaxViews]

VideoInit ==
    /\ view = [on |-> FALSE, gen |-> 0] /\ filmed = 0 /\ flight = {}
    /\ frame = NoFrame /\ cache = Invalid /\ snapshot = {} /\ newest = 0

-----------------------------------------------------------------------------
(* The peer and the network.                                               *)

\* The fragments of the next picture that arrive at all; the oldest ones under
\* way are lost.
Film ==
    /\ view.on /\ filmed < MaxPictures
    /\ \A f \in frame.got : filmed + 1 - f.pic < HalfRound
    /\ filmed' = filmed + 1
    /\ \E chunks \in 1..MaxChunks :
       \E arriving \in SUBSET (1..chunks) :
          flight' = {f \in flight : filmed' - f.pic <= HalfRound} \cup
                    {[call |-> view.gen, pic |-> filmed', chunks |-> chunks,
                      index |-> i] : i \in arriving}
    /\ UNCHANGED <<view, frame, cache, snapshot, newest>>

-----------------------------------------------------------------------------
(* The picture being put together.                                         *)

\* Mutant of Newer: a fragment of any other picture begins that picture.
NewerOrLate(f) == ~frame.on \/ Number(f) # frame.no

\* A picture is begun, and the one before given up, by a fragment of a picture
\* less than half the circle ahead.
Newer(f) ==
    ~frame.on \/ (Number(f) - frame.no) % Numbers \in 1..(HalfRound - 1)

\* A fragment of this picture, of the same geometry, that has not come before.
Wanting(f) ==
    /\ frame.on /\ Number(f) = frame.no /\ f.chunks = frame.chunks
    /\ \A g \in frame.got : g.index # f.index

Begun(f) ==
    [on |-> TRUE, no |-> Number(f), chunks |-> f.chunks, got |-> {f}]

Grown(f) ==
    IF Newer(f) THEN Begun(f) ELSE [frame EXCEPT !.got = @ \cup {f}]

Whole(p) == Cardinality(p.got) = p.chunks

\* The cache has it and the file is written.
Shown(p) ==
    LET pic == CHOOSE n \in {f.pic : f \in p.got} : TRUE
    IN  /\ cache' = [ready |-> TRUE, gen |-> view.gen]
        /\ snapshot' = p.got
        /\ newest' = IF pic > newest THEN pic ELSE newest

\* A whole picture that is no JPEG changes nothing; without memory or when the
\* file cannot be written, cache and file go, if the file will.
Show(p) ==
    \/ UNCHANGED <<cache, snapshot, newest>>
    \/ Shown(p)
    \/ /\ cache' = Invalid /\ snapshot' \in {{}, snapshot}
       /\ UNCHANGED newest

\* A datagram arrives, perhaps not for the last time.
Watch ==
    /\ view.on
    /\ \E f \in flight :
          /\ flight' \in {flight, flight \ {f}}
          /\ IF ~(Newer(f) \/ Wanting(f))
             THEN UNCHANGED <<frame, cache, snapshot, newest>>
             ELSE /\ frame' = Grown(f)
                  /\ IF Whole(frame') THEN Show(frame')
                     ELSE UNCHANGED <<cache, snapshot, newest>>
    /\ UNCHANGED <<view, filmed>>

-----------------------------------------------------------------------------
(* The call.                                                               *)

\* df_runtime_media_clear; nobody looks whether the file went.
ClearVideo ==
    /\ frame' = NoFrame /\ cache' = Invalid
    /\ snapshot' \in {{}, snapshot}
    /\ filmed' = 0 /\ flight' = {} /\ newest' = 0

\* The call ends, or is replaced by another.
ViewMoves ==
    /\ view' \in {[view EXCEPT !.on = FALSE],
                  [on |-> TRUE, gen |-> view.gen + 1]} \ {view}
    /\ view'.gen <= MaxViews
    /\ ClearVideo

\* The daemon starts again over the file it left.
ViewRestart ==
    /\ view' = [on |-> FALSE, gen |-> 0]
    /\ ClearVideo

VideoNext == Film \/ Watch \/ ViewMoves \/ ViewRestart

VideoSpec == VideoInit /\ [][VideoNext]_videoVars

-----------------------------------------------------------------------------
\* When clients are told that a picture is there, the file is one whole
\* picture of the call they are told of, which is the present one, and no
\* older than any shown before - over lost, repeated and late fragments, the
\* wrap of the numbers, files that cannot be written or removed, and calls
\* that follow each other (gvs_video_reassembly.c:146, runtime_service.c:902).
PictureTrue ==
    cache.ready =>
       /\ view.on /\ cache.gen = view.gen
       /\ \E chunks \in 1..MaxChunks :
             snapshot = {[call |-> cache.gen, pic |-> newest,
                          chunks |-> chunks, index |-> i] : i \in 1..chunks}
=============================================================================
