------------------------------ MODULE Recorder ------------------------------
(***************************************************************************)
(* The evidence recorder: a process that keeps packets in two rings of     *)
(* capture files (pcap_ring.c) and a line per control packet in a ring of  *)
(* logs (evidence_log.c), fed by evidence_recorder.c from recorder_main.c. *)
(* A ring writes a "partial" file and renames it over the completed file   *)
(* of its slot when it is full.  The two ring implementations share one    *)
(* set of definitions: they differ in the header of a capture file.        *)
(*                                                                         *)
(* The process can die between any two of its file operations, and any of  *)
(* them can fail.  A record is one unit; the clock moves with each packet  *)
(* and stands for the files' modification times.                           *)
(***************************************************************************)
EXTENDS Integers, Sequences, FiniteSets

CONSTANTS Segments,   \* [ring -> how many files it keeps]
          Room,       \* [ring -> segment_bytes]
          MaxStamp    \* bound: packets in a behaviour

\* The order in which the rings are opened, and the header of their files.
Rings  == {"log", "recent", "control"}
Order  == <<"log", "recent", "control">>
Header == [r \in Rings |-> IF r = "log" THEN 0 ELSE 1]

ASSUME RecorderAssumption ==
    /\ \A r \in Rings : /\ Segments[r] \in Nat \ {0, 1}
                        /\ Room[r] \in Nat /\ Room[r] > Header[r]
    /\ MaxStamp \in Nat

VARIABLES stamp, phase,  \* "off", "recording" or "stopping"
          todo,          \* the rings the packet at hand has still to go to
          ring           \* [ring -> its files and its memory]

recorderVars == <<stamp, phase, todo, ring>>

Slots(r) == 0..(Segments[r] - 1)
Missing  == [time |-> 0, size |-> 0]

\* The memory of a ring: the slot it writes for, whether its partial file has
\* a record, how many bytes, and when the last was written.  The sums a ring
\* keeps for its status are left out.
Memory(slot, has, bytes, written) ==
    [slot |-> slot, has |-> has, bytes |-> bytes, written |-> written]

Unused == Memory(0, FALSE, 0, 0)

SegmentFiles(r) == [Slots(r) -> [time : 0..MaxStamp, size : Nat]]

RecorderTypeOK ==
    /\ stamp \in 0..MaxStamp /\ phase \in {"off", "recording", "stopping"}
    /\ todo \in Seq(Rings) /\ Len(todo) <= 3
    /\ \A r \in Rings :
          /\ ring[r].files \in SegmentFiles(r) /\ ring[r].partial \subseteq Slots(r)
          /\ ring[r].mem.slot \in Slots(r) /\ ring[r].mem.bytes \in 0..Room[r]

RecorderInit ==
    /\ stamp = 0 /\ phase = "off" /\ todo = <<>>
    /\ ring = [r \in Rings |->
                 [files |-> [s \in Slots(r) |-> Missing], partial |-> {},
                  open |-> FALSE, mem |-> Unused]]

-----------------------------------------------------------------------------
(* One ring.                                                               *)

Present(files) == {s \in DOMAIN files : files[s].time # 0}

\* Mutant of FirstSlot: a ring always begins at its first slot.
FirstOfAll(files) == CHOOSE s \in DOMAIN files : \A t \in DOMAIN files : s <= t

\* The slot a ring begins with: the first that has no file, or else the one
\* whose file is the oldest.
FirstSlot(files) ==
    LET Absent == DOMAIN files \ Present(files)
        Older(s, t) == \/ files[s].time < files[t].time
                       \/ files[s].time = files[t].time /\ s <= t
    IN  IF Absent # {} THEN CHOOSE s \in Absent : \A t \in Absent : s <= t
        ELSE CHOOSE s \in DOMAIN files : \A t \in DOMAIN files : Older(s, t)

\* df_open_partial: a new partial file for the slot the memory m points at.
Opened(r, files, m) ==
    [files |-> files, partial |-> {m.slot}, open |-> TRUE,
     mem |-> Memory(m.slot, FALSE, Header[r], m.written)]

\* df_pcap_ring_init, df_evidence_log_open: what a ring starts from.
Fresh(r) ==
    LET files == ring[r].files
    IN  Opened(r, files, Memory(FirstSlot(files), FALSE, 0, 0))

\* df_finalize_partial: an empty partial is removed, another one takes the
\* place of the slot's file.
Finalized(r, moved) ==
    LET m == ring[r].mem
    IN  [files   |-> IF m.has
                     THEN [ring[r].files EXCEPT ![m.slot] =
                              [time |-> m.written, size |-> m.bytes]]
                     ELSE ring[r].files,
         partial |-> {}, open |-> FALSE, mem |-> moved]

\* A failed flush, fsync, close or rename: the partial stays behind.
NotFinalized(r) == [ring[r] EXCEPT !.open = FALSE]

Full(r) == ring[r].mem.has /\ ring[r].mem.bytes + 1 > Room[r]

\* The ring moves on to the next slot.
Onward(r) ==
    LET m == ring[r].mem
    IN  Memory((m.slot + 1) % Segments[r], m.has, m.bytes, m.written)

\* The record goes to the partial file of the ring.
Appended(r) ==
    LET m == ring[r].mem
    IN  [ring[r] EXCEPT !.mem = Memory(m.slot, TRUE, m.bytes + 1, stamp)]

-----------------------------------------------------------------------------
(* The process.                                                            *)

\* The rings are opened one after the other; when a step fails the ones that
\* were opened are closed again, which removes their empty partials.  The
\* one that failed may have removed its own before.
StartFails(opened) ==
    /\ opened < 3
    /\ \E removed \in {{}, {Order[opened + 1]}} :
          LET touched == {Order[i] : i \in 1..opened} \cup removed
          IN  ring' = [r \in Rings |->
                         IF r \in touched
                         THEN [ring[r] EXCEPT !.partial = {}] ELSE ring[r]]
    /\ UNCHANGED <<stamp, phase, todo>>

Start ==
    /\ phase = "off"
    /\ \/ /\ phase' = "recording"
          /\ ring' = [r \in Rings |-> Fresh(r)]
          /\ UNCHANGED <<stamp, todo>>
       \/ \E opened \in 0..2 : StartFails(opened)

Fail == phase' = "stopping" /\ todo' = <<>>

\* The rings a packet goes to: one of the observed ports to the first, one
\* that is a valid control frame to all three.
Routes == {<<"recent">>, <<"recent", "control", "log">>}

\* A packet of any other kind changes nothing.  Without room above the
\* reserve, or when the space cannot be told, the process stops.
Packet ==
    /\ phase = "recording" /\ todo = <<>> /\ stamp < MaxStamp
    /\ stamp' = stamp + 1
    /\ \/ /\ todo' \in Routes
          /\ UNCHANGED phase
       \/ Fail
    /\ UNCHANGED ring

\* A full segment is finalised and the ring moves on to the next slot.
Rotate ==
    /\ phase = "recording" /\ todo # <<>>
    /\ LET r == Head(todo)
       IN  /\ ring[r].open /\ Full(r)
           /\ \/ /\ ring' = [ring EXCEPT ![r] = Finalized(r, Onward(r))]
                 /\ UNCHANGED <<phase, todo>>
              \/ ring' = [ring EXCEPT ![r] = NotFinalized(r)] /\ Fail
    /\ UNCHANGED stamp

Reopen ==
    /\ phase = "recording" /\ todo # <<>>
    /\ LET r == Head(todo)
       IN  /\ ~ring[r].open
           /\ \/ /\ ring' = [ring EXCEPT ![r] =
                        Opened(r, ring[r].files, ring[r].mem)]
                 /\ UNCHANGED <<phase, todo>>
              \/ Fail /\ UNCHANGED ring
    /\ UNCHANGED stamp

\* The log is written after a check of the space of its own.  A record that
\* cannot be written ends the process, with the file still open.
Write ==
    /\ phase = "recording" /\ todo # <<>>
    /\ LET r == Head(todo)
       IN  /\ ring[r].open /\ ~Full(r)
           /\ \/ ring' = [ring EXCEPT ![r] = Appended(r)]
                 /\ todo' = Tail(todo) /\ UNCHANGED phase
              \/ Fail /\ UNCHANGED ring
    /\ UNCHANGED stamp

\* A signal between two packets, or the end of the capture.
Stop ==
    /\ phase = "recording" /\ todo = <<>>
    /\ Fail /\ UNCHANGED <<stamp, ring>>

\* On the way out every open file is finalised, a failure changing nothing
\* for the others.
Close ==
    /\ phase = "stopping"
    /\ LET open == {i \in 1..3 : ring[Order[i]].open}
       IN  IF open = {}
           THEN /\ phase' = "off"
                /\ ring' = [r \in Rings |-> [ring[r] EXCEPT !.mem = Unused]]
           ELSE LET i == CHOOSE i \in open : \A j \in open : i <= j
                    r == Order[i]
                IN  /\ \E done \in {Finalized(r, ring[r].mem), NotFinalized(r)} :
                           ring' = [ring EXCEPT ![r] = done]
                    /\ UNCHANGED phase
    /\ UNCHANGED <<stamp, todo>>

\* The process or the machine dies: the partials stay as they are.
Crash ==
    /\ phase # "off"
    /\ phase' = "off" /\ todo' = <<>>
    /\ ring' = [r \in Rings |->
                  [ring[r] EXCEPT !.open = FALSE, !.mem = Unused]]
    /\ UNCHANGED stamp

RecorderNext ==
    Start \/ Packet \/ Rotate \/ Reopen \/ Write \/ Stop \/ Close \/ Crash

RecorderSpec == RecorderInit /\ [][RecorderNext]_recorderVars

-----------------------------------------------------------------------------
\* A completed segment is lost only to a newer one, and only the oldest of a
\* ring that has no empty slot, whatever failed, died or was started again in
\* between (pcap_ring.c:178, pcap_ring.c:211, evidence_log.c:217).
NewestKept ==
    [][\A r \in Rings : \A s \in Slots(r) :
          LET old == ring[r].files
              new == ring'[r].files
          IN  new[s] # old[s] =>
                /\ \A t \in Slots(r) \ {s} : old[t].time < new[s].time
                /\ old[s] # Missing =>
                      \A t \in Slots(r) :
                          old[t] # Missing /\ old[s].time <= old[t].time
      ]_recorderVars
=============================================================================
