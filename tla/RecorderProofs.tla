--------------------------- MODULE RecorderProofs ---------------------------
(***************************************************************************)
(* Proofs about the evidence recorder, for every number and size of the    *)
(* segments and every number of packets.                                   *)
(***************************************************************************)
EXTENDS Recorder, TLAPS

\* What is left of the way of a packet.
Todos == {<<>>, <<"recent">>, <<"recent", "control", "log">>,
          <<"control", "log">>, <<"log">>}

\* The files of a ring are in the order of time round from slot p: those
\* before p were all written, those from p on all were or none was.
Round(files, p) ==
    \A s, t \in DOMAIN files :
       /\ s < p => files[s].time > 0
       /\ p <= s /\ p <= t => (files[s].time = 0 <=> files[t].time = 0)
       /\ s < t /\ t < p => files[s].time < files[t].time
       /\ s < p /\ p <= t => files[t].time < files[s].time
       /\ s < t /\ p <= s /\ files[s].time # 0 => files[s].time < files[t].time

-----------------------------------------------------------------------------
(* The order of the files, for n slots.                                    *)

LEMMA NextSlot ==
  ASSUME NEW n \in Nat \ {0}, NEW p \in 0..(n - 1)
  PROVE  (p + 1) % n = IF p + 1 = n THEN 0 ELSE p + 1
OBVIOUS

\* A file newer than all at slot p leaves the order round from the next slot.
LEMMA RoundMoves ==
  ASSUME NEW n \in Nat \ {0}, NEW p \in 0..(n - 1),
         NEW f \in [0..(n - 1) -> [time : Nat, size : Nat]], Round(f, p),
         NEW x \in [time : Nat, size : Nat],
         \A s \in 0..(n - 1) : f[s].time < x.time
  PROVE  Round([f EXCEPT ![p] = x], (p + 1) % n)
<1> DEFINE g == [f EXCEPT ![p] = x]
           q == (p + 1) % n
<1>1. q = IF p + 1 = n THEN 0 ELSE p + 1
  BY NextSlot
<1>2. /\ DOMAIN f = 0..(n - 1) /\ DOMAIN g = 0..(n - 1)
      /\ g[p].time = x.time /\ x.time \in Nat
      /\ \A s \in 0..(n - 1) : /\ f[s].time \in Nat /\ g[s].time \in Nat
                               /\ s # p => g[s].time = f[s].time
  OBVIOUS
<1> HIDE DEF g, q
<1>3. SUFFICES ASSUME NEW s \in 0..(n - 1), NEW t \in 0..(n - 1)
      PROVE  /\ s < q => g[s].time > 0
             /\ q <= s /\ q <= t => (g[s].time = 0 <=> g[t].time = 0)
             /\ s < t /\ t < q => g[s].time < g[t].time
             /\ s < q /\ q <= t => g[t].time < g[s].time
             /\ s < t /\ q <= s /\ g[s].time # 0 => g[s].time < g[t].time
  BY <1>2 DEF Round, g, q
<1>4. /\ \A u \in 0..(n - 1) : u < p => f[u].time > 0
      /\ \A u, v \in 0..(n - 1) : p <= u /\ p <= v /\ f[u].time = 0 => f[v].time = 0
      /\ \A u, v \in 0..(n - 1) : u < v /\ v < p => f[u].time < f[v].time
      /\ \A u, v \in 0..(n - 1) : u < p /\ p <= v => f[v].time < f[u].time
      /\ \A u, v \in 0..(n - 1) :
            u < v /\ p <= u /\ f[u].time # 0 => f[u].time < f[v].time
  BY <1>2 DEF Round
<1>5. g[p].time > 0 /\ g[p].time > f[p].time
  BY <1>2
<1>6. CASE p + 1 = n
  <2>1. q = 0
    BY <1>1, <1>6
  <2>2. \A u \in 0..(n - 1) : u = p \/ u < p
    BY <1>6
  <2>3. \A u \in 0..(n - 1) : g[u].time > 0
    BY <1>2, <1>4, <1>5, <2>2
  <2>4. s < t => g[s].time < g[t].time
    <3>1. SUFFICES ASSUME s < t PROVE g[s].time < g[t].time
      OBVIOUS
    <3>2. s < p
      BY <1>6, <3>1
    <3>3. g[s].time = f[s].time
      BY <1>2, <3>2
    <3>4. CASE t = p
      BY <1>2, <3>3, <3>4
    <3>5. CASE t < p
      BY <1>2, <1>4, <3>1, <3>3, <3>5
    <3> QED BY <2>2, <3>4, <3>5
  <2>5. ~(s < q) /\ ~(t < q)
    BY <2>1
  <2>6. g[s].time > 0 /\ g[t].time > 0 /\ g[s].time \in Nat /\ g[t].time \in Nat
    BY <1>2, <2>3
  <2>7. g[s].time # 0 /\ g[t].time # 0
    BY <2>6
  <2> QED BY <2>4, <2>5, <2>7
<1>7. CASE p + 1 # n
  <2>1. q = p + 1
    BY <1>1, <1>7
  <2>2. s < q => g[s].time > 0
    <3>1. s < q => s = p \/ s < p
      BY <2>1
    <3> QED BY <1>2, <1>4, <1>5, <3>1
  <2>3. q <= s /\ q <= t /\ g[s].time = 0 => g[t].time = 0
    <3>1. \A u \in 0..(n - 1) : q <= u => p <= u /\ u # p
      BY <2>1
    <3> QED BY <1>2, <1>4, <3>1
  <2>4. q <= s /\ q <= t /\ g[t].time = 0 => g[s].time = 0
    <3>1. \A u \in 0..(n - 1) : q <= u => p <= u /\ u # p
      BY <2>1
    <3> QED BY <1>2, <1>4, <3>1
  <2>5. s < t /\ t < q => g[s].time < g[t].time
    <3>1. SUFFICES ASSUME s < t, t < q PROVE g[s].time < g[t].time
      OBVIOUS
    <3>2. s < p /\ (t = p \/ t < p)
      BY <2>1, <3>1
    <3>3. g[s].time = f[s].time
      BY <1>2, <3>2
    <3>4. CASE t = p
      BY <1>2, <3>3, <3>4
    <3>5. CASE t < p
      BY <1>2, <1>4, <3>1, <3>3, <3>5
    <3> QED BY <3>2, <3>4, <3>5
  <2>6. s < q /\ q <= t => g[t].time < g[s].time
    <3>1. SUFFICES ASSUME s < q, q <= t PROVE g[t].time < g[s].time
      OBVIOUS
    <3>2. p <= t /\ t # p /\ (s = p \/ s < p)
      BY <2>1, <3>1
    <3>3. g[t].time = f[t].time
      BY <1>2, <3>2
    <3>4. CASE s = p
      BY <1>2, <3>3, <3>4
    <3>5. CASE s < p
      BY <1>2, <1>4, <3>2, <3>3, <3>5
    <3> QED BY <3>2, <3>4, <3>5
  <2>7. s < t /\ q <= s /\ g[s].time # 0 => g[s].time < g[t].time
    <3>1. SUFFICES ASSUME s < t, q <= s, g[s].time # 0 PROVE g[s].time < g[t].time
      OBVIOUS
    <3>2. p <= s /\ s # p /\ t # p
      BY <2>1, <3>1
    <3> QED BY <1>2, <1>4, <3>1, <3>2
  <2> QED BY <2>2, <2>3, <2>4, <2>5, <2>6, <2>7
<1> QED BY <1>6, <1>7

\* A ring is opened at the slot its order goes round from.
LEMMA FirstIsNext ==
  ASSUME NEW n \in Nat \ {0}, NEW p \in 0..(n - 1),
         NEW f \in [0..(n - 1) -> [time : Nat, size : Nat]], Round(f, p)
  PROVE  FirstSlot(f) = p
<1> DEFINE Absent == (0..(n - 1)) \ Present(f)
           Older(s, t) == \/ f[s].time < f[t].time
                          \/ f[s].time = f[t].time /\ s <= t
<1>1. DOMAIN f = 0..(n - 1) /\ \A s \in 0..(n - 1) : f[s].time \in Nat
  OBVIOUS
<1>2. FirstSlot(f) = IF Absent # {} THEN CHOOSE s \in Absent : \A t \in Absent : s <= t
                     ELSE CHOOSE s \in 0..(n - 1) : \A t \in 0..(n - 1) : Older(s, t)
  BY <1>1 DEF FirstSlot
<1>3. Absent = {s \in 0..(n - 1) : f[s].time = 0}
  BY <1>1 DEF Present
<1>4. /\ \A u \in 0..(n - 1) : u < p => f[u].time > 0
      /\ \A u, v \in 0..(n - 1) : p <= u /\ p <= v /\ f[u].time = 0 => f[v].time = 0
      /\ \A u, v \in 0..(n - 1) : u < v /\ v < p => f[u].time < f[v].time
      /\ \A u, v \in 0..(n - 1) : u < p /\ p <= v => f[v].time < f[u].time
      /\ \A u, v \in 0..(n - 1) :
            u < v /\ p <= u /\ f[u].time # 0 => f[u].time < f[v].time
  BY <1>1 DEF Round
<1> HIDE DEF Absent
<1>5. CASE f[p].time = 0
  <2>1. p \in Absent
    BY <1>3, <1>5
  <2>2. \A t \in Absent : t \in 0..(n - 1) /\ p <= t
    BY <1>1, <1>3, <1>4
  <2>3. \A s \in Absent : (\A t \in Absent : s <= t) => s = p
    BY <2>1, <2>2
  <2> QED BY <1>2, <2>1, <2>2, <2>3
<1>6. CASE f[p].time # 0
  <2>1. Absent = {}
    <3>1. ASSUME NEW s \in Absent PROVE FALSE
      <4>1. s \in 0..(n - 1) /\ f[s].time = 0
        BY <1>3, <3>1
      <4>2. s < p \/ p <= s
        BY <4>1
      <4> QED BY <1>1, <1>4, <1>6, <4>1, <4>2
    <3> QED BY <3>1
  <2>2. \A t \in 0..(n - 1) : t # p => f[p].time < f[t].time
    <3>1. SUFFICES ASSUME NEW t \in 0..(n - 1), t # p PROVE f[p].time < f[t].time
      OBVIOUS
    <3>2. t < p \/ p < t
      BY <3>1
    <3> QED BY <1>1, <1>4, <1>6, <3>2
  <2>3. \A t \in 0..(n - 1) : Older(p, t)
    BY <1>1, <2>2
  <2>4. \A s \in 0..(n - 1) : (\A t \in 0..(n - 1) : Older(s, t)) => s = p
    <3>1. SUFFICES ASSUME NEW s \in 0..(n - 1), s # p, Older(s, p) PROVE FALSE
      OBVIOUS
    <3> QED BY <1>1, <2>2, <3>1
  <2> QED BY <1>2, <2>1, <2>3, <2>4
<1> QED BY <1>5, <1>6
-----------------------------------------------------------------------------
(* One ring.                                                               *)

Memories(r) == [slot : Slots(r), has : BOOLEAN, bytes : 0..Room[r],
                written : 0..MaxStamp]

RingType(r) == [files : SegmentFiles(r), partial : SUBSET Slots(r),
                open : BOOLEAN, mem : Memories(r)]

\* What ring r is, R, is older than t: every file, and the record in its
\* partial file.
Before(R, r, t) ==
    /\ \A s \in Slots(r) : R.files[s].time < t
    /\ R.open /\ R.mem.has => R.mem.written < t

\* A ring whose files are in order; its partial file is newer than all.
Sound(R, r) ==
    /\ R \in RingType(r)
    /\ \A s \in Slots(r) : R.files[s].time = 0 => R.files[s] = Missing
    /\ \E p \in Slots(r) : Round(R.files, p)
    /\ R.open /\ R.mem.has =>
          \A s \in Slots(r) : R.files[s].time < R.mem.written
    /\ R.open /\ ~R.mem.has => R.mem.bytes = Header[r]

\* The slot in its memory is the one to write.
Aimed(R) == Round(R.files, R.mem.slot)

\* The change of a ring's files that NewestKept allows.
Kept(old, new, r) ==
    \A s \in Slots(r) :
       new[s] # old[s] =>
          /\ \A t \in Slots(r) \ {s} : old[t].time < new[s].time
          /\ old[s] # Missing =>
                \A t \in Slots(r) : old[t] # Missing /\ old[s].time <= old[t].time

LEMMA SlotsType ==
  ASSUME NEW r \in Rings
  PROVE  /\ Segments[r] \in Nat \ {0} /\ Slots(r) = 0..(Segments[r] - 1)
         /\ 0 \in Slots(r)
         /\ Room[r] \in Nat /\ Header[r] \in 0..1 /\ Header[r] < Room[r]
BY RecorderAssumption DEF Slots, Header, Rings

LEMMA FilesType ==
  ASSUME NEW r \in Rings, NEW f \in SegmentFiles(r)
  PROVE  /\ f \in [0..(Segments[r] - 1) -> [time : Nat, size : Nat]]
         /\ DOMAIN f = Slots(r)
         /\ \A s \in Slots(r) : f[s].time \in 0..MaxStamp /\ f[s].size \in Nat
BY RecorderAssumption DEF SegmentFiles, Slots

LEMMA MemoryType ==
  ASSUME NEW r \in Rings, NEW slot \in Slots(r), NEW has \in BOOLEAN,
         NEW bytes \in 0..Room[r], NEW written \in 0..MaxStamp
  PROVE  /\ Memory(slot, has, bytes, written) \in Memories(r)
         /\ Memory(slot, has, bytes, written).slot = slot
         /\ Memory(slot, has, bytes, written).has = has
         /\ Memory(slot, has, bytes, written).bytes = bytes
         /\ Memory(slot, has, bytes, written).written = written
BY DEF Memory, Memories

\* A new partial file for the slot of m.
LEMMA OpenedSound ==
  ASSUME NEW r \in Rings, NEW R, Sound(R, r), NEW m \in Memories(r)
  PROVE  /\ Sound(Opened(r, R.files, m), r)
         /\ Opened(r, R.files, m).files = R.files
         /\ Opened(r, R.files, m).open
         /\ Opened(r, R.files, m).mem.slot = m.slot
         /\ ~Opened(r, R.files, m).mem.has
<1> DEFINE O == Opened(r, R.files, m)
           k == Memory(m.slot, FALSE, Header[r], m.written)
<1>1. O = [files |-> R.files, partial |-> {m.slot}, open |-> TRUE, mem |-> k]
  BY DEF Opened
<1>2. m.slot \in Slots(r) /\ m.written \in 0..MaxStamp
  BY DEF Memories
<1>3. k \in Memories(r) /\ k.slot = m.slot /\ ~k.has /\ k.bytes = Header[r]
  <2>1. Header[r] \in 0..Room[r]
    BY SlotsType
  <2>2. k \in Memories(r)
    BY <1>2, <2>1 DEF Memory, Memories
  <2>3. k.slot = m.slot /\ ~k.has /\ k.bytes = Header[r]
    BY DEF Memory
  <2> QED BY <2>2, <2>3
<1>4. R.files \in SegmentFiles(r)
  BY DEF Sound, RingType
<1> HIDE DEF k
<1>5. /\ O.files = R.files /\ O.open = TRUE /\ O.mem = k
      /\ O \in RingType(r)
  BY <1>1, <1>2, <1>3, <1>4 DEF RingType
<1> HIDE DEF O
<1>6. Sound(O, r)
  BY <1>3, <1>5 DEF Sound
<1> QED BY <1>3, <1>5, <1>6 DEF O

\* A file that could not be finished.
LEMMA NotFinalizedSound ==
  ASSUME NEW r \in Rings, Sound(ring[r], r)
  PROVE  /\ Sound(NotFinalized(r), r)
         /\ NotFinalized(r).files = ring[r].files
         /\ ~NotFinalized(r).open
<1> DEFINE O == NotFinalized(r)
<1>1. /\ O \in RingType(r) /\ O.files = ring[r].files /\ O.open = FALSE
  BY DEF NotFinalized, Sound, RingType
<1> HIDE DEF O
<1>2. Sound(O, r)
  BY <1>1 DEF Sound
<1> QED BY <1>1, <1>2 DEF O

\* A record is newer than what the ring held.
LEMMA AppendedSound ==
  ASSUME NEW r \in Rings, Sound(ring[r], r), ~Full(r), ring[r].open,
         stamp \in 0..MaxStamp, Before(ring[r], r, stamp)
  PROVE  /\ Sound(Appended(r), r)
         /\ Appended(r).files = ring[r].files
         /\ Appended(r).mem.slot = ring[r].mem.slot
         /\ Before(Appended(r), r, stamp + 1)
         /\ Appended(r).open
<1> DEFINE m == ring[r].mem
           k == Memory(m.slot, TRUE, m.bytes + 1, stamp)
           O == Appended(r)
<1>1. /\ m \in Memories(r) /\ ring[r].files \in SegmentFiles(r)
      /\ ring[r] \in RingType(r)
  BY DEF Sound, RingType
<1>2. m.slot \in Slots(r) /\ m.bytes \in 0..Room[r] /\ m.has \in BOOLEAN
  BY <1>1 DEF Memories
<1>3. m.bytes + 1 \in 0..Room[r]
  <2>1. CASE m.has
    BY <1>2, <2>1, SlotsType DEF Full
  <2>2. CASE ~m.has
    BY <1>2, <2>2, SlotsType DEF Sound
  <2> QED BY <2>1, <2>2
<1>4. /\ k \in Memories(r) /\ k.slot = m.slot /\ k.has /\ k.written = stamp
  <2>1. k \in Memories(r)
    BY <1>2, <1>3 DEF Memory, Memories
  <2>2. k.slot = m.slot /\ k.has /\ k.written = stamp
    BY DEF Memory
  <2> QED BY <2>1, <2>2
<1> HIDE DEF k
<1>5. /\ O \in RingType(r) /\ O.files = ring[r].files /\ O.mem = k
      /\ O.open = ring[r].open
  BY <1>1, <1>4 DEF Appended, RingType, k
<1> HIDE DEF O
<1>6. \A s \in Slots(r) : O.files[s].time < stamp
  BY <1>5 DEF Before
<1>7. Sound(O, r)
  BY <1>4, <1>5, <1>6 DEF Sound
<1>8. Before(O, r, stamp + 1)
  <2>1. \A s \in Slots(r) : O.files[s].time \in Nat /\ O.files[s].time < stamp + 1
    BY <1>1, <1>5, <1>6, FilesType, RecorderAssumption
  <2>2. O.mem.written < stamp + 1
    BY <1>4, <1>5, RecorderAssumption
  <2> QED BY <2>1, <2>2 DEF Before
<1> QED BY <1>4, <1>5, <1>7, <1>8 DEF O

\* A finished file, which is the newest, in the place of the oldest or of none.
LEMMA FinalizedSound ==
  ASSUME NEW r \in Rings, Sound(ring[r], r), ring[r].open, Aimed(ring[r]),
         NEW moved \in Memories(r)
  PROVE  /\ Sound(Finalized(r, moved), r)
         /\ ~Finalized(r, moved).open
         /\ Finalized(r, moved).mem = moved
         /\ Kept(ring[r].files, Finalized(r, moved).files, r)
         /\ \A t \in Int : Before(ring[r], r, t) => Before(Finalized(r, moved), r, t)
         /\ ring[r].mem.has =>
               Round(Finalized(r, moved).files, (ring[r].mem.slot + 1) % Segments[r])
<1> DEFINE m == ring[r].mem
           n == Segments[r]
           f == ring[r].files
           x == [time |-> m.written, size |-> m.bytes]
           g == [f EXCEPT ![m.slot] = x]
           O == Finalized(r, moved)
<1>1. /\ m \in Memories(r) /\ f \in SegmentFiles(r)
      /\ m.slot \in Slots(r) /\ m.written \in 0..MaxStamp /\ m.bytes \in Nat
  BY SlotsType DEF Sound, RingType, Memories
<1>2. /\ n \in Nat \ {0} /\ Slots(r) = 0..(n - 1)
      /\ f \in [0..(n - 1) -> [time : Nat, size : Nat]]
      /\ DOMAIN f = Slots(r)
      /\ \A s \in Slots(r) : f[s].time \in Nat
  BY <1>1, SlotsType, FilesType, RecorderAssumption
<1>3. /\ O = [files |-> IF m.has THEN g ELSE f, partial |-> {}, open |-> FALSE,
              mem |-> moved]
  BY DEF Finalized
<1>4. O.files = (IF m.has THEN g ELSE f) /\ ~O.open /\ O.mem = moved
  BY <1>3
<1>5. CASE ~m.has
  <2>1. O.files = f
    BY <1>4, <1>5
  <2>2. O \in RingType(r)
    BY <1>1, <1>3, <1>5 DEF RingType
  <2> HIDE DEF O
  <2>3. Sound(O, r)
    BY <1>4, <2>1, <2>2 DEF Sound
  <2>4. Kept(f, O.files, r)
    BY <2>1 DEF Kept
  <2>5. \A t \in Int : Before(ring[r], r, t) => Before(O, r, t)
    BY <1>4, <2>1 DEF Before
  <2> QED BY <1>4, <1>5, <2>3, <2>4, <2>5 DEF O
<1>6. CASE m.has
  <2>1. O.files = g
    BY <1>4, <1>6
  <2>2. /\ x \in [time : 0..MaxStamp, size : Nat] /\ x \in [time : Nat, size : Nat]
        /\ x.time = m.written
    BY <1>1, RecorderAssumption
  <2>3. \A s \in Slots(r) : f[s].time < x.time
    BY <1>6, <2>2 DEF Sound
  <2> HIDE DEF x
  <2>4. g \in SegmentFiles(r)
    BY <1>1, <2>2 DEF SegmentFiles
  <2>5. O \in RingType(r)
    BY <1>3, <1>6, <2>4 DEF RingType
  <2>6. g[m.slot] = x /\ \A s \in Slots(r) : s # m.slot => g[s] = f[s]
    BY <1>1, <1>2
  <2>7. Round(f, m.slot)
    BY DEF Aimed
  <2>8. Round(g, (m.slot + 1) % n)
    BY <1>1, <1>2, <2>2, <2>3, <2>7, RoundMoves
  <2>9. (m.slot + 1) % n \in Slots(r)
    BY <1>1, <1>2
  <2>10. x.time > 0
    <3>1. x.time \in Nat
      BY <2>2
    <3>2. f[m.slot].time \in Nat /\ f[m.slot].time < x.time
      BY <1>1, <1>2, <2>3
    <3> HIDE DEF x, f, m
    <3> QED BY <3>1, <3>2
  <2> HIDE DEF O, g, f
  <2>11. \A s \in Slots(r) : g[s].time = 0 => g[s] = Missing
    BY <2>6, <2>10 DEF Sound, f
  <2>12. Sound(O, r)
    BY <1>4, <2>1, <2>5, <2>8, <2>9, <2>11 DEF Sound
  <2>13. Kept(f, g, r)
    <3>1. SUFFICES ASSUME NEW s \in Slots(r), g[s] # f[s]
          PROVE  /\ \A t \in Slots(r) \ {s} : f[t].time < g[s].time
                 /\ f[s] # Missing =>
                       \A t \in Slots(r) : f[t] # Missing /\ f[s].time <= f[t].time
      BY DEF Kept
    <3>2. s = m.slot /\ g[s] = x
      BY <2>6, <3>1
    <3>3. \A t \in Slots(r) \ {s} : f[t].time < g[s].time
      BY <2>3, <3>2
    <3>4. ASSUME f[s] # Missing, NEW t \in Slots(r)
          PROVE  f[t] # Missing /\ f[s].time <= f[t].time
      <4>1. f[s].time # 0
        BY <3>4 DEF Sound, f
      <4>2. /\ s <= t => (f[s].time = 0 <=> f[t].time = 0)
            /\ s < t => f[s].time < f[t].time
            /\ t < s => f[t].time > 0 /\ f[s].time < f[t].time
        BY <1>1, <1>2, <2>7, <3>2, <4>1 DEF Round
      <4>3. s < t \/ t < s \/ s = t
        BY <1>2
      <4>4. f[t].time # 0 /\ f[s].time <= f[t].time
        BY <1>2, <4>1, <4>2, <4>3
      <4> QED BY <4>4 DEF Missing
    <3> QED BY <3>3, <3>4
  <2>14. ASSUME NEW t \in Int, Before(ring[r], r, t) PROVE Before(O, r, t)
    <3>1. m.written < t
      BY <1>6, <2>14 DEF Before
    <3>2. \A s \in Slots(r) : g[s].time < t
      BY <2>2, <2>6, <2>14, <3>1 DEF Before, f
    <3> QED BY <1>4, <2>1, <3>2 DEF Before
  <2> QED BY <1>4, <2>1, <2>8, <2>12, <2>13, <2>14 DEF O, f
<1> QED BY <1>5, <1>6

\* A ring that is opened again goes on where it stopped.
LEMMA FreshSound ==
  ASSUME NEW r \in Rings, Sound(ring[r], r)
  PROVE  /\ Sound(Fresh(r), r) /\ Aimed(Fresh(r))
         /\ Fresh(r).files = ring[r].files
         /\ ~Fresh(r).mem.has
<1> DEFINE f == ring[r].files
           m == Memory(FirstSlot(f), FALSE, 0, 0)
<1>1. PICK p \in Slots(r) : Round(f, p)
  BY DEF Sound
<1>2. /\ Segments[r] \in Nat \ {0} /\ Slots(r) = 0..(Segments[r] - 1)
      /\ f \in [0..(Segments[r] - 1) -> [time : Nat, size : Nat]]
  BY SlotsType, FilesType DEF Sound, RingType
<1>3. FirstSlot(f) = p
  BY <1>1, <1>2, FirstIsNext
<1>4. m = Memory(p, FALSE, 0, 0)
  BY <1>3
<1>5. m \in Memories(r) /\ m.slot = p
  <2>1. 0 \in 0..MaxStamp /\ 0 \in 0..Room[r]
    BY SlotsType, RecorderAssumption
  <2> QED BY <1>1, <1>4, <2>1 DEF Memory, Memories
<1>6. Fresh(r) = Opened(r, ring[r].files, m)
  BY DEF Fresh
<1> HIDE DEF m
<1>7. /\ Sound(Fresh(r), r) /\ Fresh(r).files = ring[r].files
      /\ Fresh(r).mem.slot = p /\ ~Fresh(r).mem.has
  BY <1>5, <1>6, OpenedSound
<1> QED BY <1>1, <1>7 DEF Aimed

-----------------------------------------------------------------------------
(* The invariant.                                                          *)

Ahead(way) == {way[i] : i \in DOMAIN way}

RingInv(r) ==
    /\ Sound(ring[r], r)
    /\ phase = "recording" \/ ring[r].open => Aimed(ring[r])
    /\ Before(ring[r], r, stamp + 1)
    /\ r \in Ahead(todo) => Before(ring[r], r, stamp)
    /\ phase = "off" => ~ring[r].open

RecorderInv ==
    /\ stamp \in 0..MaxStamp /\ phase \in {"off", "recording", "stopping"}
    /\ todo \in Todos
    /\ phase # "recording" => todo = <<>>
    /\ ring = [r \in Rings |-> ring[r]]
    /\ \A r \in Rings : RingInv(r)

\* The change of all files in one step.
Moves == \A r \in Rings : Kept(ring[r].files, ring'[r].files, r)

LEMMA TodoHead ==
  ASSUME todo \in Todos, todo # <<>>
  PROVE  /\ Head(todo) \in Rings /\ Tail(todo) \in Todos
         /\ Head(todo) \in Ahead(todo)
         /\ Ahead(Tail(todo)) \subseteq Ahead(todo) \ {Head(todo)}
<1>1. CASE todo = <<"recent">>
  BY <1>1 DEF Todos, Rings, Ahead
<1>2. CASE todo = <<"recent", "control", "log">>
  BY <1>2 DEF Todos, Rings, Ahead
<1>3. CASE todo = <<"control", "log">>
  BY <1>3 DEF Todos, Rings, Ahead
<1>4. CASE todo = <<"log">>
  BY <1>4 DEF Todos, Rings, Ahead
<1> QED BY <1>1, <1>2, <1>3, <1>4 DEF Todos

LEMMA TodoTypes ==
  /\ <<>> \in Todos /\ Ahead(<<>>) = {} /\ Routes \subseteq Todos
  /\ \A way \in Todos : way \in Seq(Rings) /\ Len(way) <= 3
<1>1. <<>> \in Todos /\ Routes \subseteq Todos
  BY DEF Todos, Routes
<1>2. Ahead(<<>>) = {}
  BY DEF Ahead
<1>3. ASSUME NEW way \in Todos PROVE way \in Seq(Rings) /\ Len(way) <= 3
  <2>1. CASE way = <<>>
    BY <2>1
  <2>2. CASE way = <<"recent">>
    BY <2>2 DEF Rings
  <2>3. CASE way = <<"recent", "control", "log">>
    BY <2>3 DEF Rings
  <2>4. CASE way = <<"control", "log">>
    BY <2>4 DEF Rings
  <2>5. CASE way = <<"log">>
    BY <2>5 DEF Rings
  <2> QED BY <2>1, <2>2, <2>3, <2>4, <2>5 DEF Todos
<1> QED BY <1>1, <1>2, <1>3

\* A ring the step leaves alone.
LEMMA OtherRing ==
  ASSUME NEW q \in Rings, RingInv(q), ring'[q] = ring[q], stamp' = stamp,
         phase' = "off" => ~ring[q].open,
         phase' = "recording" => phase = "recording",
         Ahead(todo)' \subseteq Ahead(todo)
  PROVE  RingInv(q)' /\ Kept(ring[q].files, ring'[q].files, q)
<1>1. Sound(ring[q], q)' /\ Aimed(ring[q])' = Aimed(ring[q])
  BY DEF RingInv, Sound, Aimed
<1> QED BY <1>1 DEF RingInv, Kept, Before, Aimed

LEMMA RingChanged ==
  ASSUME RecorderInv, NEW r \in Rings, NEW R, ring' = [ring EXCEPT ![r] = R]
  PROVE  /\ ring' = [q \in Rings |-> ring'[q]]
         /\ ring'[r] = R
         /\ \A q \in Rings \ {r} : ring'[q] = ring[q]
BY DEF RecorderInv

\* Nothing that follows makes an older time of a younger one.
LEMMA BeforeLater ==
  ASSUME NEW r \in Rings, NEW R, Sound(R, r), NEW t \in Int, Before(R, r, t)
  PROVE  Before(R, r, t + 1)
<1>1. /\ \A s \in Slots(r) : R.files[s].time \in Int
      /\ R.mem.written \in Int
  BY FilesType, RecorderAssumption DEF Sound, RingType, Memories
<1> QED BY <1>1 DEF Before

-----------------------------------------------------------------------------
(* Each action keeps the invariant, and the files.                         *)

LEMMA StartKeeps == ASSUME RecorderInv, Start PROVE RecorderInv' /\ Moves
<1>1. phase = "off" /\ todo = <<>> /\ UNCHANGED <<stamp, todo>>
  BY DEF Start, StartFails, RecorderInv
<1>2. \A r \in Rings : Sound(ring[r], r) /\ Before(ring[r], r, stamp + 1) /\ ~ring[r].open
  BY <1>1 DEF RecorderInv, RingInv
<1>3. Ahead(todo') = {}
  BY <1>1, TodoTypes
<1>4. CASE phase' = "recording" /\ ring' = [r \in Rings |-> Fresh(r)]
  <2>1. ASSUME NEW r \in Rings
        PROVE  RingInv(r)' /\ Kept(ring[r].files, ring'[r].files, r)
    <3>1. ring'[r] = Fresh(r)
      BY <1>4
    <3>2. /\ Sound(ring'[r], r) /\ Aimed(ring'[r])
          /\ ring'[r].files = ring[r].files /\ ~ring'[r].mem.has
      BY <1>2, <3>1, FreshSound
    <3>3. Before(ring'[r], r, stamp' + 1)
      BY <1>1, <1>2, <3>2 DEF Before
    <3> QED BY <1>3, <1>4, <3>2, <3>3 DEF RingInv, Kept
  <2>2. ring' = [r \in Rings |-> ring'[r]]
    BY <1>4
  <2> QED BY <1>1, <1>4, <2>1, <2>2 DEF RecorderInv, Moves
<1>5. CASE \E opened \in 0..2 : StartFails(opened)
  <2>1. PICK touched : ring' = [r \in Rings |-> IF r \in touched
                                THEN [ring[r] EXCEPT !.partial = {}] ELSE ring[r]]
    BY <1>5 DEF StartFails
  <2>2. phase' = phase
    BY <1>5 DEF StartFails
  <2>3. ASSUME NEW r \in Rings
        PROVE  RingInv(r)' /\ Kept(ring[r].files, ring'[r].files, r)
    <3>1. \/ ring'[r] = ring[r]
          \/ ring'[r] = [ring[r] EXCEPT !.partial = {}]
      BY <2>1
    <3>2. /\ ring'[r] \in RingType(r)
          /\ ring'[r].files = ring[r].files /\ ring'[r].mem = ring[r].mem
          /\ ring'[r].open = ring[r].open
      BY <1>2, <3>1 DEF Sound, RingType
    <3>3. Sound(ring'[r], r)
      BY <1>2, <3>2 DEF Sound
    <3>4. Before(ring'[r], r, stamp' + 1)
      BY <1>1, <1>2, <3>2 DEF Before
    <3> QED BY <1>1, <1>2, <1>3, <2>2, <3>2, <3>3, <3>4 DEF RingInv, Kept
  <2>4. ring' = [r \in Rings |-> ring'[r]]
    BY <2>1
  <2> QED BY <1>1, <2>2, <2>3, <2>4 DEF RecorderInv, Moves
<1> QED BY <1>4, <1>5 DEF Start

LEMMA PacketKeeps == ASSUME RecorderInv, Packet PROVE RecorderInv' /\ Moves
<1>1. /\ phase = "recording" /\ stamp' = stamp + 1 /\ stamp < MaxStamp
      /\ ring' = ring
      /\ \/ todo' \in Routes /\ phase' = phase
         \/ phase' = "stopping" /\ todo' = <<>>
  BY DEF Packet, Fail
<1>2. stamp' \in 0..MaxStamp /\ stamp' \in Int
  BY <1>1, RecorderAssumption DEF RecorderInv
<1>3. /\ todo' \in Todos /\ phase' \in {"off", "recording", "stopping"}
      /\ phase' # "recording" => todo' = <<>>
      /\ phase' # "off"
  BY <1>1, TodoTypes
<1>4. ASSUME NEW r \in Rings
      PROVE  RingInv(r)' /\ Kept(ring[r].files, ring'[r].files, r)
  <2>1. /\ Sound(ring'[r], r) /\ Aimed(ring'[r])
        /\ Before(ring'[r], r, stamp')
    BY <1>1 DEF RecorderInv, RingInv
  <2>2. Before(ring'[r], r, stamp' + 1)
    BY <1>2, <2>1, BeforeLater
  <2>3. Kept(ring[r].files, ring'[r].files, r)
    BY <1>1 DEF Kept
  <2> QED BY <1>3, <2>1, <2>2, <2>3 DEF RingInv
<1> QED BY <1>1, <1>2, <1>3, <1>4 DEF RecorderInv, Moves

\* A step on the first ring the packet has still to go to.
LEMMA HeadRing ==
  ASSUME RecorderInv, todo # <<>>
  PROVE  /\ Head(todo) \in Rings /\ phase = "recording"
         /\ Sound(ring[Head(todo)], Head(todo)) /\ Aimed(ring[Head(todo)])
         /\ Before(ring[Head(todo)], Head(todo), stamp)
         /\ stamp \in 0..MaxStamp /\ stamp \in Int
BY TodoHead, RecorderAssumption DEF RecorderInv, RingInv

\* What a step on ring r alone has to show: r is sound, aimed and old enough.
LEMMA OneRing ==
  ASSUME RecorderInv, NEW r \in Rings, NEW R, ring' = [ring EXCEPT ![r] = R],
         Sound(R, r), Before(R, r, stamp + 1),
         r \in Ahead(todo)' => Before(R, r, stamp),
         phase' = "recording" \/ R.open => Aimed(R),
         Kept(ring[r].files, R.files, r),
         stamp' = stamp, phase # "off",
         phase' = phase \/ phase' = "stopping",
         todo' \in Todos, Ahead(todo)' \subseteq Ahead(todo),
         phase' # "recording" => todo' = <<>>
  PROVE  RecorderInv' /\ Moves
<1>1. /\ ring' = [q \in Rings |-> ring'[q]] /\ ring'[r] = R
      /\ \A q \in Rings \ {r} : ring'[q] = ring[q]
  BY RingChanged
<1>2. phase' \in {"off", "recording", "stopping"} /\ phase' # "off"
      /\ (phase' = "recording" => phase = "recording")
  BY DEF RecorderInv
<1>3. RingInv(r)' /\ Kept(ring[r].files, ring'[r].files, r)
  BY <1>1, <1>2 DEF RingInv
<1>4. ASSUME NEW q \in Rings \ {r}
      PROVE  RingInv(q)' /\ Kept(ring[q].files, ring'[q].files, q)
  BY <1>1, <1>2, OtherRing DEF RecorderInv
<1> QED BY <1>1, <1>2, <1>3, <1>4 DEF RecorderInv, Moves

LEMMA RotateKeeps == ASSUME RecorderInv, Rotate PROVE RecorderInv' /\ Moves
<1> DEFINE r == Head(todo)
<1>1. todo # <<>> /\ ring[r].open /\ Full(r) /\ stamp' = stamp
  BY DEF Rotate
<1>2. /\ r \in Rings /\ phase = "recording"
      /\ Sound(ring[r], r) /\ Aimed(ring[r]) /\ Before(ring[r], r, stamp)
      /\ stamp \in Int
  BY <1>1, HeadRing
<1>3. \/ ring' = [ring EXCEPT ![r] = Finalized(r, Onward(r))] /\ UNCHANGED <<phase, todo>>
      \/ ring' = [ring EXCEPT ![r] = NotFinalized(r)] /\ Fail
  BY DEF Rotate
<1> HIDE DEF r
<1>4. CASE /\ ring' = [ring EXCEPT ![r] = Finalized(r, Onward(r))]
           /\ UNCHANGED <<phase, todo>>
  <2> DEFINE O == Finalized(r, Onward(r))
             slot == (ring[r].mem.slot + 1) % Segments[r]
  <2>1. ring[r].mem \in Memories(r)
    BY <1>2 DEF Sound, RingType
  <2>2. slot \in Slots(r)
    BY <1>2, <2>1, SlotsType DEF Memories
  <2>3. Onward(r) \in Memories(r) /\ Onward(r).slot = slot
    BY <2>1, <2>2 DEF Onward, Memory, Memories
  <2>4. /\ Sound(O, r) /\ ~O.open /\ O.mem = Onward(r)
        /\ Kept(ring[r].files, O.files, r)
        /\ Before(O, r, stamp)
        /\ Round(O.files, slot)
    BY <1>1, <1>2, <2>3, FinalizedSound DEF Full
  <2>5. Before(O, r, stamp + 1)
    BY <1>2, <2>4, BeforeLater
  <2>6. Aimed(O)
    BY <2>3, <2>4 DEF Aimed
  <2> HIDE DEF O
  <2>7. todo' \in Todos /\ Ahead(todo)' = Ahead(todo) /\ phase' = phase
    BY <1>4 DEF RecorderInv
  <2> QED BY <1>1, <1>2, <1>4, <2>4, <2>5, <2>6, <2>7, OneRing DEF O
<1>5. CASE ring' = [ring EXCEPT ![r] = NotFinalized(r)] /\ Fail
  <2> DEFINE O == NotFinalized(r)
  <2>1. Sound(O, r) /\ O.files = ring[r].files /\ ~O.open
    BY <1>2, NotFinalizedSound
  <2> HIDE DEF O
  <2>2. Before(O, r, stamp)
    BY <1>2, <2>1 DEF Before
  <2>3. Before(O, r, stamp + 1)
    BY <1>2, <2>1, <2>2, BeforeLater
  <2>4. Kept(ring[r].files, O.files, r)
    BY <2>1 DEF Kept
  <2>5. phase' = "stopping" /\ todo' = <<>> /\ todo' \in Todos /\ Ahead(todo)' = {}
    BY <1>5, TodoTypes DEF Fail
  <2> QED BY <1>1, <1>2, <1>5, <2>1, <2>2, <2>3, <2>4, <2>5, OneRing DEF O
<1> QED BY <1>3, <1>4, <1>5

LEMMA FailKeeps ==
  ASSUME RecorderInv, phase = "recording", Fail, ring' = ring, stamp' = stamp
  PROVE  RecorderInv' /\ Moves
<1>1. phase' = "stopping" /\ todo' = <<>> /\ todo' \in Todos /\ Ahead(todo)' = {}
  BY TodoTypes DEF Fail
<1>2. ASSUME NEW r \in Rings
      PROVE  RingInv(r)' /\ Kept(ring[r].files, ring'[r].files, r)
  BY <1>1, OtherRing DEF RecorderInv
<1> QED BY <1>1, <1>2 DEF RecorderInv, Moves

LEMMA ReopenKeeps == ASSUME RecorderInv, Reopen PROVE RecorderInv' /\ Moves
<1> DEFINE r == Head(todo)
<1>1. todo # <<>> /\ ~ring[r].open /\ stamp' = stamp
  BY DEF Reopen
<1>2. /\ r \in Rings /\ phase = "recording"
      /\ Sound(ring[r], r) /\ Aimed(ring[r]) /\ Before(ring[r], r, stamp)
      /\ stamp \in Int
  BY <1>1, HeadRing
<1>3. \/ /\ ring' = [ring EXCEPT ![r] = Opened(r, ring[r].files, ring[r].mem)]
         /\ UNCHANGED <<phase, todo>>
      \/ Fail /\ UNCHANGED ring
  BY DEF Reopen
<1> HIDE DEF r
<1>4. CASE /\ ring' = [ring EXCEPT ![r] = Opened(r, ring[r].files, ring[r].mem)]
           /\ UNCHANGED <<phase, todo>>
  <2> DEFINE O == Opened(r, ring[r].files, ring[r].mem)
  <2>1. ring[r].mem \in Memories(r)
    BY <1>2 DEF Sound, RingType
  <2>2. /\ Sound(O, r) /\ O.files = ring[r].files /\ O.open
        /\ O.mem.slot = ring[r].mem.slot /\ ~O.mem.has
    BY <1>2, <2>1, OpenedSound
  <2> HIDE DEF O
  <2>3. Before(O, r, stamp) /\ Aimed(O) /\ Kept(ring[r].files, O.files, r)
    BY <1>2, <2>2 DEF Before, Aimed, Kept
  <2>4. Before(O, r, stamp + 1)
    BY <1>2, <2>2, <2>3, BeforeLater
  <2>5. todo' \in Todos /\ Ahead(todo)' = Ahead(todo) /\ phase' = phase
    BY <1>4 DEF RecorderInv
  <2> QED BY <1>1, <1>2, <1>4, <2>2, <2>3, <2>4, <2>5, OneRing DEF O
<1> QED BY <1>1, <1>2, <1>3, <1>4, FailKeeps

LEMMA WriteKeeps == ASSUME RecorderInv, Write PROVE RecorderInv' /\ Moves
<1> DEFINE r == Head(todo)
<1>1. todo # <<>> /\ ring[r].open /\ ~Full(r) /\ stamp' = stamp
  BY DEF Write
<1>2. /\ r \in Rings /\ phase = "recording"
      /\ Sound(ring[r], r) /\ Aimed(ring[r]) /\ Before(ring[r], r, stamp)
      /\ stamp \in 0..MaxStamp
  BY <1>1, HeadRing
<1>3. \/ /\ ring' = [ring EXCEPT ![r] = Appended(r)]
         /\ todo' = Tail(todo) /\ UNCHANGED phase
      \/ Fail /\ UNCHANGED ring
  BY DEF Write
<1>4. /\ Tail(todo) \in Todos /\ Ahead(Tail(todo)) \subseteq Ahead(todo)
      /\ r \notin Ahead(Tail(todo))
  BY <1>1, TodoHead DEF RecorderInv
<1> HIDE DEF r
<1>5. CASE /\ ring' = [ring EXCEPT ![r] = Appended(r)]
           /\ todo' = Tail(todo) /\ UNCHANGED phase
  <2> DEFINE O == Appended(r)
  <2>1. /\ Sound(O, r) /\ O.files = ring[r].files
        /\ O.mem.slot = ring[r].mem.slot /\ Before(O, r, stamp + 1)
    BY <1>1, <1>2, AppendedSound
  <2> HIDE DEF O
  <2>2. Aimed(O) /\ Kept(ring[r].files, O.files, r)
    BY <1>2, <2>1 DEF Aimed, Kept
  <2>3. Ahead(todo)' = Ahead(Tail(todo)) /\ todo' \in Todos /\ phase' = phase
    BY <1>4, <1>5
  <2> QED BY <1>1, <1>2, <1>4, <1>5, <2>1, <2>2, <2>3, OneRing DEF O
<1> QED BY <1>1, <1>2, <1>3, <1>5, FailKeeps

LEMMA StopKeeps == ASSUME RecorderInv, Stop PROVE RecorderInv' /\ Moves
BY FailKeeps DEF Stop

LEMMA CloseKeeps == ASSUME RecorderInv, Close PROVE RecorderInv' /\ Moves
<1> DEFINE left == {i \in 1..3 : ring[Order[i]].open}
<1>1. /\ phase = "stopping" /\ stamp' = stamp /\ todo' = todo /\ todo = <<>>
      /\ Ahead(todo) = {}
  BY TodoTypes DEF Close, RecorderInv
<1>2. CASE left = {}
  <2>1. phase' = "off" /\ ring' = [r \in Rings |-> [ring[r] EXCEPT !.mem = Unused]]
    BY <1>2 DEF Close
  <2>2. \A r \in Rings : ~ring[r].open
    <3>1. \A i \in 1..3 : ~ring[Order[i]].open
      BY <1>2
    <3>2. Order[1] = "log" /\ Order[2] = "recent" /\ Order[3] = "control"
      BY DEF Order
    <3> QED BY <3>1, <3>2 DEF Rings
  <2>3. ASSUME NEW r \in Rings
        PROVE  RingInv(r)' /\ Kept(ring[r].files, ring'[r].files, r)
    <3>1. Sound(ring[r], r) /\ Before(ring[r], r, stamp + 1)
      BY DEF RecorderInv, RingInv
    <3>2. ring'[r] = [ring[r] EXCEPT !.mem = Unused]
      BY <2>1
    <3>3. Unused \in Memories(r)
      BY SlotsType, RecorderAssumption DEF Unused, Memory, Memories
    <3>4. /\ ring'[r] \in RingType(r) /\ ring'[r].files = ring[r].files
          /\ ring'[r].open = ring[r].open
      BY <3>1, <3>2, <3>3 DEF Sound, RingType
    <3>5. ~ring'[r].open
      BY <2>2, <3>4
    <3>6. Sound(ring'[r], r) /\ Before(ring'[r], r, stamp + 1)
      BY <3>1, <3>4, <3>5 DEF Sound, Before
    <3> QED BY <1>1, <2>1, <3>4, <3>5, <3>6 DEF RingInv, Kept, Ahead
  <2>4. ring' = [r \in Rings |-> ring'[r]]
    BY <2>1
  <2> QED BY <1>1, <2>1, <2>3, <2>4 DEF RecorderInv, Moves
<1>3. CASE left # {}
  <2> DEFINE i == CHOOSE i \in left : \A j \in left : i <= j
             r == Order[i]
  <2>1. /\ \E done \in {Finalized(r, ring[r].mem), NotFinalized(r)} :
              ring' = [ring EXCEPT ![r] = done]
        /\ phase' = phase
    BY <1>3 DEF Close
  <2>2. i \in left
    <3>1. left \subseteq 1..3
      OBVIOUS
    <3> HIDE DEF left
    <3>2. \E k \in left : \A j \in left : k <= j
      <4>1. CASE 1 \in left
        BY <3>1, <4>1
      <4>2. CASE 1 \notin left /\ 2 \in left
        BY <3>1, <4>2
      <4>3. CASE 1 \notin left /\ 2 \notin left
        <5>1. \A k \in left : k = 3
          BY <3>1, <4>3
        <5>2. PICK k \in left : TRUE
          BY <1>3
        <5>3. \A j \in left : k <= j
          BY <5>1, <5>2
        <5> QED BY <5>2, <5>3
      <4> QED BY <4>1, <4>2, <4>3
    <3> QED BY <3>2
  <2> HIDE DEF i
  <2>3. r \in Rings /\ ring[r].open
    BY <2>2 DEF Order, Rings
  <2> HIDE DEF r, left
  <2>4. /\ Sound(ring[r], r) /\ Aimed(ring[r]) /\ Before(ring[r], r, stamp + 1)
        /\ ring[r].mem \in Memories(r)
        /\ stamp + 1 \in Int
    BY <2>3, RecorderAssumption DEF RecorderInv, RingInv, Sound, RingType
  <2>5. PICK done \in {Finalized(r, ring[r].mem), NotFinalized(r)} :
           ring' = [ring EXCEPT ![r] = done]
    BY <2>1
  <2>6. Sound(done, r) /\ ~done.open /\ Before(done, r, stamp + 1)
        /\ Kept(ring[r].files, done.files, r)
    <3>1. CASE done = Finalized(r, ring[r].mem)
      BY <2>3, <2>4, <3>1, FinalizedSound
    <3>2. CASE done = NotFinalized(r)
      BY <2>3, <2>4, <3>2, NotFinalizedSound DEF Before, Kept
    <3> QED BY <2>5, <3>1, <3>2
  <2>7. /\ todo' \in Todos /\ Ahead(todo)' = {} /\ todo' = <<>> /\ phase' = "stopping"
    BY <1>1, <2>1, TodoTypes
  <2> QED BY <1>1, <2>3, <2>5, <2>6, <2>7, OneRing
<1> QED BY <1>2, <1>3

LEMMA CrashKeeps == ASSUME RecorderInv, Crash PROVE RecorderInv' /\ Moves
<1>1. /\ phase' = "off" /\ todo' = <<>> /\ stamp' = stamp
      /\ ring' = [r \in Rings |-> [ring[r] EXCEPT !.open = FALSE, !.mem = Unused]]
  BY DEF Crash
<1>2. todo' \in Todos /\ Ahead(todo)' = {}
  BY <1>1, TodoTypes
<1>3. ASSUME NEW r \in Rings
      PROVE  RingInv(r)' /\ Kept(ring[r].files, ring'[r].files, r)
  <2>1. Sound(ring[r], r) /\ Before(ring[r], r, stamp + 1)
    BY DEF RecorderInv, RingInv
  <2>2. ring'[r] = [ring[r] EXCEPT !.open = FALSE, !.mem = Unused]
    BY <1>1
  <2>3. Unused \in Memories(r)
    BY SlotsType, RecorderAssumption DEF Unused, Memory, Memories
  <2>4. /\ ring'[r] \in RingType(r) /\ ring'[r].files = ring[r].files
        /\ ~ring'[r].open
    BY <2>1, <2>2, <2>3 DEF Sound, RingType
  <2>5. Sound(ring'[r], r) /\ Before(ring'[r], r, stamp + 1)
    BY <2>1, <2>4 DEF Sound, Before
  <2> QED BY <1>1, <1>2, <2>4, <2>5 DEF RingInv, Kept
<1>4. ring' = [r \in Rings |-> ring'[r]]
  BY <1>1
<1> QED BY <1>1, <1>2, <1>3, <1>4 DEF RecorderInv, Moves

-----------------------------------------------------------------------------
\* The files of every ring stay in order, with the partial file newer than
\* all, whatever fails or dies.
THEOREM RecorderInvariant == RecorderSpec => []RecorderInv
<1>1. RecorderInit => RecorderInv
  <2> SUFFICES ASSUME RecorderInit PROVE RecorderInv
    OBVIOUS
  <2>1. ASSUME NEW r \in Rings PROVE RingInv(r)
    <3> DEFINE f == [s \in Slots(r) |-> Missing]
    <3>1. ring[r] = [files |-> f, partial |-> {}, open |-> FALSE, mem |-> Unused]
      BY DEF RecorderInit
    <3>2. Unused \in Memories(r)
      BY SlotsType, RecorderAssumption DEF Unused, Memory, Memories
    <3>3. f \in SegmentFiles(r)
      BY RecorderAssumption DEF SegmentFiles, Missing
    <3>4. /\ DOMAIN f = Slots(r)
          /\ \A s \in Slots(r) : f[s] = Missing /\ f[s].time = 0
      BY DEF Missing
    <3> HIDE DEF f
    <3>5. Round(f, 0)
      BY <3>4, SlotsType DEF Round
    <3>6. /\ ring[r] \in RingType(r) /\ ring[r].files = f
          /\ ~ring[r].open
      BY <3>1, <3>2, <3>3 DEF RingType
    <3>7. Sound(ring[r], r)
      BY <3>4, <3>5, <3>6, SlotsType DEF Sound
    <3>8. Before(ring[r], r, stamp + 1)
      BY <3>4, <3>6 DEF Before, RecorderInit
    <3>9. phase = "off" /\ Ahead(todo) = {}
      BY TodoTypes DEF RecorderInit
    <3> QED BY <3>6, <3>7, <3>8, <3>9 DEF RingInv
  <2>2. ring = [r \in Rings |-> ring[r]]
    BY DEF RecorderInit
  <2>3. stamp \in 0..MaxStamp /\ phase = "off" /\ todo = <<>> /\ todo \in Todos
    BY TodoTypes, RecorderAssumption DEF RecorderInit
  <2> QED BY <2>1, <2>2, <2>3 DEF RecorderInv
<1>2. RecorderInv /\ [RecorderNext]_recorderVars => RecorderInv'
  <2> SUFFICES ASSUME RecorderInv, [RecorderNext]_recorderVars PROVE RecorderInv'
    OBVIOUS
  <2>1. CASE Start   BY <2>1, StartKeeps
  <2>2. CASE Packet  BY <2>2, PacketKeeps
  <2>3. CASE Rotate  BY <2>3, RotateKeeps
  <2>4. CASE Reopen  BY <2>4, ReopenKeeps
  <2>5. CASE Write   BY <2>5, WriteKeeps
  <2>6. CASE Stop    BY <2>6, StopKeeps
  <2>7. CASE Close   BY <2>7, CloseKeeps
  <2>8. CASE Crash   BY <2>8, CrashKeeps
  <2>9. CASE UNCHANGED recorderVars
    BY <2>9 DEF recorderVars, RecorderInv, RingInv, Sound, Aimed, Before, Ahead
  <2> QED BY <2>1, <2>2, <2>3, <2>4, <2>5, <2>6, <2>7, <2>8, <2>9 DEF RecorderNext
<1> QED BY <1>1, <1>2, PTL DEF RecorderSpec

\* No segment outgrows its file and no slot is outside its ring.
THEOREM RecorderTypes == RecorderSpec => []RecorderTypeOK
<1>1. RecorderInv => RecorderTypeOK
  BY TodoTypes DEF RecorderInv, RecorderTypeOK, RingInv, Sound, RingType, Memories
<1> QED BY <1>1, RecorderInvariant, PTL

\* A completed segment is lost only to a newer one, and only the oldest of a
\* ring without an empty slot (pcap_ring.c:178, pcap_ring.c:211).
THEOREM OldestGoes == RecorderSpec => NewestKept
<1> DEFINE Step == \A r \in Rings : \A s \in Slots(r) :
                      LET old == ring[r].files
                          new == ring'[r].files
                      IN  new[s] # old[s] =>
                            /\ \A t \in Slots(r) \ {s} : old[t].time < new[s].time
                            /\ old[s] # Missing =>
                                  \A t \in Slots(r) :
                                      old[t] # Missing /\ old[s].time <= old[t].time
<1>1. RecorderInv /\ [RecorderNext]_recorderVars => [Step]_recorderVars
  <2> SUFFICES ASSUME RecorderInv, RecorderNext PROVE Step
    OBVIOUS
  <2>1. Moves
    BY StartKeeps, PacketKeeps, RotateKeeps, ReopenKeeps, WriteKeeps, StopKeeps,
       CloseKeeps, CrashKeeps DEF RecorderNext
  <2> QED BY <2>1 DEF Moves, Kept
<1>2. RecorderSpec => [][Step]_recorderVars
  BY <1>1, RecorderInvariant, PTL DEF RecorderSpec
<1> QED BY <1>2 DEF NewestKept
=============================================================================
