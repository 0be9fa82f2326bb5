------------------------------- MODULE Events -------------------------------
(***************************************************************************)
(* The way of a call event to the home-automation service: the daemon      *)
(* writes a line per event to each client of its Unix socket               *)
(* (event_stream.c), the relay process reads the lines, queues them and    *)
(* posts them one at a time (event_relay.c, event_relay_main.c).           *)
(*                                                                         *)
(* Events are numbered over all lives of the daemon; the "event_id" of the *)
(* line starts again with each life, the order does not.  The relay's      *)
(* connection is followed from end to end; the other clients only take     *)
(* slots.  A line travels in two halves, so that a send or a read can stop *)
(* in the middle of it.                                                    *)
(***************************************************************************)
EXTENDS Integers, Sequences, FiniteSets

CONSTANTS QueueCapacity,   \* DF_EVENT_STREAM_QUEUE_CAPACITY
          MaxClients,      \* DF_EVENT_STREAM_MAX_CLIENTS
          WireRoom,        \* halves of lines the socket holds before EAGAIN
          RelayCapacity,   \* DF_RELAY_QUEUE_CAPACITY
          MaxEvents        \* bound: events published in a behaviour

ASSUME EventsAssumption ==
    /\ {QueueCapacity, MaxClients, WireRoom, RelayCapacity} \subseteq Nat \ {0}
    /\ MaxEvents \in Nat

VARIABLES made,     \* the number of the last event published
          slot,     \* the relay's connection in the daemon: "none", "waiting"
                    \* in the backlog, or "client"
          others,   \* slots taken by other connections, dead ones included
          q, off,   \* the client's queue, halves of its head already sent
          wire,     \* halves of lines in the socket
          eof,      \* the daemon has closed its end
          conn,     \* the relay has a connection
          buf,      \* the relay's line buffer
          rq,       \* the relay's queue
          told,     \* the last event the service was given
          got       \* the events this connection has handed the relay

streamVars == <<made, slot, others, q, off>>
relayVars  == <<conn, buf, rq, told, got>>
eventVars  == <<streamVars, wire, eof, relayVars>>

EventTypeOK ==
    /\ made \in 0..MaxEvents /\ told \in 0..MaxEvents
    /\ slot \in {"none", "waiting", "client"} /\ others \in 0..MaxClients
    /\ q \in Seq(1..MaxEvents) /\ Len(q) <= QueueCapacity /\ off \in 0..1
    /\ wire \in Seq([event : 1..MaxEvents, end : BOOLEAN])
    /\ Len(wire) <= WireRoom
    /\ buf \in Seq([event : 1..MaxEvents, end : BOOLEAN])
    /\ rq \in Seq(1..MaxEvents) /\ Len(rq) <= RelayCapacity
    /\ eof \in BOOLEAN /\ conn \in BOOLEAN /\ got \in Seq(1..MaxEvents)

EventInit ==
    /\ made = 0 /\ told = 0 /\ slot = "none" /\ others = 0 /\ q = <<>>
    /\ off = 0 /\ wire = <<>> /\ eof = FALSE /\ conn = FALSE /\ buf = <<>>
    /\ rq = <<>> /\ got = <<>>

-----------------------------------------------------------------------------
(* The daemon's socket.                                                    *)

\* The lines of a queue as the halves the socket carries.
Halves(lines) ==
    [i \in 1..(2 * Len(lines)) |->
        [event |-> lines[(i + 1) \div 2], end |-> i % 2 = 0]]

\* Closing the client's descriptor leaves what was sent to be read.
DropClient == slot' = "none" /\ q' = <<>> /\ off' = 0 /\ eof' = TRUE

\* Mutant of Enqueue: a client whose queue is full misses the event.
EnqueueOrSkip(n) ==
    /\ q' = IF Len(q) < QueueCapacity THEN Append(q, n) ELSE q
    /\ UNCHANGED <<slot, off, eof>>

\* A client whose queue is full, or for whose copy there is no memory, is
\* dropped: it misses no event in the middle.
Enqueue(n) ==
    \/ /\ Len(q) < QueueCapacity
       /\ q' = Append(q, n)
       /\ UNCHANGED <<slot, off, eof>>
    \/ DropClient

Publish ==
    /\ made < MaxEvents
    /\ made' = made + 1
    /\ \/ slot # "client" /\ UNCHANGED <<slot, q, off, eof>>
       \/ slot = "client" /\ Enqueue(made + 1)
    /\ UNCHANGED <<others, wire, relayVars>>

\* A connection taken from the backlog gets a free slot or is closed.
Accept ==
    /\ slot = "waiting"
    /\ \/ /\ others < MaxClients
          /\ slot' = "client" /\ UNCHANGED <<q, off, eof>>
       \/ others = MaxClients /\ DropClient
    /\ UNCHANGED <<made, others, wire, relayVars>>

\* Everything queued is sent as far as the socket has room.
Flush ==
    /\ slot = "client" /\ q # <<>>
    /\ LET room == WireRoom - Len(wire)
           left == 2 * Len(q) - off
           n    == IF left < room THEN left ELSE room
       IN  /\ n > 0
           /\ wire' = wire \o SubSeq(Halves(q), off + 1, off + n)
           /\ q' = SubSeq(q, (off + n) \div 2 + 1, Len(q))
           /\ off' = (off + n) % 2
    /\ UNCHANGED <<made, slot, others, eof, relayVars>>

\* Other connections come while there is a slot; one goes when a send to it
\* fails or its queue is full.
OtherClient ==
    /\ \/ /\ others + (IF slot = "client" THEN 1 ELSE 0) < MaxClients
          /\ others' = others + 1
       \/ others > 0 /\ others' = others - 1
    /\ UNCHANGED <<made, slot, q, off, wire, eof, relayVars>>

\* The daemon stops, or dies, and opens its socket anew.
DaemonRestart ==
    /\ others' = 0
    /\ \/ slot # "none" /\ DropClient
       \/ slot = "none" /\ others > 0 /\ UNCHANGED <<slot, q, off, eof>>
    /\ UNCHANGED <<made, wire, relayVars>>

-----------------------------------------------------------------------------
(* The relay.                                                              *)

\* The numbers of the lines that parse: a newline after one whole event.
Parsed(b) ==
    LET whole == {i \in 2..Len(b) :
                    /\ b[i].end /\ ~b[i - 1].end
                    /\ b[i - 1].event = b[i].event
                    /\ i > 2 => b[i - 2].end}
        At(k) == CHOOSE i \in whole :
                    Cardinality({j \in whole : j <= i}) = k
    IN  [k \in 1..Cardinality(whole) |-> b[At(k)].event]

\* What stays in the line buffer once every whole line is taken out.
Unfinished(b) ==
    IF b # <<>> /\ ~b[Len(b)].end THEN <<b[Len(b)]>> ELSE <<>>

\* A full queue gives up its oldest event for the new one.
Pushed(queue, new) ==
    LET all == queue \o new
    IN  IF Len(all) > RelayCapacity
        THEN SubSeq(all, Len(all) - RelayCapacity + 1, Len(all)) ELSE all

\* No answer, and one status of each kind the relay tells apart.
Statuses == {0, 204, 404, 408, 503}

Retryable(status) == status \in {408, 425, 429} \/ status >= 500

\* The oldest event is posted.  A status of 2xx or one that is not worth a
\* retry takes it off the queue; otherwise it stays, though the service may
\* have received it.  The backoff between two attempts is time only.
Post(queue) ==
    \/ queue = <<>> /\ rq' = queue /\ told' = told
    \/ /\ queue # <<>>
       /\ \E status \in Statuses :
             /\ rq' = IF status # 0 /\ ~Retryable(status)
                      THEN Tail(queue) ELSE queue
             /\ \/ told' = Head(queue)
                \/ status \notin 200..299 /\ told' = told

Connect ==
    /\ ~conn
    /\ conn' = TRUE /\ slot' = "waiting" /\ wire' = <<>> /\ eof' = FALSE
    /\ got' = <<>>
    /\ UNCHANGED <<made, others, q, off, buf, rq, told>>

\* End of file: the rest of a line is thrown away with the connection.
Disconnect ==
    /\ conn /\ wire = <<>> /\ eof
    /\ conn' = FALSE /\ buf' = <<>> /\ eof' = FALSE
    /\ UNCHANGED <<streamVars, wire, rq, told, got>>

\* One turn: read some of what is there, queue the whole lines, post the head.
RelayTurn ==
    /\ conn
    /\ wire # <<>> \/ ~eof
    /\ \E n \in 0..Len(wire) :
          /\ n = 0 => wire = <<>>
          /\ LET all == buf \o SubSeq(wire, 1, n)
             IN  /\ buf' = Unfinished(all)
                 /\ got' = got \o Parsed(all)
                 /\ Post(Pushed(rq, Parsed(all)))
          /\ wire' = SubSeq(wire, n + 1, Len(wire))
    /\ UNCHANGED <<streamVars, eof, conn>>

\* The relay is stopped and started: its queue is not kept anywhere.  The
\* daemon notices a dead client when a send to it fails, so the slot stays.
RelayRestart ==
    /\ conn \/ rq # <<>>
    /\ conn' = FALSE /\ buf' = <<>> /\ rq' = <<>> /\ got' = <<>>
    /\ wire' = <<>> /\ eof' = FALSE
    /\ slot' = "none" /\ q' = <<>> /\ off' = 0
    /\ others' = IF slot = "client" THEN others + 1 ELSE others
    /\ UNCHANGED <<made, told>>

EventNext ==
    \/ Publish \/ Accept \/ Flush \/ OtherClient \/ DaemonRestart
    \/ Connect \/ Disconnect \/ RelayTurn \/ RelayRestart

EventSpec == EventInit /\ [][EventNext]_eventVars

-----------------------------------------------------------------------------
\* What one connection hands the relay is a run of consecutive events: a slow
\* relay loses the connection, never an event in its middle.  And the service
\* never gets an older event after a younger one, whatever is retried, dropped
\* or restarted (event_stream.c:191, event_relay.c:81, event_relay_main.c:162).
StreamUnbroken ==
    /\ [](\A i \in 1..(Len(got) - 1) : got[i + 1] = got[i] + 1)
    /\ [][told' >= told]_eventVars
=============================================================================
