----------------------------- MODULE SendQueue -----------------------------
(***************************************************************************)
(* Replies to presence probes: the bounded queue of gvs_reply_queue.c and  *)
(* the transaction of gvs_send_transaction.c that takes one reply at a     *)
(* time and attempts to send it, with a time limit for every attempt and a *)
(* pause before the next one.  runtime_service.c expires the queue and     *)
(* steps the transaction once in every iteration of its loop (Turn) and    *)
(* queues the reply to a probe it receives (Enqueue).  The senders of the   *)
(* daemon (external here) answer at once; the transaction also admits one  *)
(* that answers later, so the model has the completions too (Complete).    *)
(*                                                                         *)
(* The queue is the set of its entries; rank, the number of the probe that *)
(* created an entry, stands for its position in the array: entries are     *)
(* appended and the array is only ever compacted.  A reply is its key, the *)
(* target and the two request bytes, which fix the rest of it.             *)
(*                                                                         *)
(* The clock is the monotonic one of the loop, so the checks that time has *)
(* not gone back never fail and are left out.  It ends at MaxTime, which   *)
(* stands for UINT64_MAX.                                                  *)
(***************************************************************************)
EXTENDS Integers, FiniteSets, FiniteSetsExt

CONSTANTS
  Keys,           \* replies: a target with the bytes of the probe it answers
  Capacity,       \* DF_GVS_REPLY_QUEUE_CAPACITY
  Ttl,            \* DF_GVS_REPLY_QUEUE_TTL_MS
  MaxAttempts,    \* DF_GVS_SEND_MAX_ATTEMPTS
  AttemptTimeout, \* DF_GVS_SEND_ATTEMPT_TIMEOUT_MS
  RetryDelay,     \* DF_GVS_SEND_RETRY_DELAY_MS
  MaxTime,        \* stands for UINT64_MAX, where the clock ends
  MaxId,          \* stands for UINT64_MAX, the last completion id
  MaxRepeat,      \* stands for UINT_MAX, where repeat_count saturates
  MaxProbes       \* bound: probes accepted in one behaviour

ASSUME SendAssumption ==
  /\ Capacity \in Nat \ {0}
  /\ Ttl \in Nat \ {0}
  /\ MaxAttempts \in Nat \ {0}
  /\ AttemptTimeout \in Nat \ {0}
  /\ RetryDelay \in Nat \ {0}
  /\ MaxTime \in Nat
  /\ MaxId \in Nat \ {0}
  /\ MaxRepeat \in Nat \ {0}
  /\ MaxProbes \in Nat

VARIABLES
  now,     \* the loop's clock
  queue,   \* df_gvs_reply_queue.entries
  tx,      \* df_gvs_send_transaction
  running, \* the daemon has not left its loop
  fate,    \* of each attempt's datagram, which the code may never be told
  probes,  \* ghost: probes accepted, the rank of the next entry
  heard,   \* ghost: when the last accepted probe of a key arrived
  gone     \* ghost: probes whose reply has left queue and transaction

vars == <<now, queue, tx, running, fate, probes, heard, gone>>

Ids == 0 .. MaxId          \* 0: no attempt
Times == 0 .. MaxTime
Entries == [key : Keys, expires : Times, repeat : 1 .. MaxRepeat, rank : Nat]
NoEntry == [key |-> "none"]
TxStates == {"idle", "sending", "waitRetry"}
Outcomes == {"none", "success", "failed", "timeout"}
Transactions ==
  [state : TxStates, outcome : Outcomes, entry : Entries \cup {NoEntry},
   attempt : 0 .. MaxAttempts, active : Ids, next : Ids,
   deadline : Times, retryAt : Times]
Answers == {"pending", "success", "failure"}

-----------------------------------------------------------------------------
(* The queue *)

Live(q) == {e \in q : e.expires > now}

Same(q, k) == {e \in q : e.key = k}

FirstProbe(k) == [key |-> k, expires |-> now + Ttl, repeat |-> 1, rank |-> probes]

Repeated(e) ==
  [e EXCEPT !.expires = now + Ttl,
            !.repeat = IF @ < MaxRepeat THEN @ + 1 ELSE @]

Oldest(q) == {e \in q : \A f \in q : e.rank <= f.rank}

\* Broken on purpose: the caller of take does not commit the shortened queue.
TakenKept(q, e) == q

Taken(q, e) == q \ {e}

Probes(q) == MapThenSumSet(LAMBDA e : e.repeat, q)

-----------------------------------------------------------------------------
(* The transaction *)

Finished(t, outcome) ==
  [t EXCEPT !.state = "idle", !.outcome = outcome, !.entry = NoEntry,
            !.active = 0, !.deadline = 0, !.retryAt = 0]

\* Broken on purpose: a pause may end after the last instant of the clock.
RetryFitsAlways == TRUE

RetryFits == now <= MaxTime - RetryDelay

AttemptFits == now <= MaxTime - AttemptTimeout

AttemptFailed(t, timedOut) ==
  IF t.attempt < MaxAttempts
  THEN IF RetryFits
       THEN [t EXCEPT !.state = "waitRetry", !.deadline = 0,
                      !.retryAt = now + RetryDelay]
       ELSE Finished(t, "timeout")
  ELSE Finished(t, IF timedOut THEN "timeout" ELSE "failed")

Answered(t, answer) ==
  CASE answer = "success" -> Finished(t, "success")
    [] answer = "failure" -> AttemptFailed(t, FALSE)
    [] answer = "pending" -> t

MayAttempt(t) == t.next # 0 /\ AttemptFits

\* The transaction when the sender is called, before its answer.
Attempting(t) ==
  [t EXCEPT !.attempt = @ + 1, !.active = t.next,
            !.next = IF t.next = MaxId THEN 0 ELSE t.next + 1,
            !.state = "sending", !.retryAt = 0,
            !.deadline = now + AttemptTimeout]

Begun(t, e) == [t EXCEPT !.entry = e, !.attempt = 0, !.outcome = "none"]

\* Broken on purpose: any attempt's completion ends the one in flight.
CompletionOfAny(id) == tx.state = "sending"

CompletionCurrent(id) == tx.state = "sending" /\ id = tx.active

-----------------------------------------------------------------------------
(* The daemon *)

\* The probes that left when the transaction became t and the queue q.
Left(t, q) == IF tx.state # "idle" /\ t.state = "idle" THEN tx.entry.repeat ELSE 0

Exit ==
  /\ running' = FALSE
  /\ UNCHANGED <<now, queue, tx, fate, probes, heard, gone>>

(* The sender is called for the transaction t, and q is the queue it leaves: *)
(* it sends the datagram or not, and says so now or by a later completion.  *)
Attempt(t, q, expired) ==
  \E answer \in Answers, sent \in BOOLEAN :
    /\ answer = "success" => sent
    /\ answer = "failure" => ~sent
    /\ tx' = Answered(Attempting(t), answer)
    /\ queue' = q
    /\ fate' = [fate EXCEPT ![t.next] = IF sent THEN "sent" ELSE "lost"]
    /\ gone' = gone + expired +
               (IF tx'.state = "idle" THEN t.entry.repeat ELSE 0)
    /\ UNCHANGED <<now, running, probes, heard>>

Commit(t, q, expired) ==
  /\ tx' = t
  /\ queue' = q
  /\ gone' = gone + expired + Left(t, q)
  /\ UNCHANGED <<now, running, fate, probes, heard>>

(* One iteration of the loop: expire the queue, then step the transaction.   *)
(* An error of the step makes the daemon leave its loop.                     *)
TurnSending ==
  /\ tx.state = "sending"
  /\ LET q == Live(queue)
         t == IF now >= tx.deadline THEN AttemptFailed(tx, TRUE) ELSE tx
     IN  Commit(t, q, Probes(queue) - Probes(q))

TurnWaiting ==
  /\ tx.state = "waitRetry"
  /\ LET q == Live(queue)
         expired == Probes(queue) - Probes(q)
     IN  \/ now < tx.retryAt /\ Commit(tx, q, expired)
         \/ now >= tx.retryAt /\ ~AttemptFits /\ Commit(Finished(tx, "timeout"), q, expired)
         \/ now >= tx.retryAt /\ MayAttempt(tx) /\ Attempt(tx, q, expired)
         \/ now >= tx.retryAt /\ AttemptFits /\ ~MayAttempt(tx) /\ Exit

TurnIdle ==
  /\ tx.state = "idle"
  /\ LET q == Live(queue)
         expired == Probes(queue) - Probes(q)
     IN  \/ ~AttemptFits /\ Exit
         \/ AttemptFits /\ q = {} /\ Commit(tx, q, expired)
         \/ /\ MayAttempt(tx)
            /\ \E e \in Oldest(q) : Attempt(Begun(tx, e), Taken(q, e), expired)
         \/ q # {} /\ AttemptFits /\ ~MayAttempt(tx) /\ Exit

Turn == running /\ (TurnSending \/ TurnWaiting \/ TurnIdle)

(* df_gvs_reply_queue_enqueue: a probe that matches a waiting reply shares   *)
(* its entry, which keeps its place; a full queue refuses the others.        *)
Enqueue(k) ==
  /\ running /\ probes < MaxProbes
  /\ now <= MaxTime - Ttl
  /\ LET q == Live(queue)
         same == Same(q, k)
     IN  /\ same # {} \/ Cardinality(q) < Capacity
         /\ queue' = IF same # {}
                     THEN {IF e \in same THEN Repeated(e) ELSE e : e \in q}
                     ELSE q \cup {FirstProbe(k)}
         /\ gone' = gone + Probes(queue) - Probes(q)
  /\ probes' = probes + 1
  /\ heard' = [heard EXCEPT ![k] = now]
  /\ UNCHANGED <<now, tx, running, fate>>

(* df_gvs_send_transaction_complete: the answer to an attempt that was left  *)
(* pending.  It may come late, twice, or after the attempt was given up.     *)
Complete(id) ==
  /\ running
  /\ fate[id] # "none"
  /\ CompletionCurrent(id)
  /\ LET t == IF now >= tx.deadline THEN AttemptFailed(tx, TRUE)
              ELSE Answered(tx, IF fate[id] = "sent" THEN "success" ELSE "failure")
     IN  Commit(t, queue, 0)

Tick ==
  /\ running /\ now < MaxTime
  /\ now' = now + 1
  /\ UNCHANGED <<queue, tx, running, fate, probes, heard, gone>>

Init ==
  /\ now = 0
  /\ queue = {}
  /\ tx = [state |-> "idle", outcome |-> "none", entry |-> NoEntry, attempt |-> 0,
           active |-> 0, next |-> 1, deadline |-> 0, retryAt |-> 0]
  /\ running = TRUE
  /\ fate = [id \in 1 .. MaxId |-> "none"]
  /\ probes = 0
  /\ heard = [k \in Keys |-> 0]
  /\ gone = 0

Next ==
  \/ Turn
  \/ \E k \in Keys : Enqueue(k)
  \/ \E id \in 1 .. MaxId : Complete(id)
  \/ Tick

Spec == Init /\ [][Next]_vars

(* The loop never stops turning, and time passes.                            *)
Fairness == WF_vars(Turn) /\ WF_vars(Tick)
FairSpec == Spec /\ Fairness

-----------------------------------------------------------------------------
(* Properties *)

\* Types: the queue fits its array, no timer runs past the end of the clock, no
\* reply is attempted more than MaxAttempts times.
SendTypeOK ==
  /\ now \in Times
  /\ queue \subseteq Entries /\ IsFiniteSet(queue) /\ Cardinality(queue) <= Capacity
  /\ tx \in Transactions
  /\ running \in BOOLEAN
  /\ fate \in [1 .. MaxId -> {"none", "sent", "lost"}]
  /\ probes \in Nat
  /\ heard \in [Keys -> Times]
  /\ tx.state = "idle" <=> tx.entry = NoEntry

\* A probe repeated while its reply waits is answered once, and the reply lives
\* until Ttl after the last repetition: no two entries of the queue answer the
\* same probe, and none carries the lifetime of an earlier one
\* (gvs_reply_queue.c:58).
OneReplyPerProbe ==
  \A e \in queue :
    /\ e.expires = heard[e.key] + Ttl
    /\ \A f \in queue : f.key = e.key => f = e

\* What the daemon reports of a reply is what became of its last attempt, also
\* when answers arrive for attempts it has given up (gvs_send_transaction.c:187):
\* success only if that datagram was sent, failure only if it was not and no
\* attempt was left.
LastAttempt == IF tx.next = 0 THEN MaxId ELSE tx.next - 1

OutcomeTrue ==
  tx.state = "idle" =>
    /\ tx.outcome = "success" => fate[LastAttempt] = "sent"
    /\ tx.outcome = "failed" => fate[LastAttempt] = "lost" /\ tx.attempt = MaxAttempts

\* Every accepted probe is accounted for: its reply waits, is being sent, or has
\* left (sent, given up or expired), and never two of these
\* (gvs_send_transaction.c:169, gvs_reply_queue.c:12).
NothingLost ==
  probes = Probes(queue) + gone + (IF tx.state = "idle" THEN 0 ELSE tx.entry.repeat)

\* So no probe is answered twice, for as long as its reply waits, and none is
\* forgotten, whatever is repeated, refused, expires, is taken or tried again.
ProbesAccounted == OneReplyPerProbe /\ NothingLost

\* A reply is attempted at most MaxAttempts times and then makes room for the
\* next one, even when no attempt is ever answered and when the clock nears its
\* end (gvs_send_transaction.c:37); otherwise the daemon has stopped.
TransactionEnds == tx.state # "idle" ~> (tx.state = "idle" \/ ~running)
=============================================================================
