-------------------------- MODULE SendQueueProofs --------------------------
(***************************************************************************)
(* Proofs about the reply queue and its transaction, for every capacity,   *)
(* every timeout and every set of replies.                                 *)
(***************************************************************************)
EXTENDS SendQueue, FiniteSetTheorems, WellFoundedInduction, TLAPS

-----------------------------------------------------------------------------
(* The queue *)

LEMMA LiveType ==
  ASSUME NEW q, IsFiniteSet(q), Cardinality(q) <= Capacity
  PROVE  /\ Live(q) \subseteq q
         /\ IsFiniteSet(Live(q))
         /\ Cardinality(Live(q)) <= Capacity
<1>1. Live(q) \subseteq q
  BY DEF Live
<1>2. IsFiniteSet(Live(q)) /\ Cardinality(Live(q)) <= Cardinality(q)
  BY <1>1, FS_Subset
<1>3. Cardinality(q) \in Nat /\ Cardinality(Live(q)) \in Nat
  BY <1>2, FS_CardinalityType
<1> QED BY <1>1, <1>2, <1>3, SendAssumption

LEMMA TakenType ==
  ASSUME NEW q, NEW e, IsFiniteSet(q), Cardinality(q) <= Capacity
  PROVE  IsFiniteSet(Taken(q, e)) /\ Cardinality(Taken(q, e)) <= Capacity
<1>1. /\ IsFiniteSet(q \ {e})
      /\ Cardinality(q \ {e}) = IF e \in q THEN Cardinality(q) - 1 ELSE Cardinality(q)
  BY FS_RemoveElement
<1>2. Cardinality(q) \in Nat
  BY FS_CardinalityType
<1> QED BY <1>1, <1>2, SendAssumption DEF Taken

LEMMA RepeatedType ==
  ASSUME NEW e \in Entries, now \in Times, now <= MaxTime - Ttl
  PROVE  Repeated(e) \in Entries
<1>1. now + Ttl \in Times
  BY SendAssumption DEF Times
<1>2. e.repeat \in 1 .. MaxRepeat
  BY DEF Entries
<1>3. (IF e.repeat < MaxRepeat THEN e.repeat + 1 ELSE e.repeat) \in 1 .. MaxRepeat
  BY <1>2, SendAssumption
<1> QED BY <1>1, <1>3 DEF Repeated, Entries

\* A probe that shares an entry leaves as many entries as there were.
LEMMA SharedSize ==
  ASSUME NEW q, NEW same, IsFiniteSet(q), Cardinality(q) <= Capacity
  PROVE  LET s == {IF e \in same THEN Repeated(e) ELSE e : e \in q}
         IN  IsFiniteSet(s) /\ Cardinality(s) <= Capacity
<1> DEFINE s == {IF e \in same THEN Repeated(e) ELSE e : e \in q}
           f == [e \in q |-> IF e \in same THEN Repeated(e) ELSE e]
<1>1. f \in Surjection(q, s)
  BY DEF Surjection
<1>2. IsFiniteSet(s) /\ Cardinality(s) <= Cardinality(q)
  BY <1>1, FS_Surjection
<1>3. Cardinality(s) \in Nat /\ Cardinality(q) \in Nat
  BY <1>2, FS_CardinalityType
<1> HIDE DEF s
<1>4. IsFiniteSet(s) /\ Cardinality(s) <= Capacity
  BY <1>2, <1>3, SendAssumption
<1> QED BY <1>4 DEF s

LEMMA EnqueuedSize ==
  ASSUME NEW q, NEW e, IsFiniteSet(q), Cardinality(q) < Capacity
  PROVE  IsFiniteSet(q \cup {e}) /\ Cardinality(q \cup {e}) <= Capacity
<1>1. /\ IsFiniteSet(q \cup {e})
      /\ Cardinality(q \cup {e}) = IF e \in q THEN Cardinality(q) ELSE Cardinality(q) + 1
  BY FS_AddElement
<1>2. Cardinality(q) \in Nat
  BY FS_CardinalityType
<1> QED BY <1>1, <1>2, SendAssumption

-----------------------------------------------------------------------------
(* The transaction *)

\* A transaction, with the attempt in flight the one that was numbered last.
LastOf(t) == IF t.next = 0 THEN MaxId ELSE t.next - 1

Sound(t) ==
  /\ t \in Transactions
  /\ t.state = "idle" <=> t.entry = NoEntry
  /\ t.state = "sending" => t.active = LastOf(t)
  /\ t.state = "waitRetry" => t.attempt < MaxAttempts

LEMMA NoEntryApart == NoEntry \notin Entries
BY DEF NoEntry, Entries

LEMMA FinishedSound ==
  ASSUME NEW t \in Transactions, NEW outcome \in Outcomes
  PROVE  /\ Sound(Finished(t, outcome))
         /\ Finished(t, outcome).state = "idle"
         /\ Finished(t, outcome).outcome = outcome
         /\ Finished(t, outcome).next = t.next
         /\ Finished(t, outcome).attempt = t.attempt
<1> DEFINE r == Finished(t, outcome)
<1>1. "idle" \in TxStates /\ 0 \in Ids /\ 0 \in Times
  BY SendAssumption DEF TxStates, Ids, Times
<1>2. r \in Transactions
  BY <1>1 DEF Finished, Transactions
<1>3. /\ r.state = "idle" /\ r.outcome = outcome /\ r.entry = NoEntry
      /\ r.next = t.next /\ r.attempt = t.attempt
  BY DEF Finished, Transactions
<1> QED BY <1>2, <1>3 DEF Sound

\* A failed attempt leads to a pause that ends in time, or to the end.
LEMMA FailedSound ==
  ASSUME NEW t, Sound(t), t.state # "idle", now \in Times, NEW timedOut \in BOOLEAN
  PROVE  LET r == AttemptFailed(t, timedOut)
         IN  /\ Sound(r)
             /\ r.state \in {"idle", "waitRetry"}
             /\ r.next = t.next
             /\ r.attempt = t.attempt
             /\ r.state = "idle" =>
                  \/ r.outcome = "timeout"
                  \/ r.outcome = "failed" /\ ~timedOut /\ r.attempt = MaxAttempts
<1>1. t \in Transactions
  BY DEF Sound
<1>2. CASE t.attempt < MaxAttempts /\ RetryFits
  <2>1. AttemptFailed(t, timedOut) =
          [t EXCEPT !.state = "waitRetry", !.deadline = 0, !.retryAt = now + RetryDelay]
    BY <1>2 DEF AttemptFailed
  <2>2. now + RetryDelay \in Times /\ 0 \in Times
    BY <1>2, SendAssumption DEF RetryFits, Times
  <2>3. AttemptFailed(t, timedOut) \in Transactions
    BY <1>1, <2>1, <2>2 DEF Transactions, TxStates
  <2>4. LET r == AttemptFailed(t, timedOut)
        IN  /\ r.state = "waitRetry" /\ r.entry = t.entry
            /\ r.next = t.next /\ r.attempt = t.attempt
    BY <1>1, <2>1 DEF Transactions
  <2> QED BY <1>2, <2>3, <2>4 DEF Sound
<1>3. CASE t.attempt < MaxAttempts /\ ~RetryFits
  <2>1. AttemptFailed(t, timedOut) = Finished(t, "timeout")
    BY <1>3 DEF AttemptFailed
  <2> QED BY <1>1, <2>1, FinishedSound DEF Outcomes
<1>4. CASE ~(t.attempt < MaxAttempts)
  <2>1. AttemptFailed(t, timedOut) = Finished(t, IF timedOut THEN "timeout" ELSE "failed")
    BY <1>4 DEF AttemptFailed
  <2>2. t.attempt = MaxAttempts
    BY <1>1, <1>4, SendAssumption DEF Transactions
  <2> QED BY <1>1, <2>1, <2>2, FinishedSound DEF Outcomes
<1> QED BY <1>2, <1>3, <1>4

\* An attempt that begins is numbered, timed and counted.
LEMMA AttemptingSound ==
  ASSUME NEW t \in Transactions, t.entry \in Entries, t.attempt < MaxAttempts,
         MayAttempt(t), now \in Times
  PROVE  /\ Sound(Attempting(t))
         /\ Attempting(t).state = "sending"
         /\ LastOf(Attempting(t)) = t.next
         /\ t.next \in 1 .. MaxId
<1> DEFINE r == Attempting(t)
<1>1. t.next \in 1 .. MaxId
  BY SendAssumption DEF MayAttempt, Transactions, Ids
<1>2. now + AttemptTimeout \in Times /\ 0 \in Times
  BY SendAssumption DEF MayAttempt, AttemptFits, Times
<1>3. t.attempt + 1 \in 0 .. MaxAttempts
  BY SendAssumption DEF Transactions
<1>4. (IF t.next = MaxId THEN 0 ELSE t.next + 1) \in Ids /\ t.next \in Ids
  BY <1>1, SendAssumption DEF Ids
<1>5. r \in Transactions
  BY <1>2, <1>3, <1>4 DEF Attempting, Transactions, TxStates
<1>6. /\ r.state = "sending" /\ r.entry = t.entry /\ r.active = t.next
      /\ r.next = IF t.next = MaxId THEN 0 ELSE t.next + 1
  BY DEF Attempting, Transactions
<1>7. LastOf(r) = t.next
  BY <1>1, <1>6, SendAssumption DEF LastOf
<1> QED BY <1>1, <1>5, <1>6, <1>7, NoEntryApart DEF Sound

\* An answer ends an attempt with what became of it, or asks for another one.
LEMMA AnsweredSound ==
  ASSUME NEW t, Sound(t), t.state = "sending", now \in Times, NEW answer \in Answers
  PROVE  LET r == Answered(t, answer)
         IN  /\ Sound(r)
             /\ LastOf(r) = LastOf(t)
             /\ r.state = "idle" /\ r.outcome = "success" => answer = "success"
             /\ r.state = "idle" /\ r.outcome = "failed" =>
                  answer = "failure" /\ r.attempt = MaxAttempts
<1>1. t \in Transactions
  BY DEF Sound
<1>2. CASE answer = "success"
  <2>1. Answered(t, answer) = Finished(t, "success")
    BY <1>2 DEF Answered
  <2> QED BY <1>1, <1>2, <2>1, FinishedSound DEF Outcomes, LastOf
<1>3. CASE answer = "failure"
  <2>1. Answered(t, answer) = AttemptFailed(t, FALSE)
    BY <1>3 DEF Answered
  <2> QED BY <1>3, <2>1, FailedSound DEF LastOf
<1>4. CASE answer = "pending"
  <2>1. Answered(t, answer) = t
    BY <1>4 DEF Answered
  <2> QED BY <2>1
<1> QED BY <1>2, <1>3, <1>4 DEF Answers

-----------------------------------------------------------------------------
(* The inductive invariant *)

QueueInv ==
  /\ queue \subseteq Entries
  /\ IsFiniteSet(queue)
  /\ Cardinality(queue) <= Capacity
  /\ OneReplyPerProbe

\* The types, with what a reader of the transaction relies on: its timers and
\* numbers (Sound) and the truth of its last outcome.
Inv ==
  /\ now \in Times
  /\ running \in BOOLEAN
  /\ fate \in [1 .. MaxId -> {"none", "sent", "lost"}]
  /\ probes \in Nat
  /\ heard \in [Keys -> Times]
  /\ QueueInv
  /\ Sound(tx)
  /\ OutcomeTrue

LEMMA InvImplies == Inv => SendTypeOK /\ OneReplyPerProbe /\ OutcomeTrue
BY DEF Inv, QueueInv, SendTypeOK, Sound

\* Entries that only leave the queue keep what is true of it.
LEMMA QueueShrinks ==
  ASSUME QueueInv, UNCHANGED heard, queue' \subseteq queue,
         IsFiniteSet(queue'), Cardinality(queue') <= Capacity
  PROVE  QueueInv'
BY DEF QueueInv, OneReplyPerProbe

LEMMA CommitInv ==
  ASSUME Inv, NEW t, NEW q, NEW expired, Commit(t, q, expired),
         q \subseteq queue, IsFiniteSet(q), Cardinality(q) <= Capacity,
         Sound(t), OutcomeTrue'
  PROVE  Inv'
<1>1. /\ tx' = t /\ queue' = q
      /\ UNCHANGED <<now, running, fate, probes, heard>>
  BY DEF Commit
<1>2. QueueInv'
  BY <1>1, QueueShrinks DEF Inv
<1>3. Sound(tx)'
  BY <1>1 DEF Sound, LastOf, Finished, Transactions, Ids, Times
<1> QED BY <1>1, <1>2, <1>3 DEF Inv

\* The attempt of a transaction that has a reply and attempts left.
LEMMA AttemptInv ==
  ASSUME Inv, NEW t \in Transactions, NEW q, NEW expired, Attempt(t, q, expired),
         q \subseteq queue, IsFiniteSet(q), Cardinality(q) <= Capacity,
         t.entry \in Entries, t.attempt < MaxAttempts, MayAttempt(t)
  PROVE  Inv'
<1> DEFINE r == Attempting(t)
<1>1. PICK answer \in Answers, sent \in BOOLEAN :
        /\ answer = "success" => sent
        /\ answer = "failure" => ~sent
        /\ tx' = Answered(r, answer)
        /\ queue' = q
        /\ fate' = [fate EXCEPT ![t.next] = IF sent THEN "sent" ELSE "lost"]
        /\ UNCHANGED <<now, running, probes, heard>>
  BY DEF Attempt
<1>2. now \in Times /\ fate \in [1 .. MaxId -> {"none", "sent", "lost"}]
  BY DEF Inv
<1>3. Sound(r) /\ r.state = "sending" /\ LastOf(r) = t.next /\ t.next \in 1 .. MaxId
  BY <1>2, AttemptingSound
<1> HIDE DEF r
<1>4. /\ Sound(tx') /\ LastOf(tx') = t.next
      /\ tx'.state = "idle" /\ tx'.outcome = "success" => answer = "success"
      /\ tx'.state = "idle" /\ tx'.outcome = "failed" =>
           answer = "failure" /\ tx'.attempt = MaxAttempts
  BY <1>1, <1>2, <1>3, AnsweredSound
<1>5. fate'[t.next] = (IF sent THEN "sent" ELSE "lost")
      /\ fate' \in [1 .. MaxId -> {"none", "sent", "lost"}]
  BY <1>1, <1>2, <1>3
<1>6. LastAttempt' = t.next
  BY <1>4 DEF LastAttempt, LastOf
<1>7. OutcomeTrue'
  BY <1>1, <1>4, <1>5, <1>6 DEF OutcomeTrue
<1>8. QueueInv'
  BY <1>1, QueueShrinks DEF Inv
<1>9. Sound(tx)'
  BY <1>4 DEF Sound, LastOf
<1> QED BY <1>1, <1>2, <1>5, <1>7, <1>8, <1>9 DEF Inv

-----------------------------------------------------------------------------
(* The steps of the daemon *)

LEMMA OutcomeKept ==
  ASSUME OutcomeTrue, tx' = tx, UNCHANGED fate
  PROVE  OutcomeTrue'
BY DEF OutcomeTrue, LastAttempt

\* A transaction that stopped for lack of time claims nothing.
LEMMA OutcomeUnclaimed ==
  ASSUME tx'.state = "idle" => tx'.outcome = "timeout"
  PROVE  OutcomeTrue'
BY DEF OutcomeTrue

LEMMA SendingInv == ASSUME Inv, TurnSending PROVE Inv'
<1> DEFINE q == Live(queue)
           t == IF now >= tx.deadline THEN AttemptFailed(tx, TRUE) ELSE tx
<1>1. q \subseteq queue /\ IsFiniteSet(q) /\ Cardinality(q) <= Capacity
  BY LiveType DEF Inv, QueueInv
<1>2. tx.state = "sending" /\ Commit(t, q, Probes(queue) - Probes(q))
  BY DEF TurnSending
<1>3. tx' = t /\ UNCHANGED fate
  BY <1>2 DEF Commit
<1>4. Sound(tx) /\ now \in Times /\ OutcomeTrue
  BY DEF Inv
<1>5. CASE now >= tx.deadline
  <2>1. t = AttemptFailed(tx, TRUE)
    BY <1>5
  <2>2. Sound(t) /\ (t.state = "idle" => t.outcome = "timeout")
    BY <1>2, <1>4, <2>1, FailedSound
  <2> HIDE DEF t, q
  <2>3. OutcomeTrue'
    BY <1>3, <2>2, OutcomeUnclaimed
  <2> QED BY <1>1, <1>2, <2>2, <2>3, CommitInv
<1>6. CASE ~(now >= tx.deadline)
  <2>1. t = tx
    BY <1>6
  <2>2. OutcomeTrue'
    BY <1>3, <1>4, <2>1, OutcomeKept
  <2> HIDE DEF t, q
  <2> QED BY <1>1, <1>2, <1>4, <2>1, <2>2, CommitInv
<1> QED BY <1>5, <1>6

LEMMA ExitInv == ASSUME Inv, Exit PROVE Inv'
<1>1. UNCHANGED <<now, queue, tx, fate, probes, heard>> /\ running' = FALSE
  BY DEF Exit
<1> QED BY <1>1 DEF Inv, QueueInv, OneReplyPerProbe, Sound, LastOf, OutcomeTrue,
                     LastAttempt

LEMMA WaitingInv == ASSUME Inv, TurnWaiting PROVE Inv'
<1> DEFINE q == Live(queue)
           expired == Probes(queue) - Probes(q)
<1>1. q \subseteq queue /\ IsFiniteSet(q) /\ Cardinality(q) <= Capacity
  BY LiveType DEF Inv, QueueInv
<1>2. Sound(tx) /\ tx \in Transactions /\ now \in Times /\ OutcomeTrue
  BY DEF Inv, Sound
<1>3. tx.state = "waitRetry"
  BY DEF TurnWaiting
<1>4. CASE Commit(tx, q, expired)
  <2>1. OutcomeTrue'
    BY <1>2, <1>4, OutcomeKept DEF Commit
  <2> HIDE DEF q, expired
  <2> QED BY <1>1, <1>2, <1>4, <2>1, CommitInv
<1>5. CASE Commit(Finished(tx, "timeout"), q, expired)
  <2>1. /\ Sound(Finished(tx, "timeout"))
        /\ Finished(tx, "timeout").outcome = "timeout"
    BY <1>2, FinishedSound DEF Outcomes
  <2>2. OutcomeTrue'
    BY <1>5, <2>1, OutcomeUnclaimed DEF Commit
  <2> HIDE DEF q, expired
  <2> QED BY <1>1, <1>5, <2>1, <2>2, CommitInv
<1>6. CASE MayAttempt(tx) /\ Attempt(tx, q, expired)
  <2>1. tx.entry \in Entries /\ tx.attempt < MaxAttempts
    BY <1>2, <1>3 DEF Sound, Transactions
  <2> HIDE DEF q, expired
  <2> QED BY <1>1, <1>2, <1>6, <2>1, AttemptInv
<1>7. CASE Exit
  BY <1>7, ExitInv
<1> QED BY <1>4, <1>5, <1>6, <1>7 DEF TurnWaiting

LEMMA IdleInv == ASSUME Inv, TurnIdle PROVE Inv'
<1> DEFINE q == Live(queue)
           expired == Probes(queue) - Probes(q)
<1>1. q \subseteq queue /\ IsFiniteSet(q) /\ Cardinality(q) <= Capacity
  BY LiveType DEF Inv, QueueInv
<1>2. Sound(tx) /\ tx \in Transactions /\ now \in Times /\ OutcomeTrue
  BY DEF Inv, Sound
<1>3. CASE Exit
  BY <1>3, ExitInv
<1>4. CASE Commit(tx, q, expired)
  <2>1. OutcomeTrue'
    BY <1>2, <1>4, OutcomeKept DEF Commit
  <2> HIDE DEF q, expired
  <2> QED BY <1>1, <1>2, <1>4, <2>1, CommitInv
<1>5. CASE /\ MayAttempt(tx)
           /\ \E e \in Oldest(q) : Attempt(Begun(tx, e), Taken(q, e), expired)
  <2>1. PICK e \in Oldest(q) : Attempt(Begun(tx, e), Taken(q, e), expired)
    BY <1>5
  <2>2. e \in Entries
    BY <1>1, <2>1 DEF Oldest, Inv, QueueInv
  <2> DEFINE b == Begun(tx, e)
  <2>a. "none" \in Outcomes /\ 0 \in 0 .. MaxAttempts
    BY SendAssumption DEF Outcomes
  <2>b. b \in Transactions
    BY <1>2, <2>2, <2>a DEF Begun, Transactions
  <2>c. b.entry = e /\ b.attempt = 0 /\ b.next = tx.next
    BY <1>2 DEF Begun, Transactions
  <2> HIDE DEF b
  <2>3. b \in Transactions /\ b.entry \in Entries /\ b.attempt = 0 /\ b.next = tx.next
    BY <2>2, <2>b, <2>c
  <2>4. MayAttempt(b)
    BY <1>5, <2>3 DEF MayAttempt
  <2>5. /\ Taken(q, e) \subseteq queue
        /\ IsFiniteSet(Taken(q, e)) /\ Cardinality(Taken(q, e)) <= Capacity
    BY <1>1, TakenType DEF Taken
  <2>6. b.attempt < MaxAttempts
    BY <2>3, SendAssumption
  <2>7. Attempt(b, Taken(q, e), expired)
    BY <2>1 DEF b
  <2> HIDE DEF q, expired
  <2> QED BY <2>3, <2>4, <2>5, <2>6, <2>7, AttemptInv
<1> QED BY <1>3, <1>4, <1>5 DEF TurnIdle

-----------------------------------------------------------------------------
(* Probes, answers and the clock *)

LEMMA EnqueueInv == ASSUME Inv, NEW k \in Keys, Enqueue(k) PROVE Inv'
<1> DEFINE q == Live(queue)
           same == Same(q, k)
<1>1. q \subseteq queue /\ IsFiniteSet(q) /\ Cardinality(q) <= Capacity
  BY LiveType DEF Inv, QueueInv
<1>2. /\ now \in Times /\ now <= MaxTime - Ttl /\ probes \in Nat
      /\ heard \in [Keys -> Times] /\ queue \subseteq Entries /\ OneReplyPerProbe
  BY DEF Inv, QueueInv, Enqueue
<1>3. /\ probes' = probes + 1 /\ heard' = [heard EXCEPT ![k] = now]
      /\ UNCHANGED <<now, tx, running, fate>>
      /\ same # {} \/ Cardinality(q) < Capacity
      /\ queue' = IF same # {}
                  THEN {IF e \in same THEN Repeated(e) ELSE e : e \in q}
                  ELSE q \cup {FirstProbe(k)}
  BY DEF Enqueue
<1>4. heard' \in [Keys -> Times] /\ probes' \in Nat
  BY <1>2, <1>3
<1>5. \A j \in Keys : heard'[j] = IF j = k THEN now ELSE heard[j]
  BY <1>2, <1>3
<1>6. \A e \in q : e \in Entries /\ e.key \in Keys /\ e.expires = heard[e.key] + Ttl
  BY <1>1, <1>2 DEF OneReplyPerProbe, Entries
<1>7. \A e, f \in q : f.key = e.key => f = e
  BY <1>1, <1>2 DEF OneReplyPerProbe
<1>8. \A e \in q : e \in same <=> e.key = k
  BY DEF Same
<1>9. CASE same # {}
  <2>1. queue' = {IF e \in same THEN Repeated(e) ELSE e : e \in q}
    BY <1>3, <1>9
  <2>2. IsFiniteSet(queue') /\ Cardinality(queue') <= Capacity
    BY <1>1, <2>1, SharedSize
  <2>3. \A e \in q : /\ Repeated(e) \in Entries
                      /\ Repeated(e).key = e.key
                      /\ Repeated(e).expires = now + Ttl
    <3> TAKE e \in q
    <3>1. e \in Entries
      BY <1>6
    <3>2. Repeated(e) \in Entries
      BY <1>2, <3>1, RepeatedType
    <3> QED BY <3>1, <3>2 DEF Repeated, Entries
  <2> HIDE DEF q, same
  <2>4. queue' \subseteq Entries
    BY <1>6, <2>1, <2>3
  <2>5. ASSUME NEW e \in queue' PROVE e.expires = heard'[e.key] + Ttl
    <3>1. PICK d \in q : e = IF d \in same THEN Repeated(d) ELSE d
      BY <2>1
    <3>2. CASE d \in same
      BY <1>5, <1>6, <1>8, <2>3, <3>1, <3>2
    <3>3. CASE d \notin same
      BY <1>5, <1>6, <1>8, <3>1, <3>3
    <3> QED BY <3>2, <3>3
  <2>6. ASSUME NEW e \in queue', NEW f \in queue', f.key = e.key PROVE f = e
    <3>1. PICK d \in q : e = IF d \in same THEN Repeated(d) ELSE d
      BY <2>1
    <3>2. PICK c \in q : f = IF c \in same THEN Repeated(c) ELSE c
      BY <2>1
    <3>3. d.key = e.key /\ c.key = f.key
      BY <2>3, <3>1, <3>2
    <3>4. c = d
      BY <1>7, <2>6, <3>3
    <3> QED BY <3>1, <3>2, <3>4
  <2>7. QueueInv'
    BY <2>2, <2>4, <2>5, <2>6 DEF QueueInv, OneReplyPerProbe
  <2> QED BY <1>3, <1>4, <2>7 DEF Inv, Sound, LastOf, OutcomeTrue, LastAttempt
<1>10. CASE same = {}
  <2> DEFINE n == FirstProbe(k)
  <2>1. queue' = q \cup {n}
    BY <1>3, <1>10
  <2>2. IsFiniteSet(queue') /\ Cardinality(queue') <= Capacity
    BY <1>1, <1>3, <1>10, <2>1, EnqueuedSize
  <2>3. now + Ttl \in Times /\ 1 \in 1 .. MaxRepeat
    BY <1>2, SendAssumption DEF Times
  <2>4. n \in Entries /\ n.key = k /\ n.expires = now + Ttl
    BY <1>2, <2>3 DEF FirstProbe, Entries
  <2>5. \A e \in q : e.key # k
    BY <1>8, <1>10
  <2> HIDE DEF q, same, n
  <2>6. queue' \subseteq Entries
    BY <1>6, <2>1, <2>4
  <2>7. ASSUME NEW e \in queue' PROVE e.expires = heard'[e.key] + Ttl
    <3>1. CASE e = n
      BY <1>5, <2>4, <3>1
    <3>2. CASE e \in q
      BY <1>5, <1>6, <2>5, <3>2
    <3> QED BY <2>1, <3>1, <3>2
  <2>8. ASSUME NEW e \in queue', NEW f \in queue', f.key = e.key PROVE f = e
    <3>1. (e \in q \/ e = n) /\ (f \in q \/ f = n)
      BY <2>1
    <3> QED BY <1>7, <2>4, <2>5, <2>8, <3>1
  <2>9. QueueInv'
    BY <2>2, <2>6, <2>7, <2>8 DEF QueueInv, OneReplyPerProbe
  <2> QED BY <1>3, <1>4, <2>9 DEF Inv, Sound, LastOf, OutcomeTrue, LastAttempt
<1> QED BY <1>9, <1>10

LEMMA CompleteInv == ASSUME Inv, NEW id \in 1 .. MaxId, Complete(id) PROVE Inv'
<1> DEFINE answer == IF fate[id] = "sent" THEN "success" ELSE "failure"
           t == IF now >= tx.deadline THEN AttemptFailed(tx, TRUE)
                ELSE Answered(tx, answer)
<1>1. tx.state = "sending" /\ id = tx.active /\ fate[id] # "none" /\ Commit(t, queue, 0)
  BY DEF Complete, CompletionCurrent
<1>2. /\ Sound(tx) /\ tx \in Transactions /\ now \in Times /\ queue \subseteq queue
      /\ IsFiniteSet(queue) /\ Cardinality(queue) <= Capacity
      /\ fate[id] \in {"none", "sent", "lost"}
  BY DEF Inv, QueueInv, Sound
<1>3. id = LastOf(tx)
  BY <1>1, <1>2 DEF Sound
<1>4. tx' = t /\ UNCHANGED fate
  BY <1>1 DEF Commit
<1>5. CASE now >= tx.deadline
  <2>1. t = AttemptFailed(tx, TRUE)
    BY <1>5
  <2>2. Sound(t) /\ (t.state = "idle" => t.outcome = "timeout")
    BY <1>1, <1>2, <2>1, FailedSound
  <2> HIDE DEF t
  <2>3. OutcomeTrue'
    BY <1>4, <2>2, OutcomeUnclaimed
  <2> QED BY <1>1, <1>2, <2>2, <2>3, CommitInv
<1>6. CASE ~(now >= tx.deadline)
  <2>1. t = Answered(tx, answer) /\ answer \in Answers
    BY <1>6 DEF Answers
  <2>2. /\ answer = "success" => fate[id] = "sent"
        /\ answer = "failure" => fate[id] = "lost"
    BY <1>1, <1>2
  <2> HIDE DEF t, answer
  <2>3. /\ Sound(t) /\ LastOf(t) = id
        /\ t.state = "idle" /\ t.outcome = "success" => answer = "success"
        /\ t.state = "idle" /\ t.outcome = "failed" =>
             answer = "failure" /\ t.attempt = MaxAttempts
    BY <1>1, <1>2, <1>3, <2>1, AnsweredSound
  <2>4. LastAttempt' = id
    BY <1>4, <2>3 DEF LastAttempt, LastOf
  <2>5. OutcomeTrue'
    BY <1>4, <2>2, <2>3, <2>4 DEF OutcomeTrue
  <2> QED BY <1>1, <1>2, <2>3, <2>5, CommitInv
<1> QED BY <1>5, <1>6

LEMMA TickInv == ASSUME Inv, Tick PROVE Inv'
<1>1. now' = now + 1 /\ UNCHANGED <<queue, tx, running, fate, probes, heard>>
  BY DEF Tick
<1>2. now' \in Times
  BY <1>1, SendAssumption DEF Inv, Tick, Times
<1> QED BY <1>1, <1>2 DEF Inv, QueueInv, OneReplyPerProbe, Sound, LastOf, OutcomeTrue,
                          LastAttempt

LEMMA InitInv == Init => Inv
<1> SUFFICES ASSUME Init PROVE Inv
  OBVIOUS
<1>1. 0 \in Times /\ 0 \in Ids /\ 1 \in Ids /\ 0 \in 0 .. MaxAttempts
  BY SendAssumption DEF Times, Ids
<1>2. tx \in Transactions
  BY <1>1 DEF Init, Transactions, TxStates, Outcomes
<1>3. Sound(tx) /\ OutcomeTrue
  BY <1>2 DEF Init, Sound, OutcomeTrue
<1>4. QueueInv
  <2>1. Cardinality({}) = 0 /\ IsFiniteSet({})
    BY FS_EmptySet
  <2> QED BY <2>1, SendAssumption DEF Init, QueueInv, OneReplyPerProbe
<1>5. now \in Times /\ heard \in [Keys -> Times] /\ probes \in Nat
      /\ fate \in [1 .. MaxId -> {"none", "sent", "lost"}]
  BY <1>1 DEF Init
<1> QED BY <1>3, <1>4, <1>5 DEF Init, Inv

LEMMA NextInv == ASSUME Inv, [Next]_vars PROVE Inv'
<1>1. ASSUME NEW k \in Keys, Enqueue(k) PROVE Inv'
  BY <1>1, EnqueueInv
<1>2. ASSUME NEW id \in 1 .. MaxId, Complete(id) PROVE Inv'
  BY <1>2, CompleteInv
<1>3. CASE Turn
  BY <1>3, SendingInv, WaitingInv, IdleInv DEF Turn
<1>4. CASE Tick
  BY <1>4, TickInv
<1>5. CASE UNCHANGED vars
  BY <1>5 DEF vars, Inv, QueueInv, OneReplyPerProbe, Sound, LastOf, OutcomeTrue,
              LastAttempt
<1> QED BY <1>1, <1>2, <1>3, <1>4, <1>5 DEF Next

-----------------------------------------------------------------------------
(* Sums.  What the entries of a queue add up to does not depend on the order *)
(* in which they are added; the inductions are over the size of the queue,   *)
(* each by the least size at which it would fail.                            *)

LEMMA LeastNumber ==
  ASSUME NEW T \in SUBSET Nat, T # {}
  PROVE  \E n \in T : \A k \in T : n <= k
<1>1. \E n \in T : \A k \in T : <<k, n>> \notin OpToRel(<, Nat)
  BY WFMin, NatLessThanWellFounded, Zenon
<1>2. \E n \in T : \A k \in T : ~(k < n)
  BY <1>1, Zenon DEF OpToRel
<1> QED BY <1>2

\* The entry that is added first.
First(s) == CHOOSE e \in s : TRUE

LEMMA FirstIn == \A s : s # {} => First(s) \in s
BY DEF First

LEMMA Fewer ==
  ASSUME NEW q, IsFiniteSet(q), NEW e \in q
  PROVE  /\ IsFiniteSet(q \ {e}) /\ Cardinality(q) \in Nat \ {0}
         /\ Cardinality(q \ {e}) \in Nat /\ Cardinality(q \ {e}) = Cardinality(q) - 1
<1>1. IsFiniteSet(q \ {e}) /\ Cardinality(q \ {e}) = Cardinality(q) - 1
  BY FS_RemoveElement
<1>2. Cardinality(q) \in Nat /\ Cardinality(q \ {e}) \in Nat
  BY <1>1, FS_CardinalityType
<1> QED BY <1>1, <1>2

\* The function whose value at q is Probes(q).
Adds(q, f) ==
  f = [s \in SUBSET q |-> IF s = {} THEN 0 ELSE First(s).repeat + f[s \ {First(s)}]]

LEMMA ProbesAre == \A q : Probes(q) = (CHOOSE f : Adds(q, f))[q]
BY Zenon DEF Probes, MapThenSumSet, MapThenFoldSet, Adds, First

\* The same on the subsets with at most n entries.
Small(q, n) == {s \in SUBSET q : Cardinality(s) <= n}

AddsTo(q, n) ==
  {f \in [Small(q, n) -> Nat] :
     \A s \in Small(q, n) :
        f[s] = IF s = {} THEN 0 ELSE First(s).repeat + f[s \ {First(s)}]}

LEMMA SmallerIn ==
  ASSUME NEW q \in SUBSET Entries, IsFiniteSet(q), NEW n \in Nat,
         NEW s \in Small(q, n), s # {}
  PROVE  /\ n # 0 /\ s \ {First(s)} \in Small(q, n - 1) /\ First(s).repeat \in Nat
         /\ s \ {First(s)} \in Small(q, n)
<1>1. s \subseteq q /\ IsFiniteSet(s) /\ Cardinality(s) <= n /\ First(s) \in s
  BY FS_Subset, FirstIn DEF Small
<1>2. /\ Cardinality(s) \in Nat \ {0} /\ Cardinality(s \ {First(s)}) \in Nat
      /\ Cardinality(s \ {First(s)}) = Cardinality(s) - 1
  BY <1>1, Fewer
<1>3. n # 0 /\ Cardinality(s \ {First(s)}) <= n - 1 /\ Cardinality(s \ {First(s)}) <= n
  BY <1>1, <1>2
<1>4. First(s).repeat \in Nat
  BY <1>1, SendAssumption DEF Entries
<1> QED BY <1>1, <1>3, <1>4 DEF Small

LEMMA AddsToExists ==
  ASSUME NEW q \in SUBSET Entries, IsFiniteSet(q), NEW n \in Nat
  PROVE  AddsTo(q, n) # {}
<1> DEFINE Fails == {k \in Nat : AddsTo(q, k) = {}}
<1> SUFFICES ASSUME Fails # {} PROVE FALSE
  OBVIOUS
<1>1. PICK k \in Fails : \A l \in Fails : k <= l
  <2> HIDE DEF Fails
  <2>1. Fails \in SUBSET Nat
    BY DEF Fails
  <2> QED BY <2>1, LeastNumber
<1>2. k \in Nat /\ AddsTo(q, k) = {}
  OBVIOUS
<1>3. k - 1 \in Nat => AddsTo(q, k - 1) # {}
  BY <1>1, <1>2
<1> HIDE DEF Fails
<1> DEFINE g == CHOOSE h \in AddsTo(q, k - 1) : TRUE
           f == [s \in Small(q, k) |->
                   IF s = {} THEN 0 ELSE First(s).repeat + g[s \ {First(s)}]]
<1>4. k # 0 => /\ g \in [Small(q, k - 1) -> Nat]
               /\ \A s \in Small(q, k - 1) :
                     g[s] = IF s = {} THEN 0 ELSE First(s).repeat + g[s \ {First(s)}]
  <2>1. k # 0 => g \in AddsTo(q, k - 1)
    BY <1>2, <1>3
  <2> HIDE DEF g
  <2> QED BY <2>1 DEF AddsTo
<1> HIDE DEF g
<1>5. ASSUME NEW s \in Small(q, k), s # {}
      PROVE  /\ k # 0 /\ First(s).repeat \in Nat
             /\ s \ {First(s)} \in Small(q, k - 1) /\ s \ {First(s)} \in Small(q, k)
  BY <1>2, <1>5, SmallerIn
<1>6. f \in [Small(q, k) -> Nat]
  <2>1. ASSUME NEW s \in Small(q, k), s # {}
        PROVE  First(s).repeat + g[s \ {First(s)}] \in Nat
    <3> DEFINE u == s \ {First(s)}
    <3>1. u \in Small(q, k - 1) /\ First(s).repeat \in Nat /\ k # 0
      BY <1>5, <2>1
    <3> HIDE DEF u
    <3>2. g[u] \in Nat
      BY <1>4, <3>1
    <3> QED BY <3>1, <3>2 DEF u
  <2> QED BY <2>1
<1>7. ASSUME NEW s \in Small(q, k), s # {}
      PROVE  f[s] = First(s).repeat + f[s \ {First(s)}]
  <2> DEFINE u == s \ {First(s)}
  <2>1. u \in Small(q, k - 1) /\ u \in Small(q, k) /\ k # 0
    BY <1>5, <1>7
  <2> HIDE DEF u
  <2>2. f[u] = IF u = {} THEN 0 ELSE First(u).repeat + g[u \ {First(u)}]
    BY <2>1
  <2>3. f[u] = g[u]
    BY <1>4, <2>1, <2>2
  <2>4. f[s] = First(s).repeat + g[u]
    BY <1>7 DEF u
  <2> HIDE DEF f
  <2> QED BY <2>3, <2>4 DEF u
<1>8. f \in AddsTo(q, k)
  <2>1. {} \in Small(q, k) => f[{}] = 0
    OBVIOUS
  <2> HIDE DEF f
  <2> QED BY <1>6, <1>7, <2>1 DEF AddsTo
<1> QED BY <1>2, <1>8

LEMMA AddsExists ==
  ASSUME NEW q \in SUBSET Entries, IsFiniteSet(q)
  PROVE  \E f \in [SUBSET q -> Nat] : Adds(q, f)
<1>1. Cardinality(q) \in Nat
  BY FS_CardinalityType
<1>2. Small(q, Cardinality(q)) = SUBSET q
  BY FS_Subset DEF Small
<1>3. PICK f : f \in AddsTo(q, Cardinality(q))
  BY <1>1, AddsToExists
<1>4. /\ f \in [SUBSET q -> Nat]
      /\ \A s \in SUBSET q :
            f[s] = IF s = {} THEN 0 ELSE First(s).repeat + f[s \ {First(s)}]
  BY <1>2, <1>3 DEF AddsTo
<1>5. Adds(q, f)
  BY <1>4 DEF Adds
<1> QED BY <1>4, <1>5

LEMMA ProbesAdds ==
  ASSUME NEW q \in SUBSET Entries, IsFiniteSet(q)
  PROVE  \E f : Adds(q, f) /\ Probes(q) = f[q]
BY AddsExists, ProbesAre

\* Where two of these functions are both defined, they agree.
LEMMA AddsAgree ==
  ASSUME NEW q \in SUBSET Entries, IsFiniteSet(q), NEW r \in SUBSET q,
         NEW f, NEW g, Adds(q, f), Adds(r, g)
  PROVE  \A s \in SUBSET r : f[s] = g[s]
<1> DEFINE Fails == {k \in Nat : \E s \in SUBSET r : Cardinality(s) = k /\ f[s] # g[s]}
<1>1. ASSUME NEW s \in SUBSET r
      PROVE  /\ f[s] = IF s = {} THEN 0 ELSE First(s).repeat + f[s \ {First(s)}]
             /\ g[s] = IF s = {} THEN 0 ELSE First(s).repeat + g[s \ {First(s)}]
  <2>1. s \in SUBSET q
    OBVIOUS
  <2> QED BY <1>1, <2>1 DEF Adds
<1>2. ASSUME NEW s \in SUBSET r PROVE IsFiniteSet(s) /\ Cardinality(s) \in Nat
  BY FS_Subset, FS_CardinalityType
<1>3. Fails = {}
  <2> SUFFICES ASSUME Fails # {} PROVE FALSE
    OBVIOUS
  <2>1. PICK k \in Fails : \A l \in Fails : k <= l
    <3>1. Fails \in SUBSET Nat
      OBVIOUS
    <3> HIDE DEF Fails
    <3> QED BY <3>1, LeastNumber
  <2>2. PICK s \in SUBSET r : Cardinality(s) = k /\ f[s] # g[s]
    OBVIOUS
  <2>3. s # {}
    BY <1>1, <2>2
  <2> DEFINE u == s \ {First(s)}
  <2>4. u \in SUBSET r /\ Cardinality(u) \in Nat /\ Cardinality(u) < k
    BY <1>2, <2>2, <2>3, FirstIn, Fewer
  <2>5. f[u] # g[u]
    BY <1>1, <2>2, <2>3
  <2>6. Cardinality(u) \in Fails
    BY <2>4, <2>5
  <2> HIDE DEF Fails, u
  <2>7. k \in Nat
    BY DEF Fails
  <2> QED BY <2>1, <2>4, <2>6, <2>7
<1> SUFFICES ASSUME NEW s \in SUBSET r, f[s] # g[s] PROVE FALSE
  OBVIOUS
<1>4. Cardinality(s) \in Fails
  BY <1>2
<1> QED BY <1>3, <1>4

LEMMA ProbesOfNone == Probes({}) = 0
<1>1. PICK f : Adds({}, f) /\ Probes({}) = f[{}]
  BY ProbesAdds, FS_EmptySet
<1> QED BY <1>1 DEF Adds

LEMMA ProbesOfFirst ==
  ASSUME NEW q \in SUBSET Entries, IsFiniteSet(q), q # {}
  PROVE  Probes(q) = First(q).repeat + Probes(q \ {First(q)})
<1> DEFINE r == q \ {First(q)}
<1>1. PICK f : Adds(q, f) /\ Probes(q) = f[q]
  BY ProbesAdds
<1>2. r \in SUBSET q /\ r \in SUBSET Entries /\ IsFiniteSet(r)
  BY FS_Subset
<1> HIDE DEF r
<1>3. PICK g : Adds(r, g) /\ Probes(r) = g[r]
  BY <1>2, ProbesAdds
<1>4. f[r] = g[r]
  BY <1>1, <1>2, <1>3, AddsAgree
<1>5. f[q] = First(q).repeat + f[q \ {First(q)}]
  BY <1>1 DEF Adds
<1> QED BY <1>1, <1>3, <1>4, <1>5 DEF r

LEMMA ProbesType ==
  ASSUME NEW q \in SUBSET Entries, IsFiniteSet(q)
  PROVE  Probes(q) \in Nat
<1>1. PICK f \in [SUBSET q -> Nat] : Adds(q, f)
  BY AddsExists
<1>2. PICK g : Adds(q, g) /\ Probes(q) = g[q]
  BY ProbesAdds
<1>3. f[q] = g[q]
  BY <1>1, <1>2, AddsAgree
<1>4. q \in SUBSET q
  OBVIOUS
<1>5. f[q] \in Nat
  BY <1>1, <1>4
<1> QED BY <1>2, <1>3, <1>5

LEMMA ProbesWithout ==
  ASSUME NEW q \in SUBSET Entries, IsFiniteSet(q), NEW e \in q
  PROVE  Probes(q) = e.repeat + Probes(q \ {e})
<1> DEFINE Queues == {s \in SUBSET Entries : IsFiniteSet(s)}
           Exact(s) == \A d \in s : Probes(s) = d.repeat + Probes(s \ {d})
           Fails == {k \in Nat : \E s \in Queues : Cardinality(s) = k /\ ~Exact(s)}
<1>1. ASSUME NEW s \in Queues
      PROVE  /\ Cardinality(s) \in Nat /\ Probes(s) \in Nat
             /\ \A d \in s : /\ s \ {d} \in Queues /\ d.repeat \in Nat
                            /\ Cardinality(s \ {d}) < Cardinality(s)
  <2>1. Cardinality(s) \in Nat /\ Probes(s) \in Nat
    BY FS_CardinalityType, ProbesType
  <2>2. ASSUME NEW d \in s
        PROVE  /\ s \ {d} \in Queues /\ d.repeat \in Nat
               /\ Cardinality(s \ {d}) < Cardinality(s)
    <3>1. IsFiniteSet(s \ {d}) /\ Cardinality(s \ {d}) < Cardinality(s)
      BY Fewer
    <3>2. d.repeat \in Nat
      BY SendAssumption DEF Entries
    <3> QED BY <3>1, <3>2
  <2> QED BY <2>1, <2>2
<1>2. Fails = {}
  <2> SUFFICES ASSUME Fails # {} PROVE FALSE
    OBVIOUS
  <2>1. PICK k \in Fails : \A l \in Fails : k <= l
    <3>1. Fails \in SUBSET Nat
      OBVIOUS
    <3> HIDE DEF Fails
    <3> QED BY <3>1, LeastNumber
  <2>2. k \in Nat
    OBVIOUS
  <2>3. PICK s \in Queues : Cardinality(s) = k /\ ~Exact(s)
    OBVIOUS
  <2>4. ASSUME NEW t \in Queues, Cardinality(t) < k PROVE Exact(t)
    <3> SUFFICES ASSUME ~Exact(t) PROVE FALSE
      OBVIOUS
    <3>1. Cardinality(t) \in Fails
      BY <1>1
    <3>2. Cardinality(t) \in Nat
      BY <1>1
    <3> HIDE DEF Fails, Queues, Exact
    <3> QED BY <2>1, <2>2, <2>4, <3>1, <3>2
  <2> HIDE DEF Fails
  <2>5. PICK d \in s : Probes(s) # d.repeat + Probes(s \ {d})
    BY <2>3
  <2> DEFINE p == First(s)
             a == s \ {p}
             b == s \ {d}
             c == a \ {d}
  <2>6. p \in s /\ Probes(s) = p.repeat + Probes(a)
    BY <2>5, FirstIn, ProbesOfFirst
  <2>7. p # d
    BY <2>5, <2>6
  <2>8. d \in a /\ p \in b /\ b \ {p} = c
    BY <2>5, <2>6, <2>7
  <2>9. /\ a \in Queues /\ b \in Queues /\ c \in Queues
        /\ Cardinality(a) < k /\ Cardinality(b) < k
        /\ p.repeat \in Nat /\ d.repeat \in Nat
    BY <1>1, <2>3, <2>5, <2>6, <2>8
  <2>10. Exact(a) /\ Exact(b)
    BY <2>4, <2>9
  <2>11. Probes(a) = d.repeat + Probes(c) /\ Probes(b) = p.repeat + Probes(c)
    BY <2>8, <2>10
  <2>12. Probes(c) \in Nat
    BY <1>1, <2>9
  <2>13. Probes(s) # d.repeat + Probes(b)
    BY <2>5
  <2> HIDE DEF p, a, b, c, Queues, Exact
  <2> QED BY <2>6, <2>9, <2>11, <2>12, <2>13
<1>3. q \in Queues /\ Cardinality(q) \in Nat
  BY <1>1
<1>4. Exact(q)
  BY <1>2, <1>3
<1> QED BY <1>4

LEMMA ProbesWith ==
  ASSUME NEW q \in SUBSET Entries, IsFiniteSet(q), NEW e \in Entries, e \notin q
  PROVE  Probes(q \cup {e}) = Probes(q) + e.repeat
<1> DEFINE r == q \cup {e}
<1>1. r \in SUBSET Entries /\ IsFiniteSet(r) /\ e \in r /\ r \ {e} = q
  BY FS_AddElement
<1>2. e.repeat \in Nat /\ Probes(q) \in Nat
  BY ProbesType, SendAssumption DEF Entries
<1> HIDE DEF r
<1>3. Probes(r) = e.repeat + Probes(q)
  BY <1>1, ProbesWithout
<1> QED BY <1>2, <1>3 DEF r

\* Fewer entries never stand for more probes.
LEMMA ProbesOfPart ==
  ASSUME NEW q \in SUBSET Entries, IsFiniteSet(q), NEW s \in SUBSET q
  PROVE  Probes(s) <= Probes(q)
<1> DEFINE Queues == {r \in SUBSET Entries : IsFiniteSet(r)}
           Most(r) == \A p \in SUBSET r : Probes(p) <= Probes(r)
           Fails == {k \in Nat : \E r \in Queues : Cardinality(r) = k /\ ~Most(r)}
<1>1. ASSUME NEW r \in Queues
      PROVE  /\ Cardinality(r) \in Nat /\ Probes(r) \in Nat
             /\ SUBSET r \subseteq Queues
  BY FS_CardinalityType, ProbesType, FS_Subset
<1>2. Fails = {}
  <2> SUFFICES ASSUME Fails # {} PROVE FALSE
    OBVIOUS
  <2>1. PICK k \in Fails : \A l \in Fails : k <= l
    <3>1. Fails \in SUBSET Nat
      OBVIOUS
    <3> HIDE DEF Fails
    <3> QED BY <3>1, LeastNumber
  <2>2. PICK r \in Queues : Cardinality(r) = k /\ ~Most(r)
    OBVIOUS
  <2>3. PICK p \in SUBSET r : ~(Probes(p) <= Probes(r))
    BY <2>2
  <2>4. p \in Queues /\ Probes(p) \in Nat /\ Probes(r) \in Nat
    BY <1>1
  <2>5. p # r
    BY <2>3, <2>4
  <2>6. PICK d \in r : d \notin p
    BY <2>5
  <2> DEFINE u == r \ {d}
  <2>7. u \in Queues /\ p \in SUBSET u /\ Cardinality(u) < k /\ Cardinality(u) \in Nat
    <3>1. r \in SUBSET Entries /\ IsFiniteSet(r) /\ Cardinality(r) = k /\ u \in SUBSET r
      BY <2>2
    <3>2. p \in SUBSET u
      BY <2>6
    <3>3. u \in Queues
      BY <1>1, <3>1
    <3> HIDE DEF Fails, Queues, Most
    <3>4. /\ Cardinality(r) \in Nat \ {0} /\ Cardinality(u) \in Nat
          /\ Cardinality(u) = Cardinality(r) - 1
      BY <3>1, Fewer
    <3> QED BY <3>1, <3>2, <3>3, <3>4
  <2>8. Probes(r) = d.repeat + Probes(u) /\ d.repeat \in Nat
    BY <2>6, ProbesWithout, SendAssumption DEF Entries
  <2>9. Probes(u) \in Nat
    BY <1>1, <2>7
  <2> HIDE DEF u
  <2>10. ~(Probes(p) <= Probes(u))
    BY <2>3, <2>4, <2>8, <2>9
  <2>11. Cardinality(u) \in Fails
    BY <2>7, <2>10
  <2> HIDE DEF Fails, Queues, Most
  <2>12. k \in Nat
    BY DEF Fails
  <2> QED BY <2>1, <2>7, <2>11, <2>12
<1>3. q \in Queues /\ Cardinality(q) \in Nat
  BY <1>1
<1>4. Most(q)
  BY <1>2, <1>3
<1> QED BY <1>4

-----------------------------------------------------------------------------
(* Every probe is accounted for *)

\* The probes whose reply the transaction t is sending.
Held(t) == IF t.state = "idle" THEN 0 ELSE t.entry.repeat

\* The account balances, and no count has reached the value it stops at.
Accounted ==
  /\ Inv
  /\ gone \in Nat
  /\ probes <= MaxProbes
  /\ NothingLost

LEMMA HeldType == ASSUME NEW t, Sound(t) PROVE Held(t) \in Nat
<1>1. t.state # "idle" => t.entry \in Entries
  BY DEF Sound, Transactions
<1>2. \A e \in Entries : e.repeat \in Nat
  BY SendAssumption DEF Entries
<1> QED BY <1>1, <1>2 DEF Held

\* What the numbers of an account are, and that it balances.
LEMMA Balance ==
  ASSUME Accounted
  PROVE  /\ gone \in Nat /\ probes \in Nat /\ Probes(queue) \in Nat /\ Held(tx) \in Nat
         /\ probes = Probes(queue) + gone + Held(tx)
<1>1. queue \in SUBSET Entries /\ IsFiniteSet(queue) /\ Sound(tx)
  BY DEF Accounted, Inv, QueueInv
<1> QED BY <1>1, ProbesType, HeldType DEF Accounted, NothingLost, Held, Inv

LEMMA LiveProbes ==
  ASSUME Inv
  PROVE  /\ Live(queue) \in SUBSET Entries /\ IsFiniteSet(Live(queue))
         /\ Probes(queue) \in Nat /\ Probes(Live(queue)) \in Nat
         /\ Probes(queue) - Probes(Live(queue)) \in Nat
<1>1. queue \in SUBSET Entries /\ IsFiniteSet(queue) /\ Cardinality(queue) <= Capacity
  BY DEF Inv, QueueInv
<1>2. Live(queue) \in SUBSET queue /\ IsFiniteSet(Live(queue))
  BY <1>1, LiveType
<1>3. Probes(queue) \in Nat /\ Probes(Live(queue)) \in Nat
  BY <1>1, <1>2, ProbesType
<1>4. Probes(Live(queue)) <= Probes(queue)
  BY <1>1, <1>2, ProbesOfPart
<1> QED BY <1>1, <1>2, <1>3, <1>4

\* A failed attempt ends the transaction or leaves it its reply.
LEMMA FailedKeeps ==
  ASSUME NEW t \in Transactions, NEW timedOut
  PROVE  \/ AttemptFailed(t, timedOut).state = "idle"
         \/ AttemptFailed(t, timedOut).entry = t.entry
<1>1. \A o : Finished(t, o).state = "idle"
  BY DEF Finished, Transactions
<1>2. [t EXCEPT !.state = "waitRetry", !.deadline = 0,
                !.retryAt = now + RetryDelay].entry = t.entry
  BY DEF Transactions
<1> QED BY <1>1, <1>2 DEF AttemptFailed

LEMMA AnsweredKeeps ==
  ASSUME NEW t \in Transactions, NEW answer \in Answers
  PROVE  Answered(t, answer).state = "idle" \/ Answered(t, answer).entry = t.entry
<1>1. \A o : Finished(t, o).state = "idle"
  BY DEF Finished, Transactions
<1> QED BY <1>1, FailedKeeps DEF Answered, Answers

LEMMA CommitAccounts ==
  ASSUME Accounted, Inv', NEW t, NEW q, Commit(t, q, Probes(queue) - Probes(q)),
         Probes(q) \in Nat, Probes(queue) - Probes(q) \in Nat, Sound(t),
         tx.state = "idle" => t = tx,
         t.state = "idle" \/ t.entry = tx.entry
  PROVE  Accounted'
<1>1. /\ tx' = t /\ queue' = q /\ probes' = probes
      /\ gone' = gone + (Probes(queue) - Probes(q)) + Left(t, q)
  BY DEF Commit
<1>2. Held(t) \in Nat
  BY HeldType
<1>3. Held(tx) = Held(t) + Left(t, q) /\ Left(t, q) \in Nat
  BY <1>2, Balance DEF Held, Left
<1>4. probes' = Probes(queue') + gone' + Held(tx') /\ gone' \in Nat
  BY <1>1, <1>2, <1>3, Balance
<1> QED BY <1>1, <1>4 DEF Accounted, NothingLost, Held

LEMMA AttemptAccounts ==
  ASSUME Accounted, Inv', NEW t \in Transactions, NEW q, NEW expired \in Nat,
         Attempt(t, q, expired), t.entry \in Entries, Probes(q) \in Nat,
         Probes(queue) + Held(tx) = Probes(q) + expired + t.entry.repeat,
         Attempting(t) \in Transactions
  PROVE  Accounted'
<1>1. PICK answer \in Answers :
        /\ tx' = Answered(Attempting(t), answer)
        /\ queue' = q /\ probes' = probes
        /\ gone' = gone + expired + (IF tx'.state = "idle" THEN t.entry.repeat ELSE 0)
  BY DEF Attempt
<1>2. Attempting(t).entry = t.entry
  BY DEF Attempting, Transactions
<1>3. tx'.state = "idle" \/ tx'.entry = t.entry
  BY <1>1, <1>2, AnsweredKeeps
<1>4. t.entry.repeat \in Nat
  BY SendAssumption DEF Entries
<1> DEFINE done == IF tx'.state = "idle" THEN t.entry.repeat ELSE 0
<1>5. Held(tx') + done = t.entry.repeat
  BY <1>3, <1>4 DEF Held
<1>6. Held(tx') \in Nat /\ done \in Nat
  BY <1>3, <1>4 DEF Held
<1> HIDE DEF done
<1>7. probes' = Probes(queue') + gone' + Held(tx') /\ gone' \in Nat
  <2>1. gone' = gone + expired + done /\ probes' = probes /\ queue' = q
    BY <1>1 DEF done
  <2> QED BY <1>4, <1>5, <1>6, <2>1, Balance
<1> QED BY <1>1, <1>7 DEF Accounted, NothingLost, Held

LEMMA ExitAccounts == ASSUME Accounted, Inv', Exit PROVE Accounted'
<1>1. UNCHANGED <<queue, tx, probes, gone>>
  BY DEF Exit
<1> QED BY <1>1 DEF Accounted, NothingLost

LEMMA SendingAccounts == ASSUME Accounted, TurnSending PROVE Accounted'
<1> DEFINE q == Live(queue)
           t == IF now >= tx.deadline THEN AttemptFailed(tx, TRUE) ELSE tx
<1>1. Inv /\ Inv'
  BY SendingInv DEF Accounted
<1>2. tx.state = "sending" /\ Commit(t, q, Probes(queue) - Probes(q))
  BY DEF TurnSending
<1>3. Sound(tx) /\ tx \in Transactions /\ now \in Times
  BY <1>1 DEF Inv, Sound
<1>4. Sound(t) /\ (t.state = "idle" \/ t.entry = tx.entry)
  BY <1>2, <1>3, FailedSound, FailedKeeps
<1>5. Probes(q) \in Nat /\ Probes(queue) - Probes(q) \in Nat
  BY <1>1, LiveProbes
<1> HIDE DEF q, t
<1> QED BY <1>1, <1>2, <1>4, <1>5, CommitAccounts

LEMMA WaitingAccounts == ASSUME Accounted, TurnWaiting PROVE Accounted'
<1> DEFINE q == Live(queue)
           expired == Probes(queue) - Probes(q)
<1>1. Inv /\ Inv'
  BY WaitingInv DEF Accounted
<1>2. Sound(tx) /\ tx \in Transactions /\ now \in Times /\ tx.state = "waitRetry"
  BY <1>1 DEF Inv, Sound, TurnWaiting
<1>3. Probes(q) \in Nat /\ expired \in Nat /\ Probes(queue) \in Nat
  BY <1>1, LiveProbes
<1>4. CASE Commit(tx, q, expired)
  <2> HIDE DEF q
  <2> QED BY <1>1, <1>2, <1>3, <1>4, CommitAccounts
<1>5. CASE Commit(Finished(tx, "timeout"), q, expired)
  <2>1. Sound(Finished(tx, "timeout")) /\ Finished(tx, "timeout").state = "idle"
    BY <1>2, FinishedSound DEF Outcomes
  <2> HIDE DEF q
  <2> QED BY <1>1, <1>2, <1>3, <1>5, <2>1, CommitAccounts
<1>6. CASE MayAttempt(tx) /\ Attempt(tx, q, expired)
  <2>1. tx.entry \in Entries /\ tx.attempt < MaxAttempts
    BY <1>2 DEF Sound, Transactions
  <2>2. Attempting(tx) \in Transactions
    BY <1>2, <1>6, <2>1, AttemptingSound DEF Sound
  <2>3. Held(tx) = tx.entry.repeat /\ Held(tx) \in Nat
    BY <1>2, HeldType DEF Held
  <2>4. Probes(queue) + Held(tx) = Probes(q) + expired + tx.entry.repeat
    BY <1>3, <2>3
  <2> HIDE DEF q, expired
  <2> QED BY <1>1, <1>2, <1>3, <1>6, <2>1, <2>2, <2>4, AttemptAccounts
<1>7. CASE Exit
  BY <1>1, <1>7, ExitAccounts
<1> QED BY <1>4, <1>5, <1>6, <1>7 DEF TurnWaiting

LEMMA IdleAccounts == ASSUME Accounted, TurnIdle PROVE Accounted'
<1> DEFINE q == Live(queue)
           expired == Probes(queue) - Probes(q)
<1>1. Inv /\ Inv'
  BY IdleInv DEF Accounted
<1>2. Sound(tx) /\ tx \in Transactions /\ now \in Times /\ tx.state = "idle"
  BY <1>1 DEF Inv, Sound, TurnIdle
<1>3. /\ q \in SUBSET Entries /\ IsFiniteSet(q)
      /\ Probes(q) \in Nat /\ expired \in Nat /\ Probes(queue) \in Nat
  BY <1>1, LiveProbes
<1>4. CASE Commit(tx, q, expired)
  <2> HIDE DEF q
  <2> QED BY <1>1, <1>2, <1>3, <1>4, CommitAccounts
<1>5. CASE /\ MayAttempt(tx)
           /\ \E e \in Oldest(q) : Attempt(Begun(tx, e), Taken(q, e), expired)
  <2>1. PICK e \in Oldest(q) : Attempt(Begun(tx, e), Taken(q, e), expired)
    BY <1>5
  <2>2. e \in q /\ e \in Entries
    BY <1>3, <2>1 DEF Oldest
  <2> DEFINE b == Begun(tx, e)
             r == Taken(q, e)
  <2>3. "none" \in Outcomes /\ 0 \in 0 .. MaxAttempts
    BY SendAssumption DEF Outcomes
  <2>4. b \in Transactions
    BY <1>2, <2>2, <2>3 DEF Begun, Transactions
  <2>5. b.entry = e /\ b.attempt = 0 /\ b.next = tx.next
    BY <1>2 DEF Begun, Transactions
  <2>6. r = q \ {e} /\ r \in SUBSET Entries /\ IsFiniteSet(r)
    BY <1>3, FS_RemoveElement DEF Taken
  <2>7. Attempt(b, r, expired) /\ MayAttempt(tx)
    BY <1>5, <2>1
  <2> HIDE DEF b, r, q
  <2>8. Attempting(b) \in Transactions
    BY <1>2, <2>2, <2>4, <2>5, <2>7, AttemptingSound, SendAssumption DEF Sound, MayAttempt
  <2>9. Probes(q) = e.repeat + Probes(r) /\ Probes(r) \in Nat /\ e.repeat \in Nat
    BY <1>3, <2>2, <2>6, ProbesWithout, ProbesType, SendAssumption DEF Entries
  <2>10. Held(tx) = 0
    BY <1>2 DEF Held
  <2>11. Probes(queue) + Held(tx) = Probes(r) + expired + b.entry.repeat
    BY <1>3, <2>5, <2>9, <2>10
  <2> HIDE DEF expired
  <2>12. b.entry \in Entries
    BY <2>2, <2>5
  <2> QED BY <1>1, <1>3, <2>4, <2>7, <2>8, <2>9, <2>11, <2>12, AttemptAccounts
<1>6. CASE Exit
  BY <1>1, <1>6, ExitAccounts
<1> QED BY <1>4, <1>5, <1>6 DEF TurnIdle

\* A probe counts once, whether it shares an entry or has one of its own.
LEMMA EnqueueAccounts ==
  ASSUME Accounted, NEW k \in Keys, Enqueue(k), MaxProbes <= MaxRepeat
  PROVE  Accounted'
<1> DEFINE q == Live(queue)
           same == Same(q, k)
<1>1. Inv /\ Inv'
  BY EnqueueInv DEF Accounted
<1>2. /\ q \in SUBSET Entries /\ IsFiniteSet(q)
      /\ Probes(queue) \in Nat /\ Probes(q) \in Nat /\ Probes(queue) - Probes(q) \in Nat
  BY <1>1, LiveProbes
<1>3. /\ queue' = IF same # {}
                  THEN {IF e \in same THEN Repeated(e) ELSE e : e \in q}
                  ELSE q \cup {FirstProbe(k)}
      /\ gone' = gone + Probes(queue) - Probes(q)
      /\ probes' = probes + 1 /\ probes < MaxProbes /\ tx' = tx
  BY DEF Enqueue
<1>4. queue' \in SUBSET Entries
  BY <1>1 DEF Inv, QueueInv
<1>5. \A e, f \in q : f.key = e.key => f = e
  BY <1>1 DEF Live, Inv, QueueInv, OneReplyPerProbe
<1>6. \A e \in q : e \in same <=> e.key = k
  BY DEF Same
<1>7. \A e \in q : Repeated(e).key = e.key
  BY <1>2 DEF Repeated, Entries
<1>8. ASSUME same # {} PROVE Probes(queue') = Probes(q) + 1
  <2>1. queue' = {IF e \in same THEN Repeated(e) ELSE e : e \in q}
    BY <1>3, <1>8
  <2>2. PICK e \in q : e.key = k
    BY <1>8 DEF Same
  <2>3. \A d \in q : d \in same <=> d = e
    BY <1>5, <1>6, <2>2
  <2> DEFINE r == q \ {e}
             n == Repeated(e)
  <2>4. queue' = r \cup {n}
    <3> HIDE DEF q, same, n
    <3> QED BY <2>1, <2>3 DEF n
  <2>5. n \notin r
    BY <1>5, <1>7, <2>2
  <2>6. n \in Entries
    BY <1>4, <2>4
  <2>7. r \in SUBSET Entries /\ IsFiniteSet(r)
    BY <1>2, FS_RemoveElement
  <2>8. e \in Entries /\ e.repeat \in Nat
    BY <1>2, SendAssumption DEF Entries
  <2>9. e.repeat < MaxRepeat => n.repeat = e.repeat + 1
    BY <2>8 DEF Repeated, Entries
  <2> HIDE DEF r, n, q
  <2>10. Probes(r) \in Nat
    BY <2>7, ProbesType
  <2>11. Probes(q) = e.repeat + Probes(r)
    BY <1>2, ProbesWithout DEF r
  <2>12. e.repeat <= probes
    BY <1>2, <2>8, <2>10, <2>11, Balance
  <2>13. e.repeat < MaxRepeat
    BY <1>3, <2>8, <2>12, Balance, SendAssumption
  <2>14. Probes(queue') = Probes(r) + n.repeat
    BY <2>4, <2>5, <2>6, <2>7, ProbesWith
  <2> QED BY <2>8, <2>9, <2>10, <2>11, <2>13, <2>14
<1>9. ASSUME same = {} PROVE Probes(queue') = Probes(q) + 1
  <2> DEFINE n == FirstProbe(k)
  <2>1. queue' = q \cup {n}
    BY <1>3, <1>9
  <2>2. n \in Entries
    BY <1>4, <2>1
  <2>3. n.key = k /\ n.repeat = 1
    BY DEF FirstProbe
  <2>4. n \notin q
    BY <1>6, <1>9, <2>3
  <2> HIDE DEF q, n
  <2> QED BY <1>2, <2>1, <2>2, <2>3, <2>4, ProbesWith
<1> HIDE DEF q, same
<1>10. Probes(queue') = Probes(q) + 1
  BY <1>8, <1>9
<1>11. probes' = Probes(queue') + gone' + Held(tx') /\ gone' \in Nat
  BY <1>2, <1>3, <1>10, Balance
<1>12. probes' <= MaxProbes
  BY <1>3, Balance, SendAssumption
<1> QED BY <1>1, <1>11, <1>12 DEF Accounted, NothingLost, Held

LEMMA CompleteAccounts ==
  ASSUME Accounted, NEW id \in 1 .. MaxId, Complete(id)
  PROVE  Accounted'
<1> DEFINE answer == IF fate[id] = "sent" THEN "success" ELSE "failure"
           t == IF now >= tx.deadline THEN AttemptFailed(tx, TRUE)
                ELSE Answered(tx, answer)
<1>1. Inv /\ Inv'
  BY CompleteInv DEF Accounted
<1>2. tx.state = "sending" /\ Commit(t, queue, 0)
  BY DEF Complete, CompletionCurrent
<1>3. Sound(tx) /\ tx \in Transactions /\ now \in Times /\ answer \in Answers
  BY <1>1 DEF Inv, Sound, Answers
<1>4. Sound(t) /\ (t.state = "idle" \/ t.entry = tx.entry)
  BY <1>2, <1>3, FailedSound, FailedKeeps, AnsweredSound, AnsweredKeeps
<1>5. Probes(queue) \in Nat
  BY Balance
<1> HIDE DEF t
<1>6. Commit(t, queue, Probes(queue) - Probes(queue)) /\ Probes(queue) - Probes(queue) = 0
  BY <1>2, <1>5
<1> QED BY <1>1, <1>2, <1>4, <1>5, <1>6, CommitAccounts

LEMMA NextAccounts ==
  ASSUME Accounted, [Next]_vars, MaxProbes <= MaxRepeat
  PROVE  Accounted'
<1>1. ASSUME NEW k \in Keys, Enqueue(k) PROVE Accounted'
  BY <1>1, EnqueueAccounts
<1>2. ASSUME NEW id \in 1 .. MaxId, Complete(id) PROVE Accounted'
  BY <1>2, CompleteAccounts
<1>3. CASE Turn
  BY <1>3, SendingAccounts, WaitingAccounts, IdleAccounts DEF Turn
<1>4. CASE Tick \/ UNCHANGED vars
  <2>1. Inv'
    BY NextInv DEF Accounted
  <2>2. UNCHANGED <<queue, tx, probes, gone>>
    BY <1>4 DEF Tick, vars
  <2> QED BY <2>1, <2>2 DEF Accounted, NothingLost
<1> QED BY <1>1, <1>2, <1>3, <1>4 DEF Next

LEMMA InitAccounts == Init => Accounted
<1> SUFFICES ASSUME Init PROVE Accounted
  OBVIOUS
<1>1. queue = {} /\ gone = 0 /\ probes = 0 /\ tx.state = "idle"
  BY DEF Init
<1>2. NothingLost
  BY <1>1, ProbesOfNone DEF NothingLost
<1> QED BY <1>1, <1>2, InitInv, SendAssumption DEF Accounted

-----------------------------------------------------------------------------
(* What every behaviour of the daemon keeps *)

\* The invariant holds from the start of the daemon on, whatever probes arrive
\* and whatever becomes of the datagrams.
THEOREM SendInvariant == Spec => []Inv
<1>1. Inv /\ [Next]_vars => Inv'
  BY NextInv
<1> QED BY InitInv, <1>1, PTL DEF Spec

\* The queue never outgrows its array, no timer runs past the end of the clock,
\* and no reply is attempted more often than DF_GVS_SEND_MAX_ATTEMPTS.
THEOREM SendTypes == Spec => []SendTypeOK
BY SendInvariant, InvImplies, PTL

\* A probe repeated while its reply waits never leads to a second reply, and the
\* reply it shares lives as long as one queued for the repetition would
\* (gvs_reply_queue.c:58).
THEOREM RepliesDistinct == Spec => []OneReplyPerProbe
BY SendInvariant, InvImplies, PTL

\* A late or repeated completion never makes the daemon report a reply as sent
\* that was lost, or as failed that was sent (gvs_send_transaction.c:187).
THEOREM OutcomesTrue == Spec => []OutcomeTrue
BY SendInvariant, InvImplies, PTL

\* No probe is lost and none counted twice: each one's reply waits, is being sent
\* or has left, whatever expires, shares an entry, is taken, retried or answered
\* late (gvs_send_transaction.c:169, gvs_reply_queue.c:12); and no two replies
\* that wait are for the same probe.  An entry stops counting at UINT_MAX
\* repetitions, so as long as there were no more probes.
THEOREM EveryProbeAccounted ==
  ASSUME MaxProbes <= MaxRepeat
  PROVE  Spec => []ProbesAccounted
<1>1. Accounted /\ [Next]_vars => Accounted'
  BY NextAccounts
<1>2. Accounted => ProbesAccounted
  BY InvImplies DEF Accounted, ProbesAccounted
<1> QED BY InitAccounts, <1>1, <1>2, PTL DEF Spec
=============================================================================
