--------------------------- MODULE CallLifecycle ---------------------------
(***************************************************************************)
(* What call control promises to the clients that read its status: calls    *)
(* come one after the other, each with a generation of its own; a call that  *)
(* starts rings before it talks; every call ends at most once, and the      *)
(* status then tells, for exactly that generation, why.                     *)
(***************************************************************************)
EXTENDS Naturals

CONSTANTS MaxGeneration, Reasons

VARIABLES
  state,       \* "idle", "ringing", "talking" or "ended"
  generation,  \* the number of the current call
  last         \* the generation that ended last, and why

vars == <<state, generation, last>>

InCall == state \in {"ringing", "talking"}

Init ==
  /\ state = "idle"
  /\ generation = 0
  /\ last = [generation |-> 0, reason |-> "none"]

Begin ==
  /\ ~InCall
  /\ generation < MaxGeneration
  /\ state' = "ringing"
  /\ generation' = generation + 1
  /\ UNCHANGED last

\* A more important caller takes over: the old call has ended, a new one rings.
TakeOver ==
  /\ state = "ringing"
  /\ generation < MaxGeneration
  /\ generation' = generation + 1
  /\ last' = [generation |-> generation, reason |-> "preempted"]
  /\ UNCHANGED state

Establish ==
  /\ state = "ringing"
  /\ state' = "talking"
  /\ UNCHANGED <<generation, last>>

Finish(reason) ==
  /\ InCall
  /\ state' = "ended"
  /\ last' = [generation |-> generation, reason |-> reason]
  /\ UNCHANGED generation

Next ==
  \/ Begin
  \/ TakeOver
  \/ Establish
  \/ \E reason \in Reasons \ {"none", "preempted"} : Finish(reason)

Spec == Init /\ [][Next]_vars
=============================================================================
