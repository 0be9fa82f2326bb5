------------------------------- MODULE Access -------------------------------
(***************************************************************************)
(* The request that opens a door, gvs_access.c: one 04/09 to the station of  *)
(* a session and the 04/89 that answers it within a second.  The answer      *)
(* carries nothing but its addresses, so one request is out at a time and no *)
(* session ever asks twice.                                                *)
(*                                                                         *)
(* `late` stands for now >= deadline_ms.  The addresses of the station and   *)
(* of this device are those of the session, `to` is the station's.          *)
(***************************************************************************)
EXTENDS Integers

CONSTANTS
  Stations,      \* the enabled stations of the registry, with supported addresses
  NoStation,     \* no station
  MaxRequests    \* stands for UINT64_MAX, where the generations stop

ASSUME AccessAssumption ==
  /\ NoStation \notin Stations
  /\ MaxRequests \in Nat \ {0}

AccessGenerations == 0 .. MaxRequests

Answers == {"completed", "rejected"}
AccessStates == {"empty", "waiting", "expired", "cancelled", "send_failed"} \cup Answers

\* `attempted` is attempted_generation of the control.
AccessControls ==
  [state : AccessStates, gen : AccessGenerations, to : Stations \cup {NoStation},
   attempted : AccessGenerations]

\* The session a request is made in: the unlock keeps one of its own.
AccessSessions == [gen : AccessGenerations, peer : Stations \cup {NoStation}]

NoAccess == [state |-> "empty", gen |-> 0, to |-> NoStation, attempted |-> 0]
NoAccessSession == [gen |-> 0, peer |-> NoStation]

Waiting(a) == a.state = "waiting"

\* df_gvs_access_result_current: the session is still the one of the request.
Current(a, s) == a.gen = s.gen /\ a.to = s.peer /\ s.gen # 0

\* df_gvs_access_result_tick.
AccessTicked(a, s, late) ==
  IF ~Waiting(a) THEN a
  ELSE IF ~Current(a, s) THEN [a EXCEPT !.state = "cancelled"]
  ELSE IF late THEN [a EXCEPT !.state = "expired"]
  ELSE a

\* The session has not asked yet and no other request is out.
Submittable(a, s) == s.gen # 0 /\ s.gen # a.attempted /\ ~Waiting(a)

\* df_gvs_access_control_submit_material: the attempt counts before it is sent.
Submitted(a, s, sends) ==
  [state |-> IF sends THEN "waiting" ELSE "send_failed",
   gen |-> s.gen, to |-> s.peer, attempted |-> s.gen]

\* df_gvs_access_result_observe takes the 04/89 of a station, or leaves it.
Answerable(a, s, from, late) == Waiting(a) /\ ~late /\ Current(a, s) /\ from = a.to

Answered(a, answer) == [a EXCEPT !.state = answer]
=============================================================================
