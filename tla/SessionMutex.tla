---------------------------- MODULE SessionMutex ----------------------------
(***************************************************************************)
(* What SessionActorQueue promises its callers (session_queue.rs: "Acquire *)
(* exclusive access to a session"): a session is held by one request at a  *)
(* time, and only its holder gives it back.                                *)
(***************************************************************************)
CONSTANTS Tasks, Nobody

VARIABLE holder

Init == holder = Nobody

Take(t) == holder = Nobody /\ holder' = t
Give(t) == holder = t /\ holder' = Nobody

Next == \E t \in Tasks : Take(t) \/ Give(t)

Spec == Init /\ [][Next]_holder
=============================================================================
