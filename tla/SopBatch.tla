------------------------------- MODULE SopBatch -------------------------------
(***************************************************************************)
(* What dispatch promises of one message that matches several SOPs         *)
(* (sop/dispatch.rs): it is handled "ALL-OR-NOTHING for the SOPs that can  *)
(* actually run", and "the batch is activated ATOMICALLY".  The runs of a  *)
(* delivery come into being in one step, one for each SOP that was         *)
(* admitted, or none does; a delivery gets one such step.  A process that  *)
(* dies keeps no run, and a new one brings back what the store has, of     *)
(* which nothing is said here.                                             *)
(***************************************************************************)
EXTENDS Naturals

CONSTANTS Messages, Sops, Match, Copies

VARIABLES
    up,      \* the daemon runs
    queue,   \* the broker's state of each message
    stage,   \* where the delivery in hand stands
    chosen,  \* the SOPs admitted for it, not yet started
    live     \* the runs in memory

vars == <<up, queue, stage, chosen, live>>

Runs == Messages \X Sops \X (1..Copies)

Init ==
    /\ up = TRUE
    /\ queue = [m \in Messages |-> "ready"]
    /\ stage = "none" /\ chosen = {} /\ live = {}

Take(m) ==
    /\ up /\ stage = "none" /\ queue[m] = "ready"
    /\ queue' = [queue EXCEPT ![m] = "out"] /\ stage' = "new"
    /\ UNCHANGED <<up, chosen, live>>

InHand(m, at) == up /\ queue[m] = "out" /\ stage = at

Refuse(m) ==
    /\ InHand(m, "new")
    /\ stage' = "done"
    /\ UNCHANGED <<up, queue, chosen, live>>

Choose(m) ==
    /\ InHand(m, "new")
    /\ stage' = "batch" /\ chosen' \subseteq Match[m] /\ chosen' # {}
    /\ UNCHANGED <<up, queue, live>>

Start(m) ==
    /\ InHand(m, "batch")
    /\ \E id \in [chosen -> 1..Copies] :
         LET new == {<<m, s, id[s]>> : s \in chosen} IN
         new \cap live = {} /\ live' = live \cup new
    /\ stage' = "done" /\ chosen' = {}
    /\ UNCHANGED <<up, queue>>

GiveUp(m) ==
    /\ InHand(m, "batch")
    /\ stage' = "done" /\ chosen' = {}
    /\ UNCHANGED <<up, queue, live>>

Answer(m) ==
    /\ InHand(m, "done")
    /\ \E to \in {"ready", "acked"} : queue' = [queue EXCEPT ![m] = to]
    /\ stage' = "none"
    /\ UNCHANGED <<up, chosen, live>>

End(r) ==
    /\ up /\ stage \in {"none", "done"} /\ live' = live \ {r}
    /\ UNCHANGED <<up, queue, stage, chosen>>

Die ==
    /\ up /\ up' = FALSE
    /\ queue' = [m \in Messages |-> IF queue[m] = "out" THEN "ready" ELSE queue[m]]
    /\ stage' = "none" /\ chosen' = {} /\ live' = {}

Revive == ~up /\ up' = TRUE /\ live' \in SUBSET Runs /\ UNCHANGED <<queue, stage, chosen>>

Next ==
    \/ \E m \in Messages :
         Take(m) \/ Refuse(m) \/ Choose(m) \/ Start(m) \/ GiveUp(m) \/ Answer(m)
    \/ \E r \in live : End(r)
    \/ Die \/ Revive

Spec == Init /\ [][Next]_vars
=============================================================================
