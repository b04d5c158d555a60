------------------------------- MODULE SopSlots -------------------------------
(***************************************************************************)
(* What a SOP's max_concurrent ("Maximum runs of this SOP executing at     *)
(* once", docs/book/src/sop/syntax.md) and the engine's                    *)
(* max_concurrent_total promise: a run gets an execution slot by itself,   *)
(* when both caps have room at that moment.  Nothing else puts a run in a  *)
(* slot; any number of runs may leave theirs at once.                      *)
(***************************************************************************)
EXTENDS Naturals, FiniteSets

CONSTANTS Runs, SopOf, MaxConcurrent, MaxTotal

VARIABLE inUse

Init == inUse = {}

Enter(r) ==
    /\ r \notin inUse
    /\ Cardinality({q \in inUse : SopOf[q] = SopOf[r]}) < MaxConcurrent[SopOf[r]]
    /\ Cardinality(inUse) < MaxTotal
    /\ inUse' = inUse \cup {r}

Leave(gone) == inUse' = inUse \ gone

Next == \/ \E r \in Runs : Enter(r)
        \/ \E gone \in SUBSET inUse : Leave(gone)

Spec == Init /\ [][Next]_inUse
=============================================================================
