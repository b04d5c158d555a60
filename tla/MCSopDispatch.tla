---------------------------- MODULE MCSopDispatch ----------------------------
(* Values for the constants of SopDispatch.                                *)
EXTENDS SopDispatch

CONSTANTS m1, m2, plain, gated

OwnKeys == [m \in Messages |-> m]
(* m1 matches both SOPs, m2 only the one that parks. *)
BothOrOne == [m \in Messages |-> IF m = m1 THEN Sops ELSE {gated}]
OnlyB == {gated}
ParallelAndCoalesce == [s \in Sops |-> IF s = plain THEN "Parallel" ELSE "Coalesce"]
OneEach == [s \in Sops |-> 1]
=============================================================================
