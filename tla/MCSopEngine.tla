----------------------------- MODULE MCSopEngine -----------------------------
(* Values for the constants of SopEngine.                                  *)
EXTENDS SopEngine, TLC

CONSTANTS r1, r2, r3, a, b

OneRun    == {r1}
TwoRuns   == {r1, r2}
ThreeRuns == {r1, r2, r3}
OneSop    == {a}
TwoSops   == {a, b}
AllA      == [r \in Runs |-> a]
SecondIsB == [r \in Runs |-> IF r = r2 THEN b ELSE a]

OneStep  == {1}
TwoSteps == {1, 2}

GateAtTwo == [s \in Sops |-> {2}]
GateAtOne == [s \in Sops |-> {1}]

AllParallel == [s \in Sops |-> "Parallel"]
AllHold     == [s \in Sops |-> "Hold"]
OneEach     == [s \in Sops |-> 1]
TwoEach     == [s \in Sops |-> 2]
Unbounded   == [s \in Sops |-> 0]

NoSop == {}
OnlyB == {b}

(* Runs of one SOP are interchangeable. *)
SameSopRuns == {p \in Permutations(Runs) : \A r \in Runs : SopOf[p[r]] = SopOf[r]}
=============================================================================
