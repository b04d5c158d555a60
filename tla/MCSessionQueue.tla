--------------------------- MODULE MCSessionQueue ---------------------------
(* Values for the constants of SessionQueue.                               *)
EXTENDS SessionQueue, TLC

CONSTANTS t1, t2, t3, t4, s1, s2, s3, s4

TwoTasks   == {t1, t2}
ThreeTasks == {t1, t2, t3}
FourTasks  == {t1, t2, t3, t4}
TwoSlots   == {s1, s2}
ThreeSlots == {s1, s2, s3}
FourSlots  == {s1, s2, s3, s4}

(* Requests are interchangeable, and so are slot objects. *)
AnyTaskAnySlot == {p @@ q : p \in Permutations(Tasks), q \in Permutations(Slots)}
=============================================================================
