------------------------- MODULE SessionQueueProof -------------------------
(***************************************************************************)
(* Proofs about SessionQueue, for any number of requests and slots.        *)
(*                                                                         *)
(* The inductive invariant says where a request's slot is, that whoever    *)
(* was granted a permit still has it, and how many requests a counter      *)
(* covers: the depth check compares a counter, so the bound on the admitted*)
(* requests needs that the counter is never below them.                    *)
(***************************************************************************)
EXTENDS SessionQueue, FiniteSetTheorems, TLAPS

Granted == {"granted", "holding", "releasing"}

(* A request past its lookup has a slot.                                   *)
HasSlot == \A t \in Tasks : pc[t] # "idle" => at[t] \in Slots

(* A permit stays with the request it was granted to.                      *)
PermitKept == \A t \in Tasks : pc[t] \in Granted => permit[at[t]] = t

IInv == TypeOK /\ HasSlot /\ PermitKept /\ CountCoversRequests /\ DepthWithinBound

(* Without a sweep all requests work with the slot of the map.             *)
OneSlot == sweep = "no" /\ \A t \in Tasks : pc[t] # "idle" => at[t] = entry

----------------------------------------------------------------------------
(* The requests that count at a slot, after one request moved.             *)
LEMMA WithMoved ==
    ASSUME TypeOK, NEW t \in Tasks, NEW STATE to, NEW STATE x, NEW s,
           pc' = [pc EXCEPT ![t] = to], at' = [at EXCEPT ![t] = x]
    PROVE  /\ With(s, Counted)' = IF x = s /\ to \in Counted
                                  THEN With(s, Counted) \cup {t} ELSE With(s, Counted) \ {t}
           /\ With(s, Admitted)' = IF x = s /\ to \in Admitted
                                   THEN With(s, Admitted) \cup {t} ELSE With(s, Admitted) \ {t}
BY DEF With, TypeOK

LEMMA WithFinite ==
    ASSUME NEW s, NEW P
    PROVE  /\ IsFiniteSet(With(s, P))
           /\ Cardinality(With(s, P)) \in Nat
<1>1. With(s, P) \in SUBSET Tasks
  BY DEF With
<1>2. IsFiniteSet(With(s, P))
  BY <1>1, QueueConstants, FS_Subset DEF QueueConstants
<1>. QED
  BY <1>2, FS_CardinalityType

(* A request that is counted is one more at its slot, and no other.        *)
LEMMA WithCardinality ==
    ASSUME NEW s, NEW P, NEW t
    PROVE  /\ Cardinality(With(s, P) \cup {t}) =
                 IF t \in With(s, P) THEN Cardinality(With(s, P)) ELSE Cardinality(With(s, P)) + 1
           /\ Cardinality(With(s, P) \ {t}) =
                 IF t \in With(s, P) THEN Cardinality(With(s, P)) - 1 ELSE Cardinality(With(s, P))
BY WithFinite, FS_AddElement, FS_RemoveElement

LEMMA SubsetCardinality ==
    ASSUME NEW S, IsFiniteSet(S), NEW T \in SUBSET S
    PROVE  /\ Cardinality(S) \in Nat /\ Cardinality(T) \in Nat
           /\ Cardinality(T) <= Cardinality(S)
BY FS_Subset, FS_CardinalityType

LEMMA AdmittedAreCounted ==
    ASSUME NEW s
    PROVE  Cardinality(With(s, Admitted)) <= Cardinality(With(s, Counted))
<1>1. With(s, Admitted) \in SUBSET With(s, Counted)
  BY DEF With, Admitted, Counted
<1>. QED
  BY <1>1, WithFinite, FS_Subset

(* A request that only moves between places, without being counted anew:   *)
(* the counters may stay.                                                  *)
LEMMA MovesKeepBounds ==
    ASSUME IInv, NEW t \in Tasks, NEW STATE to, NEW STATE x,
           pc' = [pc EXCEPT ![t] = to], at' = [at EXCEPT ![t] = x],
           x = at[t] \/ to \notin Counted,
           to \in Counted => pc[t] \in Counted,
           to \in Admitted => pc[t] \in Admitted,
           pending' = pending
    PROVE  CountCoversRequests' /\ DepthWithinBound'
<1>1. TypeOK /\ CountCoversRequests /\ DepthWithinBound
  BY DEF IInv
<1>2. \A s \in Slots : With(s, Counted)' \in {With(s, Counted), With(s, Counted) \ {t}}
  <2>. TAKE s \in Slots
  <2>1. With(s, Counted)' = IF x = s /\ to \in Counted THEN With(s, Counted) \cup {t}
                                                       ELSE With(s, Counted) \ {t}
    BY <1>1, WithMoved
  <2>2. x = s /\ to \in Counted => t \in With(s, Counted)
    BY DEF With
  <2>. QED
    BY <2>1, <2>2
<1>3. \A s \in Slots : With(s, Admitted)' \in {With(s, Admitted), With(s, Admitted) \ {t}}
  <2>. TAKE s \in Slots
  <2>1. With(s, Admitted)' = IF x = s /\ to \in Admitted THEN With(s, Admitted) \cup {t}
                                                         ELSE With(s, Admitted) \ {t}
    BY <1>1, WithMoved
  <2>2. x = s /\ to \in Admitted => t \in With(s, Admitted)
    BY DEF With, Admitted, Counted
  <2>. QED
    BY <2>1, <2>2
<1>4. \A s \in Slots : /\ Cardinality(With(s, Counted)') \in Nat
                         /\ Cardinality(With(s, Counted)') <= Cardinality(With(s, Counted))
                         /\ Cardinality(With(s, Counted)) \in Nat
  BY <1>2, WithFinite, SubsetCardinality
<1>5. \A s \in Slots : pending[s] \in Nat
  BY <1>1 DEF TypeOK
<1>6. \A s \in Slots : /\ Cardinality(With(s, Admitted)') \in Nat
                         /\ Cardinality(With(s, Admitted)') <= Cardinality(With(s, Admitted))
                         /\ Cardinality(With(s, Admitted)) \in Nat
  BY <1>3, WithFinite, SubsetCardinality
<1>7. MaxDepth \in Nat
  BY QueueConstants DEF QueueConstants
<1>8. CountCoversRequests'
  BY <1>1, <1>4, <1>5 DEF CountCoversRequests
<1>9. DepthWithinBound'
  BY <1>1, <1>6, <1>7 DEF DepthWithinBound
<1>. QED
  BY <1>8, <1>9

----------------------------------------------------------------------------
(* Types, slots and permits, one step per action.                          *)
LEMMA StepKeepsPlaces ==
    ASSUME IInv, [Next]_vars
    PROVE  /\ HasSlot' /\ PermitKept'
           /\ entry' \in Slots \cup {NoSlot}
           /\ pc' \in [Tasks -> Counted \cup {"idle", "counting", "releasing"}]
           /\ at' \in [Tasks -> Slots \cup {NoSlot}]
           /\ permit' \in [Slots -> Tasks \cup {Nobody}]
           /\ stale' \subseteq Slots
           /\ sweep' \in {"no", "old", "idle"}
<1>. USE DEF IInv, TypeOK, HasSlot, PermitKept, Granted, Counted, Goto
<1>1. CASE \E t \in Tasks : FindSlot(t)
  BY <1>1 DEF FindSlot, Unused
<1>2. CASE \E t \in Tasks : Count(t)
  BY <1>2 DEF Count
<1>3. CASE \E t \in Tasks : Join(t)
  BY <1>3, QueueConstants DEF Join, QueueConstants
<1>4. CASE \E t \in Tasks : Wake(t)
  BY <1>4 DEF Wake
<1>5. CASE \E t \in Tasks : Stamp(t)
  BY <1>5 DEF Stamp
<1>6. CASE \E t \in Tasks : TimeOut(t)
  BY <1>6 DEF TimeOut, StopWaiting, PassOn, Waiters
<1>7. CASE \E t \in Tasks : Refuse(t)
  BY <1>7 DEF Refuse
<1>8. CASE \E t \in Tasks : DropWait(t)
  BY <1>8 DEF DropWait, StopWaiting, PassOn, Waiters
<1>9. CASE \E t \in Tasks : DropGranted(t)
  BY <1>9 DEF DropGranted, PassOn, Waiters
<1>10. CASE \E t \in Tasks : Uncount(t)
  BY <1>10 DEF Uncount
<1>11. CASE \E t \in Tasks : Release(t)
  BY <1>11 DEF Release, PassOn, Waiters
<1>12. CASE Age \/ SweepReads \/ SweepCounts \/ SweepRemoves
  BY <1>12 DEF Age, SweepReads, SweepCounts, SweepRemoves
<1>13. CASE UNCHANGED vars
  BY <1>13 DEF vars
<1>. QED
  BY <1>1, <1>2, <1>3, <1>4, <1>5, <1>6, <1>7, <1>8, <1>9, <1>10, <1>11, <1>12, <1>13 DEF Next

----------------------------------------------------------------------------
(* The counters, for the actions that change one.                          *)
LEMMA CountKeepsBounds ==
    ASSUME IInv, NEW t \in Tasks, Count(t)
    PROVE  CountCoversRequests' /\ DepthWithinBound' /\ pending' \in [Slots -> Nat]
<1>. DEFINE s == at[t]
            to == IF pending[s] >= MaxDepth THEN "refused" ELSE "joining"
<1>1. TypeOK /\ CountCoversRequests /\ DepthWithinBound /\ s \in Slots
  BY DEF IInv, HasSlot, Count, Goto
<1>2. /\ pc[t] = "counting" /\ pc' = [pc EXCEPT ![t] = to]
      /\ at' = [at EXCEPT ![t] = s]
      /\ pending' = [pending EXCEPT ![s] = @ + 1]
  BY <1>1 DEF Count, Goto, TypeOK
<1>3. pending \in [Slots -> Nat] /\ MaxDepth \in Nat
  BY <1>1, QueueConstants DEF TypeOK, QueueConstants
<1>4. to \in Counted /\ (to \in Admitted <=> pending[s] < MaxDepth)
  BY <1>1, <1>3 DEF Counted, Admitted
<1>. HIDE DEF s, to
<1>5. ASSUME NEW z \in Slots
      PROVE  /\ Cardinality(With(z, Counted)') <= pending'[z]
             /\ Cardinality(With(z, Admitted)') <= MaxDepth
  <2>1. /\ With(z, Counted)' = IF z = s THEN With(z, Counted) \cup {t} ELSE With(z, Counted) \ {t}
        /\ With(z, Admitted)' = IF z = s /\ to \in Admitted
                                THEN With(z, Admitted) \cup {t} ELSE With(z, Admitted) \ {t}
    BY <1>1, <1>2, <1>4 DEF With, TypeOK
  <2>2. t \notin With(z, Counted) /\ t \notin With(z, Admitted)
    BY <1>2 DEF With, Counted, Admitted
  <2>3. /\ Cardinality(With(z, Counted)') = Cardinality(With(z, Counted)) + (IF z = s THEN 1 ELSE 0)
        /\ Cardinality(With(z, Admitted)') = Cardinality(With(z, Admitted))
                                               + (IF z = s /\ to \in Admitted THEN 1 ELSE 0)
    <3>1. Cardinality(With(z, Counted)) \in Nat /\ Cardinality(With(z, Admitted)) \in Nat
      BY WithFinite
    <3>2. /\ Cardinality(With(z, Counted) \cup {t}) = Cardinality(With(z, Counted)) + 1
          /\ Cardinality(With(z, Admitted) \cup {t}) = Cardinality(With(z, Admitted)) + 1
      BY <2>2, WithCardinality
    <3>3. With(z, Counted) \ {t} = With(z, Counted) /\ With(z, Admitted) \ {t} = With(z, Admitted)
      BY <2>2
    <3>. QED
      BY <2>1, <3>1, <3>2, <3>3
  <2>4. /\ Cardinality(With(z, Counted)) <= pending[z]
        /\ Cardinality(With(z, Admitted)) <= MaxDepth
        /\ Cardinality(With(z, Admitted)) <= Cardinality(With(z, Counted))
        /\ Cardinality(With(z, Counted)) \in Nat /\ Cardinality(With(z, Admitted)) \in Nat
    BY <1>1, WithFinite, AdmittedAreCounted DEF CountCoversRequests, DepthWithinBound
  <2>5. pending'[z] = pending[z] + (IF z = s THEN 1 ELSE 0)
    BY <1>2, <1>3
  <2>. QED
    BY <1>3, <1>4, <2>3, <2>4, <2>5
<1>6. CountCoversRequests' /\ DepthWithinBound'
  BY <1>5 DEF CountCoversRequests, DepthWithinBound
<1>7. pending' \in [Slots -> Nat]
  BY <1>1, <1>2, <1>3
<1>. QED
  BY <1>6, <1>7

(* A counted request that takes itself back, with its slot or keeping it.  *)
LEMMA TakeBackKeepsBounds ==
    ASSUME IInv, NEW t \in Tasks, NEW STATE to, NEW STATE x, pc[t] \in Counted, to \notin Counted,
           pc' = [pc EXCEPT ![t] = to], at' = [at EXCEPT ![t] = x],
           pending' = [pending EXCEPT ![at[t]] = @ - 1]
    PROVE  CountCoversRequests' /\ DepthWithinBound' /\ pending' \in [Slots -> Nat]
<1>1. TypeOK /\ CountCoversRequests /\ DepthWithinBound /\ at[t] \in Slots
  BY DEF IInv, HasSlot, Counted
<1>2. pending \in [Slots -> Nat] /\ MaxDepth \in Nat
  BY <1>1, QueueConstants DEF TypeOK, QueueConstants
<1>3. to \notin Admitted
  BY DEF Counted, Admitted
<1>4. ASSUME NEW z \in Slots
      PROVE  /\ pending'[z] \in Nat
             /\ Cardinality(With(z, Counted)') <= pending'[z]
             /\ Cardinality(With(z, Admitted)') <= MaxDepth
  <2>1. /\ With(z, Counted)' = With(z, Counted) \ {t}
        /\ With(z, Admitted)' = With(z, Admitted) \ {t}
    BY <1>1, <1>3, WithMoved
  <2>2. z = at[t] <=> t \in With(z, Counted)
    BY DEF With
  <2>3. Cardinality(With(z, Counted)') = Cardinality(With(z, Counted)) - (IF z = at[t] THEN 1 ELSE 0)
    <3>1. Cardinality(With(z, Counted)) \in Nat
      BY WithFinite
    <3>2. Cardinality(With(z, Counted) \ {t}) =
             IF t \in With(z, Counted) THEN Cardinality(With(z, Counted)) - 1
                                       ELSE Cardinality(With(z, Counted))
      BY WithCardinality
    <3>. QED
      BY <2>1, <2>2, <3>1, <3>2
  <2>4. /\ Cardinality(With(z, Counted)) <= pending[z]
        /\ Cardinality(With(z, Counted)) \in Nat
    BY <1>1, WithFinite DEF CountCoversRequests
  <2>5. Cardinality(With(z, Counted)') \in Nat
    <3>1. With(z, Counted) \ {t} \in SUBSET With(z, Counted)
      OBVIOUS
    <3>. QED
      BY <2>1, <3>1, WithFinite, SubsetCardinality
  <2>6. Cardinality(With(z, Admitted)') <= MaxDepth
    <3>1. With(z, Admitted) \ {t} \in SUBSET With(z, Admitted)
      OBVIOUS
    <3>2. /\ Cardinality(With(z, Admitted)') <= Cardinality(With(z, Admitted))
          /\ Cardinality(With(z, Admitted)') \in Nat /\ Cardinality(With(z, Admitted)) \in Nat
      BY <2>1, <3>1, WithFinite, SubsetCardinality
    <3>3. Cardinality(With(z, Admitted)) <= MaxDepth
      BY <1>1 DEF DepthWithinBound
    <3>. QED
      BY <1>2, <3>2, <3>3
  <2>7. pending'[z] = pending[z] - (IF z = at[t] THEN 1 ELSE 0) /\ pending[z] \in Nat
    BY <1>2
  <2>. QED
    BY <2>3, <2>4, <2>5, <2>6, <2>7
<1>5. CountCoversRequests' /\ DepthWithinBound'
  BY <1>4 DEF CountCoversRequests, DepthWithinBound
<1>6. pending' \in [Slots -> Nat]
  BY <1>2, <1>4
<1>. QED
  BY <1>5, <1>6

(* A request that finds no slot starts a new one, with nobody at it.       *)
LEMMA FindSlotKeepsBounds ==
    ASSUME IInv, NEW t \in Tasks, FindSlot(t)
    PROVE  CountCoversRequests' /\ DepthWithinBound' /\ pending' \in [Slots -> Nat]
<1>1. TypeOK
  BY DEF IInv
<1>2. PICK x \in Slots \cup {NoSlot} :
         /\ pc' = [pc EXCEPT ![t] = "counting"]
         /\ at' = [at EXCEPT ![t] = x]
         /\ pending' = pending \/ (x \in Unused /\ pending' = [pending EXCEPT ![x] = 0])
  BY <1>1 DEF FindSlot, Goto, TypeOK, Unused
<1>3. "counting" \notin Counted /\ "counting" \notin Admitted
  BY DEF Counted, Admitted
<1>4. CASE pending' = pending
  BY <1>1, <1>2, <1>3, <1>4, MovesKeepBounds DEF TypeOK
<1>5. CASE x \in Unused /\ pending' = [pending EXCEPT ![x] = 0]
  <2>1. \A z \in Slots : /\ With(z, Counted)' \in SUBSET With(z, Counted)
                          /\ With(z, Admitted)' \in SUBSET With(z, Admitted)
    BY <1>1, <1>2, <1>3 DEF With, TypeOK
  <2>2. \A z \in Slots :
           /\ Cardinality(With(z, Counted)') <= Cardinality(With(z, Counted))
           /\ Cardinality(With(z, Admitted)') <= Cardinality(With(z, Admitted))
           /\ Cardinality(With(z, Counted)') \in Nat /\ Cardinality(With(z, Admitted)') \in Nat
           /\ Cardinality(With(z, Counted)) \in Nat /\ Cardinality(With(z, Admitted)) \in Nat
    BY <2>1, WithFinite, SubsetCardinality
  <2>3. With(x, Counted) = {} /\ Cardinality(With(x, Counted)) = 0
    <3>1. With(x, Counted) = {}
      BY <1>5 DEF With, Unused
    <3>. QED
      BY <3>1, FS_EmptySet
  <2>4. x \in Slots /\ pending \in [Slots -> Nat] /\ MaxDepth \in Nat
    BY <1>1, <1>5, QueueConstants DEF TypeOK, Unused, QueueConstants
  <2>5. \A z \in Slots : /\ Cardinality(With(z, Counted)) <= pending'[z]
                          /\ pending'[z] \in Nat
    BY <1>5, <2>3, <2>4 DEF IInv, CountCoversRequests
  <2>6. CountCoversRequests'
    BY <2>2, <2>5 DEF CountCoversRequests
  <2>7. DepthWithinBound'
    BY <2>2, <2>4 DEF IInv, DepthWithinBound
  <2>8. pending' \in [Slots -> Nat]
    BY <1>5, <2>4
  <2>. QED
    BY <2>6, <2>7, <2>8
<1>. QED
  BY <1>2, <1>4, <1>5

LEMMA StepKeepsBounds ==
    ASSUME IInv, [Next]_vars
    PROVE  CountCoversRequests' /\ DepthWithinBound' /\ pending' \in [Slots -> Nat]
<1>1. TypeOK /\ HasSlot
  BY DEF IInv
<1>2. CASE \E t \in Tasks : FindSlot(t)
  BY <1>2, FindSlotKeepsBounds
<1>3. CASE \E t \in Tasks : Count(t)
  BY <1>3, CountKeepsBounds
<1>4. ASSUME NEW t \in Tasks, Join(t)
      PROVE  CountCoversRequests' /\ DepthWithinBound' /\ pending' \in [Slots -> Nat]
  <2>1. PICK to \in {"granted", "waiting"} :
           /\ pc' = [pc EXCEPT ![t] = to] /\ at' = [at EXCEPT ![t] = at[t]]
           /\ pending' = pending /\ pc[t] = "joining"
    BY <1>1, <1>4 DEF Join, Goto, TypeOK
  <2>2. /\ to \in Counted => pc[t] \in Counted
        /\ to \in Admitted => pc[t] \in Admitted
    BY <2>1 DEF Counted, Admitted
  <2>. QED
    BY <1>1, <2>1, <2>2, MovesKeepBounds DEF TypeOK
<1>5. ASSUME NEW t \in Tasks, Wake(t)
      PROVE  CountCoversRequests' /\ DepthWithinBound' /\ pending' \in [Slots -> Nat]
  <2>1. /\ pc' = [pc EXCEPT ![t] = "granted"] /\ at' = [at EXCEPT ![t] = at[t]]
        /\ at[t] = at[t] \/ "granted" \notin Counted
        /\ "granted" \in Counted => pc[t] \in Counted
        /\ "granted" \in Admitted => pc[t] \in Admitted
        /\ pending' = pending
    BY <1>1, <1>5 DEF Wake, Goto, Counted, Admitted, TypeOK
  <2>. QED
    BY <1>1, <2>1, MovesKeepBounds DEF TypeOK
<1>6. ASSUME NEW t \in Tasks, Stamp(t)
      PROVE  CountCoversRequests' /\ DepthWithinBound' /\ pending' \in [Slots -> Nat]
  <2>1. /\ pc' = [pc EXCEPT ![t] = "holding"] /\ at' = [at EXCEPT ![t] = at[t]]
        /\ at[t] = at[t] \/ "holding" \notin Counted
        /\ "holding" \in Counted => pc[t] \in Counted
        /\ "holding" \in Admitted => pc[t] \in Admitted
        /\ pending' = pending
    BY <1>1, <1>6 DEF Stamp, Goto, Counted, Admitted, TypeOK
  <2>. QED
    BY <1>1, <2>1, MovesKeepBounds DEF TypeOK
<1>7. ASSUME NEW t \in Tasks, TimeOut(t)
      PROVE  CountCoversRequests' /\ DepthWithinBound' /\ pending' \in [Slots -> Nat]
  <2>1. /\ pc' = [pc EXCEPT ![t] = "refused"] /\ at' = [at EXCEPT ![t] = at[t]]
        /\ at[t] = at[t] \/ "refused" \notin Counted
        /\ "refused" \in Counted => pc[t] \in Counted
        /\ "refused" \in Admitted => pc[t] \in Admitted
        /\ pending' = pending
    BY <1>1, <1>7 DEF TimeOut, StopWaiting, Goto, Counted, Admitted, TypeOK
  <2>. QED
    BY <1>1, <2>1, MovesKeepBounds DEF TypeOK
<1>8. ASSUME NEW t \in Tasks, DropWait(t)
      PROVE  CountCoversRequests' /\ DepthWithinBound' /\ pending' \in [Slots -> Nat]
  <2>1. /\ pc' = [pc EXCEPT ![t] = "idle"] /\ at' = [at EXCEPT ![t] = NoSlot]
        /\ NoSlot = at[t] \/ "idle" \notin Counted
        /\ "idle" \in Counted => pc[t] \in Counted
        /\ "idle" \in Admitted => pc[t] \in Admitted
        /\ pending' = pending
    BY <1>1, <1>8 DEF DropWait, StopWaiting, Goto, Counted, Admitted, TypeOK
  <2>. QED
    BY <1>1, <2>1, MovesKeepBounds DEF TypeOK
<1>9. ASSUME NEW t \in Tasks, DropGranted(t)
      PROVE  CountCoversRequests' /\ DepthWithinBound' /\ pending' \in [Slots -> Nat]
  <2>1. /\ pc' = [pc EXCEPT ![t] = "idle"] /\ at' = [at EXCEPT ![t] = NoSlot]
        /\ NoSlot = at[t] \/ "idle" \notin Counted
        /\ "idle" \in Counted => pc[t] \in Counted
        /\ "idle" \in Admitted => pc[t] \in Admitted
        /\ pending' = pending
    BY <1>1, <1>9 DEF DropGranted, Goto, Counted, Admitted, TypeOK
  <2>. QED
    BY <1>1, <2>1, MovesKeepBounds DEF TypeOK
<1>10. ASSUME NEW t \in Tasks, Release(t)
      PROVE  CountCoversRequests' /\ DepthWithinBound' /\ pending' \in [Slots -> Nat]
  <2>1. /\ pc' = [pc EXCEPT ![t] = "idle"] /\ at' = [at EXCEPT ![t] = NoSlot]
        /\ NoSlot = at[t] \/ "idle" \notin Counted
        /\ "idle" \in Counted => pc[t] \in Counted
        /\ "idle" \in Admitted => pc[t] \in Admitted
        /\ pending' = pending
    BY <1>1, <1>10 DEF Release, Goto, Counted, Admitted, TypeOK
  <2>. QED
    BY <1>1, <2>1, MovesKeepBounds DEF TypeOK
<1>11. ASSUME NEW t \in Tasks, Refuse(t)
      PROVE  CountCoversRequests' /\ DepthWithinBound' /\ pending' \in [Slots -> Nat]
  <2>1. /\ pc[t] \in Counted /\ "idle" \notin Counted
        /\ pc' = [pc EXCEPT ![t] = "idle"] /\ at' = [at EXCEPT ![t] = NoSlot]
        /\ pending' = [pending EXCEPT ![at[t]] = @ - 1]
    BY <1>1, <1>11 DEF Refuse, Goto, Counted, TypeOK
  <2>. QED
    BY <2>1, TakeBackKeepsBounds
<1>12. ASSUME NEW t \in Tasks, Uncount(t)
      PROVE  CountCoversRequests' /\ DepthWithinBound' /\ pending' \in [Slots -> Nat]
  <2>1. /\ pc[t] \in Counted /\ "releasing" \notin Counted
        /\ pc' = [pc EXCEPT ![t] = "releasing"] /\ at' = [at EXCEPT ![t] = at[t]]
        /\ pending' = [pending EXCEPT ![at[t]] = @ - 1]
    BY <1>1, <1>12 DEF Uncount, Goto, Counted, TypeOK
  <2>. QED
    BY <2>1, TakeBackKeepsBounds
<1>13. CASE UNCHANGED <<pc, at, pending>>
  <2>1. \A z : With(z, Counted)' = With(z, Counted) /\ With(z, Admitted)' = With(z, Admitted)
    BY <1>13 DEF With
  <2>. QED
    BY <1>1, <1>13, <2>1 DEF IInv, TypeOK, CountCoversRequests, DepthWithinBound
<1>. QED
  BY <1>2, <1>3, <1>4, <1>5, <1>6, <1>7, <1>8, <1>9, <1>10, <1>11, <1>12, <1>13
     DEF Next, vars, Age, SweepReads, SweepCounts, SweepRemoves

----------------------------------------------------------------------------
LEMMA InitHolds == Init => IInv
<1>. SUFFICES ASSUME Init PROVE IInv
  OBVIOUS
<1>1. TypeOK /\ HasSlot /\ PermitKept
  BY DEF Init, TypeOK, HasSlot, PermitKept, Granted, Counted
<1>2. \A s \in Slots : With(s, Counted) = {} /\ With(s, Admitted) = {}
  BY DEF Init, With, Counted, Admitted
<1>3. CountCoversRequests /\ DepthWithinBound
  BY <1>2, FS_EmptySet, QueueConstants
     DEF Init, CountCoversRequests, DepthWithinBound, QueueConstants
<1>. QED
  BY <1>1, <1>3 DEF IInv

LEMMA StepHolds == IInv /\ [Next]_vars => IInv'
<1>. SUFFICES ASSUME IInv, [Next]_vars PROVE IInv'
  OBVIOUS
<1>. QED
  BY StepKeepsPlaces, StepKeepsBounds DEF IInv, TypeOK

(* In every behaviour of the queue, sweeps and drops included, a granted   *)
(* permit stays with its request and the counters cover the requests.      *)
THEOREM Invariant == Spec => []IInv
BY InitHolds, StepHolds, PTL DEF Spec

(* The state keeps its type: no counter of session_queue.rs wraps below 0. *)
THEOREM TypeCorrect == Spec => []TypeOK
<1>1. IInv => TypeOK
  BY DEF IInv
<1>. QED
  BY <1>1, Invariant, PTL

(* No request is overlooked by the depth check or by the sweep: the counter *)
(* of its slot covers it, even after waits that were dropped.              *)
THEOREM CountersCover == Spec => []CountCoversRequests
<1>1. IInv => CountCoversRequests
  BY DEF IInv
<1>. QED
  BY <1>1, Invariant, PTL

(* max_queue_depth bounds the requests that hold or wait for a slot.       *)
THEOREM DepthIsBounded == Spec => []DepthWithinBound
<1>1. IInv => DepthWithinBound
  BY DEF IInv
<1>. QED
  BY <1>1, Invariant, PTL

----------------------------------------------------------------------------
(* Without drops.  Every request that joins those a slot counts adds one   *)
(* to its counter and takes one back when it leaves them.                  *)
LEMMA ExactFollows ==
    ASSUME TypeOK, CountIsExact, NEW t \in Tasks, NEW STATE to, NEW STATE x, NEW s \in Slots,
           pc' = [pc EXCEPT ![t] = to], at' = [at EXCEPT ![t] = x],
           pending'[s] = pending[s] + (IF x = s /\ to \in Counted THEN 1 ELSE 0)
                                    - (IF at[t] = s /\ pc[t] \in Counted THEN 1 ELSE 0)
    PROVE  Cardinality(With(s, Counted)') = pending'[s]
<1>. DEFINE W == With(s, Counted)
<1>1. With(s, Counted)' = IF x = s /\ to \in Counted THEN W \cup {t} ELSE W \ {t}
  BY WithMoved
<1>2. t \in W <=> at[t] = s /\ pc[t] \in Counted
  BY DEF With
<1>3. Cardinality(W) = pending[s] /\ Cardinality(W) \in Nat
  BY WithFinite DEF CountIsExact
<1>4. /\ Cardinality(W \cup {t}) = IF t \in W THEN Cardinality(W) ELSE Cardinality(W) + 1
      /\ Cardinality(W \ {t}) = IF t \in W THEN Cardinality(W) - 1 ELSE Cardinality(W)
  BY WithCardinality
<1>. HIDE DEF W
<1>. QED
  BY <1>1, <1>2, <1>3, <1>4

LEMMA ExactStep ==
    ASSUME ~Drops, IInv, CountIsExact, [Next]_vars
    PROVE  CountIsExact'
<1>0. /\ TypeOK /\ HasSlot /\ pending \in [Slots -> Nat] /\ NoSlot \notin Slots
      /\ at \in [Tasks -> Slots \cup {NoSlot}]
  BY QueueConstants DEF IInv, TypeOK, QueueConstants
<1>1. ASSUME NEW t \in Tasks, NEW STATE to, NEW STATE x,
             pc' = [pc EXCEPT ![t] = to], at' = [at EXCEPT ![t] = x],
             \A s \in Slots : pending'[s] = pending[s]
                    + (IF x = s /\ to \in Counted THEN 1 ELSE 0)
                    - (IF at[t] = s /\ pc[t] \in Counted THEN 1 ELSE 0)
      PROVE  CountIsExact'
  BY <1>0, <1>1, ExactFollows DEF CountIsExact
<1>2. ASSUME NEW t \in Tasks, NEW STATE to, NEW STATE x,
             pc' = [pc EXCEPT ![t] = to], at' = [at EXCEPT ![t] = x], pending' = pending,
             to \in Counted <=> pc[t] \in Counted, to \in Counted => x = at[t]
      PROVE  CountIsExact'
  <2>1. \A s \in Slots : pending'[s] = pending[s]
                    + (IF x = s /\ to \in Counted THEN 1 ELSE 0)
                    - (IF at[t] = s /\ pc[t] \in Counted THEN 1 ELSE 0)
    BY <1>0, <1>2
  <2>. QED
    BY <1>0, <1>2, <2>1, ExactFollows DEF CountIsExact
<1>3. ASSUME NEW t \in Tasks, NEW STATE to, NEW STATE x, pc[t] \in Counted, to \notin Counted,
             pc' = [pc EXCEPT ![t] = to], at' = [at EXCEPT ![t] = x],
             pending' = [pending EXCEPT ![at[t]] = @ - 1]
      PROVE  CountIsExact'
  <2>1. at[t] \in Slots
    BY <1>0, <1>3 DEF HasSlot, Counted
  <2>2. \A s \in Slots : pending'[s] = pending[s]
                    + (IF x = s /\ to \in Counted THEN 1 ELSE 0)
                    - (IF at[t] = s /\ pc[t] \in Counted THEN 1 ELSE 0)
    BY <1>0, <1>3, <2>1
  <2>. QED
    BY <1>1, <1>3, <2>2
<1>4. ASSUME NEW t \in Tasks, FindSlot(t) PROVE CountIsExact'
  <2>1. PICK x \in Slots \cup {NoSlot} :
           /\ pc[t] = "idle" /\ pc' = [pc EXCEPT ![t] = "counting"]
           /\ at' = [at EXCEPT ![t] = x]
           /\ pending' = pending \/ (x \in Unused /\ pending' = [pending EXCEPT ![x] = 0])
    BY <1>0, <1>4 DEF FindSlot, Goto, TypeOK, Unused
  <2>2. pc[t] \notin Counted /\ "counting" \notin Counted
    BY <2>1 DEF Counted
  <2>3. CASE pending' = pending
    BY <1>2, <2>1, <2>2, <2>3
  <2>4. CASE x \in Unused /\ pending' = [pending EXCEPT ![x] = 0]
    <3>1. With(x, Counted) = {} /\ x \in Slots
      BY <2>4 DEF With, Unused
    <3>2. pending[x] = 0
      BY <3>1, FS_EmptySet DEF CountIsExact
    <3>3. pending' = pending
      BY <1>0, <2>4, <3>2
    <3>. QED
      BY <2>3, <3>3
  <2>. QED
    BY <2>1, <2>3, <2>4
<1>5. ASSUME NEW t \in Tasks, Count(t) PROVE CountIsExact'
  <2>. DEFINE to == IF pending[at[t]] >= MaxDepth THEN "refused" ELSE "joining"
  <2>1. /\ pc[t] = "counting" /\ pc' = [pc EXCEPT ![t] = to]
        /\ at' = [at EXCEPT ![t] = at[t]] /\ at[t] \in Slots
        /\ pending' = [pending EXCEPT ![at[t]] = @ + 1]
    BY <1>0, <1>5 DEF Count, Goto, HasSlot
  <2>2. pc[t] \notin Counted /\ to \in Counted
    BY <2>1 DEF Counted
  <2>. HIDE DEF to
  <2>3. \A s \in Slots : pending'[s] = pending[s]
                    + (IF at[t] = s /\ to \in Counted THEN 1 ELSE 0)
                    - (IF at[t] = s /\ pc[t] \in Counted THEN 1 ELSE 0)
    BY <1>0, <2>1, <2>2
  <2>. QED
    BY <1>1, <2>1, <2>3
<1>6. ASSUME NEW t \in Tasks, Join(t) \/ Wake(t) \/ Stamp(t) \/ TimeOut(t) PROVE CountIsExact'
  <2>1. PICK to \in {"granted", "waiting", "holding", "refused"} :
           /\ pc[t] \in {"joining", "waiting", "granted"}
           /\ pc' = [pc EXCEPT ![t] = to] /\ at' = [at EXCEPT ![t] = at[t]]
           /\ pending' = pending
    BY <1>0, <1>6 DEF Join, Wake, Stamp, TimeOut, StopWaiting, Goto
  <2>2. to \in Counted /\ pc[t] \in Counted
    BY <2>1 DEF Counted
  <2>. QED
    BY <1>2, <2>1, <2>2
<1>7. ASSUME NEW t \in Tasks, Refuse(t) PROVE CountIsExact'
  <2>1. /\ pc[t] \in Counted /\ "idle" \notin Counted
        /\ pc' = [pc EXCEPT ![t] = "idle"] /\ at' = [at EXCEPT ![t] = NoSlot]
        /\ pending' = [pending EXCEPT ![at[t]] = @ - 1]
    BY <1>7 DEF Refuse, Goto, Counted
  <2>. QED
    BY <1>3, <2>1
<1>8. ASSUME NEW t \in Tasks, Uncount(t) PROVE CountIsExact'
  <2>1. /\ pc[t] \in Counted /\ "releasing" \notin Counted
        /\ pc' = [pc EXCEPT ![t] = "releasing"] /\ at' = [at EXCEPT ![t] = at[t]]
        /\ pending' = [pending EXCEPT ![at[t]] = @ - 1]
    BY <1>0, <1>8 DEF Uncount, Goto, Counted
  <2>. QED
    BY <1>3, <2>1
<1>9. ASSUME NEW t \in Tasks, Release(t) PROVE CountIsExact'
  <2>1. /\ pc[t] \notin Counted /\ "idle" \notin Counted
        /\ pc' = [pc EXCEPT ![t] = "idle"] /\ at' = [at EXCEPT ![t] = NoSlot]
        /\ pending' = pending
    BY <1>9 DEF Release, Goto, Counted
  <2>. QED
    BY <1>2, <2>1
<1>10. CASE UNCHANGED <<pc, at, pending>>
  BY <1>10 DEF CountIsExact, With
<1>. QED
  BY <1>4, <1>5, <1>6, <1>7, <1>8, <1>9, <1>10
     DEF Next, vars, DropWait, DropGranted, Age, SweepReads, SweepCounts, SweepRemoves

LEMMA ExactInvariant == ASSUME ~Drops PROVE Spec => [](IInv /\ CountIsExact)
<1>1. Init => CountIsExact
  <2>1. Init => \A s \in Slots : With(s, Counted) = {} /\ pending[s] = 0
    BY DEF Init, With, Counted
  <2>. QED
    BY <2>1, FS_EmptySet DEF CountIsExact
<1>2. Init => IInv /\ CountIsExact
  BY <1>1, InitHolds
<1>3. IInv /\ CountIsExact /\ [Next]_vars => (IInv /\ CountIsExact)'
  BY StepHolds, ExactStep
<1>. QED
  BY <1>2, <1>3, PTL DEF Spec

(* While no wait is dropped a slot's counter is the number of its requests *)
(* in every state, sweeps, timeouts and refusals included.                 *)
THEOREM CountersAreExact == ASSUME ~Drops PROVE Spec => []CountIsExact
BY ExactInvariant, PTL

(* ... so a request is turned away only at a full queue.                   *)
THEOREM RefusalsAreDue == ASSUME ~Drops PROVE Spec => RefusedOnlyWhenFull
<1>1. ASSUME IInv, CountIsExact, [Next]_vars, NEW t \in Tasks, pc[t] = "counting", pc'[t] = "refused"
      PROVE  Cardinality(With(at[t], Counted)) >= MaxDepth
  <2>1. /\ pc \in [Tasks -> Counted \cup {"idle", "counting", "releasing"}]
        /\ at[t] \in Slots /\ pending \in [Slots -> Nat] /\ MaxDepth \in Nat
    BY <1>1, QueueConstants DEF IInv, TypeOK, HasSlot, QueueConstants
  <2>2. \A u \in Tasks \ {t} :
           ~(FindSlot(u) \/ Count(u) \/ Join(u) \/ Wake(u) \/ Stamp(u) \/ TimeOut(u) \/ Refuse(u)
              \/ DropWait(u) \/ DropGranted(u) \/ Uncount(u) \/ Release(u))
    BY <1>1, <2>1 DEF FindSlot, Count, Join, Wake, Stamp, TimeOut, Refuse, DropWait, DropGranted,
                      Uncount, Release, StopWaiting, Goto
  <2>3. Count(t)
    BY <1>1, <2>1, <2>2 DEF Next, FindSlot, Join, Wake, Stamp, TimeOut, Refuse, DropWait,
           DropGranted, Uncount, Release, StopWaiting, Goto, Age, SweepReads, SweepCounts,
           SweepRemoves, vars
  <2>4. pending[at[t]] >= MaxDepth
    BY <1>1, <2>1, <2>3 DEF Count, Goto
  <2>. QED
    BY <1>1, <2>1, <2>4 DEF CountIsExact
<1>2. IInv /\ CountIsExact /\ [Next]_vars =>
        [\A t \in Tasks : pc[t] = "counting" /\ pc'[t] = "refused"
            => Cardinality(With(at[t], Counted)) >= MaxDepth]_vars
  BY <1>1
<1>. QED
  BY <1>2, ExactInvariant, PTL DEF Spec, RefusedOnlyWhenFull

----------------------------------------------------------------------------
(* Without sweeps.  The slot of a session never leaves the map, so one     *)
(* semaphore serialises all of its requests.                               *)
LEMMA OneSlotIsKept ==
    ASSUME ~Sweeps, IInv, OneSlot, [Next]_vars
    PROVE  OneSlot'
<1>. USE DEF OneSlot, Goto
<1>1. TypeOK /\ HasSlot
  BY DEF IInv
<1>2. ASSUME NEW t \in Tasks, FindSlot(t)
      PROVE  OneSlot'
  <2>1. CASE entry # NoSlot
    BY <1>1, <1>2, <2>1 DEF FindSlot, TypeOK
  <2>2. CASE entry = NoSlot
    <3>1. \A u \in Tasks : pc[u] = "idle"
      BY <1>1, <2>2, QueueConstants DEF HasSlot, QueueConstants
    <3>. QED
      BY <1>1, <1>2, <2>2, <3>1 DEF FindSlot, TypeOK
  <2>. QED
    BY <2>1, <2>2
<1>3. CASE \E t \in Tasks : Count(t) \/ Join(t) \/ Wake(t) \/ Stamp(t) \/ TimeOut(t) \/ Uncount(t)
  BY <1>1, <1>3 DEF Count, Join, Wake, Stamp, TimeOut, StopWaiting, Uncount, TypeOK
<1>4. CASE \E t \in Tasks : Refuse(t) \/ DropWait(t) \/ DropGranted(t) \/ Release(t)
  BY <1>1, <1>4 DEF Refuse, DropWait, StopWaiting, DropGranted, Release, TypeOK
<1>5. CASE Age \/ SweepReads \/ SweepCounts \/ SweepRemoves
  BY <1>5 DEF Age, SweepReads, SweepCounts, SweepRemoves
<1>6. CASE UNCHANGED vars
  BY <1>6 DEF vars
<1>. QED
  BY <1>2, <1>3, <1>4, <1>5, <1>6 DEF Next

LEMMA OneSlotInvariant == ASSUME ~Sweeps PROVE Spec => [](IInv /\ OneSlot)
<1>1. Init => IInv /\ OneSlot
  BY InitHolds DEF Init, OneSlot
<1>2. IInv /\ OneSlot /\ [Next]_vars => (IInv /\ OneSlot)'
  BY StepHolds, OneSlotIsKept
<1>. QED
  BY <1>1, <1>2, PTL DEF Spec

LEMMA OneHolder == IInv /\ OneSlot => MutualExclusion
BY DEF IInv, OneSlot, PermitKept, Granted, MutualExclusion

(* The gateway, which never sweeps: two requests never hold a session at   *)
(* the same time, whatever else times out or is dropped.                   *)
THEOREM MutualExclusionWithoutSweep == ASSUME ~Sweeps PROVE Spec => []MutualExclusion
BY OneSlotInvariant, OneHolder, PTL

LEMMA HolderHolds ==
    ASSUME MutualExclusion, NEW t \in Tasks, pc[t] = "holding"
    PROVE  Holder = t
BY DEF MutualExclusion, Holder

LEMMA NobodyHolds ==
    ASSUME \A t \in Tasks : pc[t] # "holding"
    PROVE  Holder = Nobody
BY DEF Holder

(* Taking and giving back happen where the guard is returned and where it  *)
(* is dropped; no other step of a request is seen from outside.            *)
LEMMA StepRefines ==
    ASSUME IInv, OneSlot, MutualExclusion, MutualExclusion', [Next]_vars
    PROVE  [Mutex!Next]_Holder
<1>. USE DEF Goto
<1>1. pc \in [Tasks -> Counted \cup {"idle", "counting", "releasing"}]
  BY DEF IInv, TypeOK
<1>2. ASSUME NEW t \in Tasks, Stamp(t)
      PROVE  Mutex!Next
  <2>1. permit[at[t]] = t /\ pc[t] = "granted" /\ pc' = [pc EXCEPT ![t] = "holding"]
    BY <1>2 DEF Stamp, IInv, PermitKept, Granted
  <2>2. \A u \in Tasks : pc[u] # "holding"
    <3>. SUFFICES ASSUME NEW u \in Tasks, pc[u] = "holding" PROVE FALSE
      OBVIOUS
    <3>1. permit[at[u]] = u /\ at[u] = entry /\ at[t] = entry
      BY <2>1 DEF IInv, PermitKept, Granted, OneSlot
    <3>. QED
      BY <2>1, <3>1
  <2>3. Holder = Nobody
    BY <2>2, NobodyHolds
  <2>4. pc'[t] = "holding"
    BY <1>1, <2>1
  <2>5. Holder' = t
    BY <2>4 DEF Holder, MutualExclusion
  <2>. QED
    BY <2>3, <2>5 DEF Mutex!Next, Mutex!Take
<1>3. ASSUME NEW t \in Tasks, Uncount(t)
      PROVE  Mutex!Next
  <2>1. pc[t] = "holding" /\ pc' = [pc EXCEPT ![t] = "releasing"]
    BY <1>3 DEF Uncount
  <2>2. Holder = t
    BY <2>1, HolderHolds
  <2>3. \A u \in Tasks : pc'[u] # "holding"
    BY <1>1, <2>1 DEF MutualExclusion
  <2>4. Holder' = Nobody
    BY <2>3 DEF Holder
  <2>. QED
    BY <2>2, <2>4 DEF Mutex!Next, Mutex!Give
<1>4. ASSUME \A u \in Tasks : pc'[u] = "holding" <=> pc[u] = "holding"
      PROVE  UNCHANGED Holder
  BY <1>4 DEF Holder
<1>5. CASE \E t \in Tasks : \/ FindSlot(t) \/ Count(t) \/ Join(t) \/ Wake(t) \/ TimeOut(t)
                            \/ Refuse(t) \/ DropWait(t) \/ DropGranted(t) \/ Release(t)
  <2>1. \A u \in Tasks : pc'[u] = "holding" <=> pc[u] = "holding"
    BY <1>1, <1>5 DEF FindSlot, Count, Join, Wake, TimeOut, StopWaiting, Refuse, DropWait,
                      DropGranted, Release
  <2>. QED
    BY <1>4, <2>1
<1>6. CASE Age \/ SweepReads \/ SweepCounts \/ SweepRemoves \/ UNCHANGED vars
  BY <1>4, <1>6 DEF Age, SweepReads, SweepCounts, SweepRemoves, vars
<1>. QED
  BY <1>2, <1>3, <1>5, <1>6 DEF Next

(* Without sweeps the queue implements the mutex it promises its callers.  *)
THEOREM ImplementsMutex == ASSUME ~Sweeps PROVE Spec => IsMutex
<1>1. Init => Mutex!Init
  BY DEF Init, Mutex!Init, Holder
<1>2. IInv /\ OneSlot /\ (IInv /\ OneSlot)' /\ [Next]_vars => [Mutex!Next]_Holder
  <2>1. IInv /\ OneSlot => MutualExclusion
    BY OneHolder
  <2>2. (IInv /\ OneSlot)' => MutualExclusion'
    BY <2>1, PTL
  <2>. QED
    BY <2>1, <2>2, StepRefines
<1>. QED
  BY <1>1, <1>2, OneSlotInvariant, PTL DEF Spec, IsMutex, Mutex!Spec
=============================================================================
