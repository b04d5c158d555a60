--------------------------- MODULE SopDispatchProof ---------------------------
(***************************************************************************)
(* Proofs about SopDispatch, for any messages, SOPs, policies, limits and  *)
(* faults.                                                                 *)
(*                                                                         *)
(* The invariant follows one delivery: each SOP its message matches either *)
(* has its result or is in the batch that is being started, so when the    *)
(* answer is due every one of them has been answered for.                  *)
(***************************************************************************)
EXTENDS SopDispatch, FiniteSetTheorems, TLAPS

Stages == {"idle", "admit", "reserve", "activate", "record", "answer"}
Starting == {"reserve", "activate", "record"}
Entries == [key : {Key[m] : m \in Messages}, sop : Sops, clear : BOOLEAN]
Answers == [Sops -> Results]

(* The SOPs that are being started.                                        *)
InBatch(s) == s \in todo \/ \E r \in held \cup started : r[2] = s

(* The message in hand is the one the broker has handed out.               *)
HandFits ==
    /\ \A m \in Messages : queue[m] = "out" => m = msg
    /\ pc # "idle" => msg \in Messages /\ queue[msg] = "out"

(* A batch goes through its phases as a whole, with one run of each SOP.   *)
BatchFits ==
    /\ pc \notin Starting => todo = {} /\ held = {} /\ started = {}
    /\ pc = "reserve" => started = {}
    /\ pc = "activate" => todo = {}
    /\ pc = "record" => todo = {} /\ held = {}
    /\ \A r \in held \cup started : r[2] \notin todo
    /\ \A r, q \in held \cup started : r[2] = q[2] => r = q

(* A matched SOP has a result or is in the batch.                          *)
ResultsFit ==
    /\ pc \in {"idle", "admit"} => \A s \in Sops : result[s] = "none"
    /\ pc \notin {"idle", "admit"} =>
         /\ \A s \in Match[msg] : result[s] # "none" \/ InBatch(s)
         /\ \A s \in Sops : InBatch(s) => s \in Match[msg]
         /\ \A s \in Sops : result[s] # "none" => verdict[msg][s] = result[s]
    /\ pc \in {"reserve", "activate"} => \A s \in Sops : result[s] \in {"none", "coalesced", "dropped"}
    /\ pc = "record" => \A s \in Sops : result[s] \in {"none", "coalesced", "dropped", "started"}
    /\ pc = "answer" => \A s \in Sops : result[s] = "failed" => Match[msg] = {s}

(* A claim whose run is not in memory is a reservation, or that of a park  *)
(* that was rolled back.                                                   *)
ClaimsFit == ~missed =>
    /\ up
    /\ \A r \in parked : r[2] \in Gated
    /\ \A r \in claims : r \in active \cup parked \cup held \/ r[2] \in Gated

IInv == TypeOK /\ HandFits /\ BatchFits /\ ResultsFit /\ AllOrNothing /\ AckedIsSettled /\ ClaimsFit

(* The window knows what has been started, as long as it is complete.      *)
WindowFits == ~missed =>
    /\ \A m \in Messages, s \in Sops :
         /\ count[m][s] <= 1
         /\ count[m][s] = 1 => m \in delivered /\ Recognised(m, s)
    /\ \A i \in DOMAIN window : \E m \in Messages :
         window[i].key = Key[m] /\ count[m][window[i].sop] = 1
    /\ pc \in Starting => msg \in delivered /\ \A s \in Sops : InBatch(s) => count[msg][s] = 0

OwnKeysOnly == \A m, n \in Messages : Key[m] = Key[n] => m = n

-----------------------------------------------------------------------------
(* The kinds of steps, as a delivery sees them.  Told: the ghost verdict   *)
(* follows the results.                                                    *)
Told ==
    /\ result' \in Answers
    /\ verdict' \in [Messages -> Answers]
    /\ \A s \in Sops : result'[s] # "none" => verdict'[msg][s] = result'[s]
    /\ \A m \in Messages \ {msg} : verdict'[m] = verdict[m]
NothingRemembered == UNCHANGED <<window, count, missed>>
EmptyBatch == todo' = {} /\ held' = {} /\ started' = {}

Delivers == \E m \in Messages :
    /\ pc = "idle" /\ queue[m] = "ready"
    /\ queue' = [queue EXCEPT ![m] = "out"]
    /\ pc' = "admit" /\ msg' = m
    /\ UNCHANGED <<delivered, todo, held, started, result, verdict>> /\ NothingRemembered

Notes == /\ delivered' = delivered \cup {msg}
         /\ window' = IF msg \in delivered THEN window ELSE Blur(msg)
         /\ UNCHANGED <<queue, msg, held, started, count, missed>>

Settles ==
    /\ pc = "admit" /\ pc' = "answer" /\ Notes /\ Told /\ todo' = todo
    /\ \A s \in Match[msg] : result'[s] \in {"coalesced", "deferred", "dropped"}
    /\ \A s \in Sops \ Match[msg] : result'[s] = "none"

Starts ==
    /\ pc = "admit" /\ pc' = "reserve" /\ Notes /\ Told
    /\ todo' \subseteq Match[msg]
    /\ \A s \in Match[msg] \ todo' : result'[s] \in {"coalesced", "dropped"}
    /\ \A s \in Sops : s \notin Match[msg] \ todo' => result'[s] = "none"
    /\ \A s \in todo' : msg \in delivered => ~Recognised(msg, s)

Reserves == \E s \in todo, n \in Runs :
    /\ pc = "reserve" /\ n[2] = s
    /\ todo' = todo \ {s} /\ held' = held \cup {n}
    /\ pc' = IF todo' = {} THEN "activate" ELSE pc
    /\ UNCHANGED <<queue, delivered, msg, started, result, verdict>> /\ NothingRemembered

Fails ==
    /\ pc \in {"reserve", "activate"} /\ pc' = "answer" /\ EmptyBatch /\ Told
    /\ \A s \in Sops : IF InBatch(s)
                       THEN result'[s] \in IF IsBatch THEN {"deferred"}
                                           ELSE {"deferred", "coalesced", "failed"}
                       ELSE result'[s] = result[s]
    /\ UNCHANGED <<queue, delivered, msg>> /\ NothingRemembered

Activates == \E r \in held :
    /\ pc = "activate"
    /\ held' = held \ {r} /\ started' = started \cup {r}
    /\ pc' = IF held' = {} THEN "record" ELSE pc
    /\ UNCHANGED <<queue, delivered, msg, todo, result, verdict>> /\ NothingRemembered

Records == \E r \in started :
    /\ pc = "record" /\ started' = started \ {r} /\ Told
    /\ \A s \in Sops : result'[s] = IF s = r[2] THEN "started" ELSE result[s]
    /\ pc' = IF started' = {} THEN "answer" ELSE pc
    /\ IF Len(Remember(msg, r[2])) > WindowCap
       THEN window' = Tail(Remember(msg, r[2])) /\ missed' = TRUE
       ELSE window' = Remember(msg, r[2]) /\ missed' = missed
    /\ count' = [count EXCEPT ![msg][r[2]] = IF @ < 2 THEN @ + 1 ELSE @]
    /\ UNCHANGED <<queue, delivered, msg, todo, held>>

Replies ==
    /\ pc = "answer" /\ pc' = "idle" /\ msg' = NoMessage /\ result' = NoResult
    /\ \E to \in {"ready", "acked"} :
         /\ to = "acked" => ~NeedsRedelivery(result)
         /\ queue' = [queue EXCEPT ![msg] = to]
    /\ UNCHANGED <<delivered, todo, held, started, verdict>> /\ NothingRemembered

Rests == UNCHANGED <<queue, delivered, pc, msg, todo, held, started, result, verdict>> /\ NothingRemembered

Crashes ==
    /\ queue' = [m \in Messages |-> IF queue[m] = "out" THEN "ready" ELSE queue[m]]
    /\ delivered' \in {delivered, delivered \cup {msg}} /\ (pc = "idle" => delivered' = delivered)
    /\ pc' = "idle" /\ msg' = NoMessage /\ result' = NoResult /\ EmptyBatch
    /\ window' = <<>> /\ missed' = TRUE
    /\ UNCHANGED <<verdict, count>>

LEMMA EvaluateRange ==
    ASSUME NEW s, NEW cooling
    PROVE  Evaluate(s, cooling) \in {"admit", "dropped", "deferred", "coalesced"}
BY DEF Evaluate

LEMMA NewRunIsFree ==
    ASSUME NEW s, FreeIds(s) # {}
    PROVE  /\ NewRun(s) \in Runs /\ NewRun(s)[2] = s
           /\ NewRun(s) \notin active \cup parked \cup claims
BY DEF NewRun, FreeIds, OfSop

LEMMA BatchIs ==
    ASSUME NEW s
    PROVE  s \in Batch <=> InBatch(s)
BY DEF Batch, InBatch

LEMMA SettleTells ==
    ASSUME TypeOK, msg \in Messages, NEW STATE res, res \in Answers, result' = res,
           verdict' = [verdict EXCEPT ![msg] = [s \in Sops |-> IF res[s] = "none" THEN @[s] ELSE res[s]]]
    PROVE  Told
BY DEF TypeOK, Told, Answers

LEMMA AdmitKind ==
    ASSUME IInv, NEW cooling, Admit(cooling)
    PROVE  Settles \/ Starts
<1>. DEFINE known == {s \in Match[msg] : msg \in delivered /\ Recognised(msg, s)}
            cands == Match[msg] \ known
            eval(s) == Evaluate(s, cooling)
            defers == \E s \in cands : eval(s) = "deferred"
            admits == {s \in cands : eval(s) = "admit"}
            large == IsBatch /\ Cardinality(admits) > MaxTotal
            res == [s \in Sops |->
                      IF s \in known THEN "coalesced"
                      ELSE IF s \notin cands THEN "none"
                      ELSE IF s \notin admits THEN eval(s)
                      ELSE IF defers THEN "deferred"
                      ELSE IF large THEN "dropped" ELSE "none"]
<1>1. /\ TypeOK /\ msg \in Messages /\ pc = "admit" /\ Match[msg] \subseteq Sops
      /\ todo = {} /\ held = {} /\ started = {}
  BY DispatchConstants DEF IInv, HandFits, BatchFits, Starting, Admit, DispatchConstants
<1>2. /\ IF defers \/ large \/ admits = {}
         THEN Settle(res) /\ UNCHANGED todo
         ELSE /\ result' = res /\ todo' = admits /\ pc' = "reserve"
              /\ verdict' = [verdict EXCEPT ![msg] = [s \in Sops |->
                               IF res[s] = "none" THEN @[s] ELSE res[s]]]
      /\ Notes
  BY DEF Admit, Notes
<1>3. \A s \in Sops : /\ s \notin Match[msg] => res[s] = "none"
                      /\ s \in Match[msg] \ admits => res[s] \in {"coalesced", "dropped", "deferred"}
                      /\ s \in Match[msg] \ admits /\ res[s] = "deferred" => defers
                      /\ s \in admits => res[s] = IF defers THEN "deferred"
                                                  ELSE IF large THEN "dropped" ELSE "none"
                      /\ s \in admits => s \in Match[msg] /\ (msg \in delivered => ~Recognised(msg, s))
  BY EvaluateRange
<1>4. res \in Answers
  BY <1>3 DEF Answers, Results
<1>. HIDE DEF res, admits, defers, large
<1>5. CASE defers \/ large \/ admits = {}
  <2>1. /\ result' = res /\ pc' = "answer" /\ todo' = todo
        /\ verdict' = [verdict EXCEPT ![msg] = [s \in Sops |->
                         IF res[s] = "none" THEN @[s] ELSE res[s]]]
    BY <1>2, <1>5 DEF Settle
  <2>2. Told
    BY <1>1, <1>4, <2>1, SettleTells
  <2>. QED
    BY <1>1, <1>2, <1>3, <1>5, <2>1, <2>2 DEF Settles
<1>6. CASE ~(defers \/ large \/ admits = {})
  <2>1. Told
    BY <1>1, <1>2, <1>4, <1>6, SettleTells
  <2>2. /\ result' = res /\ todo' = admits /\ pc' = "reserve"
    BY <1>2, <1>6
  <2>3. admits \subseteq Sops
    BY <1>1 DEF admits
  <2>. QED
    BY <1>1, <1>2, <1>3, <1>6, <2>1, <2>2, <2>3 DEF Starts
<1>. QED
  BY <1>5, <1>6

LEMMA FailKind ==
    ASSUME IInv, pc \in {"reserve", "activate"}, NEW s, StartFailed(Batch, Again(s)),
           UNCHANGED <<queue, delivered, window, msg, count, missed>>
    PROVE  Fails
<1>1. TypeOK /\ msg \in Messages
  BY DEF IInv, HandFits
<1>. DEFINE res == [t \in Sops |-> IF t \notin Batch THEN result[t]
                                   ELSE IF IsBatch THEN "deferred" ELSE Again(s)]
<1>2. Again(s) \in {"deferred", "coalesced", "failed"}
  BY DEF Again
<1>3. res \in Answers
  BY <1>1, <1>2 DEF TypeOK, Answers, Results
<1>4. /\ result' = res /\ pc' = "answer" /\ EmptyBatch
      /\ verdict' = [verdict EXCEPT ![msg] = [t \in Sops |-> IF res[t] = "none" THEN @[t] ELSE res[t]]]
  BY DEF StartFailed, Settle, EmptyBatch
<1>5. \A t \in Sops : res[t] = IF InBatch(t) THEN IF IsBatch THEN "deferred" ELSE Again(s) ELSE result[t]
  BY BatchIs
<1>. HIDE DEF res
<1>6. Told
  BY <1>1, <1>3, <1>4, SettleTells
<1>. QED
  BY <1>2, <1>4, <1>5, <1>6 DEF Fails, NothingRemembered

LEMMA RecordKind ==
    ASSUME IInv, NEW r \in Runs, RecordStart(r)
    PROVE  Records
<1>1. /\ TypeOK /\ msg \in Messages /\ r[2] \in Sops
      /\ \A s \in Sops : result[s] # "none" => verdict[msg][s] = result[s]
  BY DEF IInv, HandFits, ResultsFit, RecordStart, Runs
<1>2. /\ result' = [result EXCEPT ![r[2]] = "started"]
      /\ verdict' = [verdict EXCEPT ![msg][r[2]] = "started"]
  BY DEF RecordStart
<1>3. Told
  BY <1>1, <1>2 DEF TypeOK, Told, Answers, Results
<1>4. \A s \in Sops : result'[s] = IF s = r[2] THEN "started" ELSE result[s]
  BY <1>1, <1>2 DEF TypeOK
<1>5. IF Len(Remember(msg, r[2])) > WindowCap
      THEN window' = Tail(Remember(msg, r[2])) /\ missed' = TRUE
      ELSE window' = Remember(msg, r[2]) /\ missed' = missed
  BY <1>1 DEF RecordStart, TypeOK
<1>. QED
  BY <1>3, <1>4, <1>5 DEF RecordStart, Records, engine

LEMMA Kinds ==
    ASSUME IInv, Next
    PROVE  \/ Delivers \/ Settles \/ Starts \/ Reserves \/ Fails \/ Activates \/ Records
           \/ Replies \/ Rests \/ Crashes
<1>1. ASSUME NEW m \in Messages, Deliver(m)
      PROVE  Delivers
  BY <1>1 DEF Deliver, Delivers, ghosts, NothingRemembered
<1>2. ASSUME NEW cooling \in SUBSET Cooling, Admit(cooling)
      PROVE  Settles \/ Starts
  BY <1>2, AdmitKind
<1>3. ASSUME NEW s \in Sops, ReserveRunSlot(s)
      PROVE  Reserves
  BY <1>3, NewRunIsFree DEF ReserveRunSlot, Reserves, ghosts, NothingRemembered
<1>4. ASSUME NEW s \in Sops, Shortfall(s)
      PROVE  Fails
  BY <1>4, FailKind DEF Shortfall
<1>5. ASSUME NEW r \in Runs, Activate(r)
      PROVE  Activates
  BY <1>5 DEF Activate, Activates, ghosts, NothingRemembered
<1>6. ASSUME NEW r \in Runs, ActivationFails(r)
      PROVE  Fails
  BY <1>6, FailKind DEF ActivationFails
<1>7. ASSUME NEW r \in Runs, RecordStart(r)
      PROVE  Records
  BY <1>7, RecordKind
<1>8. CASE Answer
  <2>1. PICK to \in {"ready", "acked"} : /\ to = "acked" => ~NeedsRedelivery(result)
                                         /\ queue' = [queue EXCEPT ![msg] = to]
    BY <1>8 DEF Answer
  <2>. QED
    BY <1>8, <2>1 DEF Answer, Replies, batch, ghosts, NothingRemembered
<1>9. CASE ConnectionLost
  BY <1>9 DEF ConnectionLost, Replies, batch, ghosts, NothingRemembered
<1>10. ASSUME NEW r \in Runs, FinishRun(r) \/ ReapClaim(r)
       PROVE  Rests
  BY <1>10 DEF FinishRun, ReapClaim, Rests, batch, ghosts, NothingRemembered
<1>11. CASE Crash
  BY <1>11 DEF Crash, Crashes, EmptyBatch
<1>12. CASE Restart
  BY <1>12 DEF Restart, Rests, batch, ghosts, NothingRemembered
<1>. QED
  BY <1>1, <1>2, <1>3, <1>4, <1>5, <1>6, <1>7, <1>8, <1>9, <1>10, <1>11, <1>12 DEF Next

-----------------------------------------------------------------------------
(* Every kind of step keeps the invariant: the message in hand and the batch,  *)
Kind == \/ Delivers \/ Settles \/ Starts \/ Reserves \/ Fails
        \/ Activates \/ Records \/ Replies \/ Rests \/ Crashes

LEMMA HandKept ==
    ASSUME IInv, Kind
    PROVE  HandFits'
<1>0. TypeOK /\ NoMessage \notin Messages /\ HandFits
  BY DispatchConstants DEF IInv, DispatchConstants
<1>1. CASE Delivers
  BY <1>0, <1>1 DEF Delivers, NothingRemembered, HandFits, TypeOK
<1>2. CASE Settles
  BY <1>0, <1>2 DEF Settles, NothingRemembered, HandFits, TypeOK, Notes
<1>3. CASE Starts
  BY <1>0, <1>3 DEF Starts, NothingRemembered, HandFits, TypeOK, Notes
<1>4. CASE Reserves
  BY <1>0, <1>4 DEF Reserves, NothingRemembered, HandFits, TypeOK
<1>5. CASE Fails
  BY <1>0, <1>5 DEF Fails, NothingRemembered, HandFits, TypeOK, EmptyBatch
<1>6. CASE Activates
  BY <1>0, <1>6 DEF Activates, NothingRemembered, HandFits, TypeOK
<1>7. CASE Records
  BY <1>0, <1>7 DEF Records, NothingRemembered, HandFits, TypeOK
<1>8. CASE Replies
  BY <1>0, <1>8 DEF Replies, NothingRemembered, HandFits, TypeOK
<1>9. CASE Rests
  BY <1>0, <1>9 DEF Rests, NothingRemembered, HandFits, TypeOK
<1>10. CASE Crashes
  BY <1>0, <1>10 DEF Crashes, NothingRemembered, HandFits, TypeOK, EmptyBatch
<1>. QED
  BY <1>1, <1>2, <1>3, <1>4, <1>5, <1>6, <1>7, <1>8, <1>9, <1>10 DEF Kind

LEMMA BatchKept ==
    ASSUME IInv, Kind
    PROVE  BatchFits'
<1>0. TypeOK /\ BatchFits
  BY DispatchConstants DEF IInv, DispatchConstants
<1>1. CASE Delivers
  BY <1>0, <1>1 DEF Delivers, NothingRemembered, BatchFits, Starting
<1>2. CASE Settles
  BY <1>0, <1>2 DEF Settles, NothingRemembered, BatchFits, Starting, Notes
<1>3. CASE Starts
  BY <1>0, <1>3 DEF Starts, NothingRemembered, BatchFits, Starting, Notes
<1>4. CASE Reserves
  BY <1>0, <1>4 DEF Reserves, NothingRemembered, BatchFits, Starting
<1>5. CASE Fails
  BY <1>0, <1>5 DEF Fails, NothingRemembered, BatchFits, Starting, EmptyBatch
<1>6. CASE Activates
  BY <1>0, <1>6 DEF Activates, NothingRemembered, BatchFits, Starting
<1>7. CASE Records
  BY <1>0, <1>7 DEF Records, NothingRemembered, BatchFits, Starting
<1>8. CASE Replies
  BY <1>0, <1>8 DEF Replies, NothingRemembered, BatchFits, Starting
<1>9. CASE Rests
  BY <1>0, <1>9 DEF Rests, NothingRemembered, BatchFits, Starting
<1>10. CASE Crashes
  BY <1>0, <1>10 DEF Crashes, NothingRemembered, BatchFits, Starting, EmptyBatch
<1>. QED
  BY <1>1, <1>2, <1>3, <1>4, <1>5, <1>6, <1>7, <1>8, <1>9, <1>10 DEF Kind

LEMMA OneMatch ==
    ASSUME ~IsBatch, msg \in Messages, NEW s \in Match[msg], NEW t \in Match[msg]
    PROVE  s = t
<1>1. Match[msg] \subseteq Sops /\ IsFiniteSet(Sops)
  BY DispatchConstants DEF DispatchConstants
<1>2. IsFiniteSet(Match[msg])
  BY <1>1, FS_Subset
<1>3. Cardinality(Match[msg]) \in Nat /\ Cardinality(Match[msg]) <= 1
  BY <1>2, FS_CardinalityType DEF IsBatch
<1>4. Cardinality(Match[msg]) = 0 \/ Cardinality(Match[msg]) = 1
  BY <1>3
<1>. QED
  BY <1>2, <1>4, FS_EmptySet, FS_Singleton

LEMMA ResultsKept ==
    ASSUME IInv, Kind
    PROVE  ResultsFit' /\ AllOrNothing'
<1>0. /\ TypeOK /\ HandFits /\ BatchFits /\ ResultsFit /\ AllOrNothing /\ AckedIsSettled
      /\ NoMessage \notin Messages /\ \A m \in Messages : Match[m] \subseteq Sops
  BY DispatchConstants DEF IInv, DispatchConstants
<1>1. CASE Delivers
  BY <1>0, <1>1 DEF Delivers, NothingRemembered, HandFits, BatchFits, Starting, ResultsFit, AllOrNothing, InBatch, Told, TypeOK
<1>2. CASE Settles
  BY <1>0, <1>2 DEF Settles, NothingRemembered, HandFits, BatchFits, Starting, ResultsFit, AllOrNothing, InBatch, Told, TypeOK, Notes
<1>3. CASE Starts
  BY <1>0, <1>3 DEF Starts, NothingRemembered, HandFits, BatchFits, Starting, ResultsFit, AllOrNothing, InBatch, Told, TypeOK, Notes
<1>4. CASE Reserves
  BY <1>0, <1>4 DEF Reserves, NothingRemembered, HandFits, BatchFits, Starting, ResultsFit, AllOrNothing, InBatch, Told, TypeOK
<1>5. CASE Fails
  <2>1. /\ pc' = "answer" /\ msg' = msg /\ msg \in Messages /\ \A s \in Sops : ~InBatch(s)'
    BY <1>0, <1>5 DEF Fails, HandFits, EmptyBatch, InBatch
  <2>2. \A s \in Sops : ~InBatch(s) => result'[s] \in {"none", "coalesced", "dropped"}
    BY <1>0, <1>5 DEF Fails, ResultsFit
  <2>3. \A s \in Sops : InBatch(s) => result'[s] \in {"deferred", "coalesced", "failed"}
    BY <1>5 DEF Fails
  <2>4. \A s \in Sops : InBatch(s) /\ result'[s] = "failed" => ~IsBatch /\ s \in Match[msg]
    BY <1>0, <1>5 DEF Fails, ResultsFit
  <2>5. \A s \in Match[msg] : result'[s] # "none"
    <3>. SUFFICES ASSUME NEW s \in Match[msg]
                  PROVE  result'[s] # "none"
      OBVIOUS
    <3>1. s \in Sops /\ (result[s] # "none" \/ InBatch(s))
      BY <1>0, <1>5, <2>1 DEF Fails, ResultsFit
    <3>2. CASE InBatch(s)
      BY <2>3, <3>1, <3>2
    <3>3. CASE ~InBatch(s)
      BY <1>5, <3>1, <3>3 DEF Fails
    <3>. QED
      BY <3>2, <3>3
  <2>6. \A s \in Sops : result'[s] # "none" => verdict'[msg][s] = result'[s]
    BY <1>5 DEF Fails, Told
  <2>7. \A s \in Sops : result'[s] = "failed" => Match[msg] = {s}
    <3>. SUFFICES ASSUME NEW s \in Sops, result'[s] = "failed"
                  PROVE  Match[msg] = {s}
      OBVIOUS
    <3>1. ~IsBatch /\ s \in Match[msg]
      BY <2>2, <2>4
    <3>. QED
      BY <2>1, <3>1, OneMatch
  <2>8. ResultsFit'
    BY <2>1, <2>5, <2>6, <2>7 DEF ResultsFit
  <2>9. \A s \in Sops : result'[s] # "started"
    BY <2>2, <2>3
  <2>. QED
    BY <2>8, <2>9 DEF AllOrNothing
<1>6. CASE Activates
  BY <1>0, <1>6 DEF Activates, NothingRemembered, HandFits, BatchFits, Starting, ResultsFit, AllOrNothing, InBatch, Told, TypeOK
<1>7. CASE Records
  <2>1. PICK r \in started : /\ pc = "record" /\ started' = started \ {r} /\ Told
                             /\ \A s \in Sops : result'[s] = IF s = r[2] THEN "started" ELSE result[s]
                             /\ pc' = IF started' = {} THEN "answer" ELSE pc
                             /\ UNCHANGED <<queue, delivered, msg, todo, held>>
    BY <1>7 DEF Records
  <2>2. /\ msg \in Messages /\ msg' = msg /\ todo' = {} /\ held' = {} /\ todo = {} /\ held = {}
        /\ \A q \in started : q[2] = r[2] => q = r
    BY <1>0, <2>1 DEF HandFits, BatchFits
  <2>3. \A s \in Sops : InBatch(s)' <=> (InBatch(s) /\ s # r[2])
    BY <2>1, <2>2 DEF InBatch
  <2>4. \A s \in Match[msg] : result'[s] # "none" \/ InBatch(s)'
    BY <1>0, <2>1, <2>2, <2>3 DEF ResultsFit
  <2>5. \A s \in Sops : InBatch(s)' => s \in Match[msg]
    BY <1>0, <2>1, <2>3 DEF ResultsFit
  <2>6. \A s \in Sops : result'[s] # "none" => verdict'[msg][s] = result'[s]
    BY <2>1 DEF Told
  <2>7. \A s \in Sops : result'[s] \in {"none", "coalesced", "dropped", "started"}
    BY <1>0, <2>1 DEF ResultsFit
  <2>8. pc' \in {"record", "answer"}
    BY <2>1
  <2>9. ResultsFit'
    BY <2>2, <2>4, <2>5, <2>6, <2>7, <2>8 DEF ResultsFit
  <2>. QED
    BY <2>7, <2>9 DEF AllOrNothing
<1>8. CASE Replies
  BY <1>0, <1>8 DEF Replies, ResultsFit, AllOrNothing, NoResult
<1>9. CASE Rests
  BY <1>0, <1>9 DEF Rests, NothingRemembered, HandFits, BatchFits, Starting, ResultsFit, AllOrNothing, InBatch, Told, TypeOK
<1>10. CASE Crashes
  BY <1>10 DEF Crashes, ResultsFit, AllOrNothing, NoResult
<1>. QED
  BY <1>1, <1>2, <1>3, <1>4, <1>5, <1>6, <1>7, <1>8, <1>9, <1>10 DEF Kind

LEMMA AckedKept ==
    ASSUME IInv, Kind
    PROVE  AckedIsSettled'
<1>0. /\ TypeOK /\ HandFits /\ BatchFits /\ ResultsFit /\ AllOrNothing /\ AckedIsSettled
      /\ NoMessage \notin Messages /\ \A m \in Messages : Match[m] \subseteq Sops
  BY DispatchConstants DEF IInv, DispatchConstants
<1>1. CASE Delivers
  BY <1>0, <1>1 DEF Delivers, NothingRemembered, HandFits, ResultsFit, AckedIsSettled, Told
<1>2. CASE Settles
  BY <1>0, <1>2 DEF Settles, NothingRemembered, HandFits, ResultsFit, AckedIsSettled, Told, Notes
<1>3. CASE Starts
  BY <1>0, <1>3 DEF Starts, NothingRemembered, HandFits, ResultsFit, AckedIsSettled, Told, Notes
<1>4. CASE Reserves
  BY <1>0, <1>4 DEF Reserves, NothingRemembered, HandFits, ResultsFit, AckedIsSettled, Told
<1>5. CASE Fails
  BY <1>0, <1>5 DEF Fails, NothingRemembered, HandFits, ResultsFit, AckedIsSettled, Told, EmptyBatch
<1>6. CASE Activates
  BY <1>0, <1>6 DEF Activates, NothingRemembered, HandFits, ResultsFit, AckedIsSettled, Told
<1>7. CASE Records
  BY <1>0, <1>7 DEF Records, NothingRemembered, HandFits, ResultsFit, AckedIsSettled, Told
<1>8. CASE Replies
  <2>1. PICK to \in {"ready", "acked"} : /\ to = "acked" => ~NeedsRedelivery(result)
                                         /\ queue' = [queue EXCEPT ![msg] = to]
    BY <1>8 DEF Replies
  <2>2. /\ msg \in Messages /\ verdict' = verdict /\ pc = "answer"
        /\ \A s \in Sops : ~InBatch(s)
    BY <1>0, <1>8 DEF Replies, HandFits, BatchFits, Starting, InBatch
  <2>3. \A m \in Messages : queue'[m] = IF m = msg THEN to ELSE queue[m]
    BY <1>0, <2>1 DEF TypeOK
  <2>4. \A s \in Match[msg] : result[s] \in Results \ {"none"} /\ verdict[msg][s] = result[s]
    BY <1>0, <2>2 DEF ResultsFit, TypeOK
  <2>5. to = "acked" => \A s \in Match[msg] : result[s] # "deferred"
    <3>. SUFFICES ASSUME to = "acked", NEW s \in Match[msg], result[s] = "deferred"
                  PROVE  FALSE
      OBVIOUS
    <3>1. PICK t \in Sops : result[t] = "started"
      BY <1>0, <2>1, <2>2 DEF NeedsRedelivery
    <3>. QED
      BY <1>0, <2>2, <3>1 DEF AllOrNothing
  <2>6. to = "acked" => \A s \in Match[msg] :
          \/ verdict[msg][s] \in {"started", "coalesced", "dropped"}
          \/ verdict[msg][s] = "failed" /\ Match[msg] = {s}
    BY <1>0, <2>2, <2>4, <2>5 DEF ResultsFit, Results
  <2>. QED
    BY <1>0, <2>2, <2>3, <2>6 DEF AckedIsSettled
<1>9. CASE Rests
  BY <1>0, <1>9 DEF Rests, NothingRemembered, HandFits, ResultsFit, AckedIsSettled, Told
<1>10. CASE Crashes
  BY <1>0, <1>10 DEF Crashes, NothingRemembered, HandFits, ResultsFit, AckedIsSettled, Told, EmptyBatch
<1>. QED
  BY <1>1, <1>2, <1>3, <1>4, <1>5, <1>6, <1>7, <1>8, <1>9, <1>10 DEF Kind

LEMMA ClaimsKept ==
    ASSUME IInv, Next
    PROVE  ClaimsFit'
<1>0. TypeOK /\ BatchFits /\ ClaimsFit
  BY DEF IInv
<1>1. ASSUME NEW m \in Messages, Deliver(m)
      PROVE  ClaimsFit'
  BY <1>0, <1>1 DEF Deliver, ClaimsFit, engine, ghosts
<1>2. ASSUME NEW cooling \in SUBSET Cooling, Admit(cooling)
      PROVE  ClaimsFit'
  BY <1>0, <1>2 DEF Admit, ClaimsFit, engine
<1>3. ASSUME NEW s \in Sops, ReserveRunSlot(s)
      PROVE  ClaimsFit'
  BY <1>0, <1>3 DEF ReserveRunSlot, ClaimsFit, ghosts
<1>4. ASSUME NEW s \in Sops, Shortfall(s)
      PROVE  ClaimsFit'
  BY <1>0, <1>4 DEF Shortfall, StartFailed, ClaimsFit
<1>5. ASSUME NEW r \in Runs, Activate(r)
      PROVE  ClaimsFit'
  <2>1. PICK saved \in BOOLEAN :
           IF r[2] \in Gated
           THEN parked' = parked \cup {r} /\ active' = active /\ claims' \subseteq claims
           ELSE active' = active \cup {r} /\ parked' = parked /\ claims' = claims
    BY <1>5 DEF Activate
  <2>2. held' = held \ {r} /\ missed' = missed /\ up' = up
    BY <1>5 DEF Activate, ghosts
  <2>. QED
    BY <1>0, <2>1, <2>2 DEF ClaimsFit
<1>6. ASSUME NEW r \in Runs, ActivationFails(r)
      PROVE  ClaimsFit'
  <2>1. PICK kept \in {{}} \cup {{r} : k \in {"retain"} \cap Faults} :
           /\ active' = (active \ started) \cup kept
           /\ parked' = parked \ started
           /\ claims' = (claims \ (held \cup (started \cap active))) \cup kept
    BY <1>6 DEF ActivationFails
  <2>2. held' = {} /\ missed' = missed /\ up' = up
    BY <1>6 DEF ActivationFails, StartFailed
  <2>. QED
    BY <1>0, <2>1, <2>2 DEF ClaimsFit
<1>7. ASSUME NEW r \in Runs, RecordStart(r)
      PROVE  ClaimsFit'
  <2>1. missed' = FALSE => missed = FALSE
    BY <1>0, <1>7 DEF RecordStart, TypeOK
  <2>2. missed' \in BOOLEAN
    BY <1>0, <1>7 DEF RecordStart, TypeOK
  <2>3. UNCHANGED <<up, active, parked, claims, held>>
    BY <1>7 DEF RecordStart, engine
  <2>. QED
    BY <1>0, <2>1, <2>2, <2>3 DEF ClaimsFit
<1>8. CASE Answer
  BY <1>0, <1>8 DEF Answer, ClaimsFit, engine, batch, ghosts
<1>9. CASE ConnectionLost
  BY <1>0, <1>9 DEF ConnectionLost, ClaimsFit, engine, batch, ghosts
<1>10. ASSUME NEW r \in Runs, FinishRun(r)
       PROVE  ClaimsFit'
  BY <1>0, <1>10 DEF FinishRun, ClaimsFit, batch, ghosts
<1>11. ASSUME NEW r \in Runs, ReapClaim(r)
       PROVE  ClaimsFit'
  BY <1>0, <1>11 DEF ReapClaim, ClaimsFit, batch, ghosts
<1>12. CASE Crash
  BY <1>12 DEF Crash, ClaimsFit
<1>13. CASE Restart
  BY <1>0, <1>13 DEF Restart, ClaimsFit, ghosts
<1>. QED
  BY <1>1, <1>2, <1>3, <1>4, <1>5, <1>6, <1>7, <1>8, <1>9, <1>10, <1>11, <1>12, <1>13 DEF Next

(* The window: as long as every message has a key of its own, an entry     *)
(* stays clear, and a start adds the entry of its SOP.                     *)
LEMMA WindowKept ==
    ASSUME IInv, WindowFits, OwnKeysOnly, Kind
    PROVE  WindowFits'
<1>0. TypeOK /\ HandFits /\ BatchFits /\ ResultsFit
  BY DEF IInv
<1>1. /\ window \in Seq(Entries) /\ count \in [Messages -> [Sops -> 0..2]] /\ missed \in BOOLEAN
  BY <1>0 DEF TypeOK, Entries
<1>2. \A i \in DOMAIN window : window[i].sop \in Sops
  <2>1. \A i \in DOMAIN window : window[i] \in Entries
    BY <1>1
  <2>. QED
    BY <2>1 DEF Entries
<1>3. ASSUME pc = "admit", Notes, ~missed
      PROVE  /\ window' = window /\ msg \in delivered' /\ delivered \subseteq delivered'
             /\ msg \notin delivered => \A s \in Sops : count[msg][s] = 0
  <2>1. msg \in Messages
    BY <1>0, <1>3 DEF HandFits
  <2>2. msg \notin delivered => \A s \in Sops : count[msg][s] = 0
    BY <1>1, <1>3, <2>1 DEF WindowFits
  <2>3. msg \notin delivered => \A i \in DOMAIN window : window[i].key # Key[msg]
    <3>. SUFFICES ASSUME msg \notin delivered, NEW i \in DOMAIN window, window[i].key = Key[msg]
                  PROVE  FALSE
      OBVIOUS
    <3>1. PICK m \in Messages : window[i].key = Key[m] /\ count[m][window[i].sop] = 1
      BY <1>3 DEF WindowFits
    <3>2. m = msg /\ window[i].sop \in Sops
      BY <1>2, <2>1, <3>1 DEF OwnKeysOnly
    <3>. QED
      BY <2>2, <3>1, <3>2
  <2>4. msg \notin delivered => Blur(msg) = window
    BY <1>1, <2>3 DEF Blur
  <2>. QED
    BY <1>3, <2>2, <2>4 DEF Notes
<1>4. CASE Delivers
  BY <1>0, <1>4 DEF Delivers, NothingRemembered, WindowFits, Recognised, EntryOf, Starting
<1>5. CASE Settles
  BY <1>0, <1>3, <1>5 DEF Settles, Notes, WindowFits, Recognised, EntryOf, Starting
<1>6. CASE Starts
  <2>. SUFFICES ASSUME ~missed'
                PROVE  WindowFits'
    BY DEF WindowFits
  <2>1. /\ pc = "admit" /\ Notes /\ ~missed /\ UNCHANGED <<msg, count>>
        /\ held' = {} /\ started' = {} /\ todo' \subseteq Match[msg]
        /\ \A s \in todo' : msg \in delivered => ~Recognised(msg, s)
    BY <1>0, <1>6 DEF Starts, Notes, BatchFits, Starting
  <2>2. /\ window' = window /\ msg \in delivered' /\ delivered \subseteq delivered'
        /\ msg \notin delivered => \A s \in Sops : count[msg][s] = 0
    BY <1>3, <2>1
  <2>3. msg \in Messages
    BY <1>0, <2>1 DEF HandFits
  <2>4. \A s \in Sops : s \in todo' => count[msg][s] = 0
    BY <1>1, <2>1, <2>2, <2>3 DEF WindowFits
  <2>5. \A s \in Sops : InBatch(s)' => count[msg][s] = 0
    BY <2>1, <2>4 DEF InBatch
  <2>. QED
    BY <2>1, <2>2, <2>5 DEF WindowFits, Recognised, EntryOf
<1>7. CASE Reserves
  BY <1>0, <1>7 DEF Reserves, NothingRemembered, WindowFits, Recognised, EntryOf, Starting, InBatch
<1>8. CASE Fails
  BY <1>0, <1>8 DEF Fails, NothingRemembered, WindowFits, Recognised, EntryOf, Starting
<1>9. CASE Activates
  BY <1>0, <1>9 DEF Activates, NothingRemembered, WindowFits, Recognised, EntryOf, Starting, InBatch
<1>10. CASE Records
  <2>. SUFFICES ASSUME ~missed'
                PROVE  WindowFits'
    BY DEF WindowFits
  <2>1. PICK r \in started : /\ pc = "record" /\ started' = started \ {r}
                             /\ IF Len(Remember(msg, r[2])) > WindowCap
                                THEN window' = Tail(Remember(msg, r[2])) /\ missed' = TRUE
                                ELSE window' = Remember(msg, r[2]) /\ missed' = missed
                             /\ count' = [count EXCEPT ![msg][r[2]] = IF @ < 2 THEN @ + 1 ELSE @]
                             /\ UNCHANGED <<queue, delivered, msg, todo, held>>
    BY <1>10 DEF Records
  <2>2. /\ window' = Remember(msg, r[2]) /\ ~missed /\ msg \in Messages /\ r[2] \in Sops
        /\ todo = {} /\ held = {} /\ InBatch(r[2]) /\ msg \in delivered
        /\ \A q \in started : q[2] = r[2] => q = r
    BY <1>0, <2>1 DEF HandFits, BatchFits, TypeOK, Runs, InBatch, WindowFits, Starting
  <2>3. count[msg][r[2]] = 0
    BY <2>1, <2>2 DEF WindowFits, Starting
  <2>4. EntryOf(msg, r[2]) = {}
    <3>. SUFFICES ASSUME NEW i \in DOMAIN window, window[i].key = Key[msg], window[i].sop = r[2]
                  PROVE  FALSE
      BY DEF EntryOf
    <3>1. PICK m \in Messages : window[i].key = Key[m] /\ count[m][window[i].sop] = 1
      BY <2>2 DEF WindowFits
    <3>2. Key[m] = Key[msg]
      BY <3>1
    <3>3. m = msg
      BY <2>2, <3>2 DEF OwnKeysOnly
    <3>. QED
      BY <2>3, <3>1, <3>3
  <2>. DEFINE entry == [key |-> Key[msg], sop |-> r[2], clear |-> TRUE]
  <2>5. window' = Append(window, entry) /\ entry \in Entries
    BY <2>2, <2>4 DEF Remember, Entries
  <2>6. /\ DOMAIN window' = DOMAIN window \cup {Len(window) + 1}
        /\ \A i \in DOMAIN window : window'[i] = window[i]
        /\ window'[Len(window) + 1] = entry
    BY <1>1, <2>5
  <2>7. \A m \in Messages, s \in Sops :
          count'[m][s] = IF m = msg /\ s = r[2] THEN 1 ELSE count[m][s]
    BY <1>1, <2>1, <2>2, <2>3
  <2>8. \A m \in Messages, s \in Sops : Recognised(m, s) => Recognised(m, s)'
    BY <2>6 DEF Recognised, EntryOf
  <2>9. Recognised(msg, r[2])'
    BY <2>1, <2>6 DEF Recognised, EntryOf
  <2>10. \A m \in Messages, s \in Sops :
           count'[m][s] <= 1 /\ (count'[m][s] = 1 => m \in delivered' /\ Recognised(m, s)')
    BY <2>1, <2>2, <2>7, <2>8, <2>9 DEF WindowFits
  <2>11. \A i \in DOMAIN window' : \E m \in Messages :
           window'[i].key = Key[m] /\ count'[m][window'[i].sop] = 1
    <3>. SUFFICES ASSUME NEW i \in DOMAIN window'
                  PROVE  \E m \in Messages : window'[i].key = Key[m] /\ count'[m][window'[i].sop] = 1
      OBVIOUS
    <3>1. CASE i \in DOMAIN window
      <4>1. PICK m \in Messages : window[i].key = Key[m] /\ count[m][window[i].sop] = 1
        BY <2>2, <3>1 DEF WindowFits
      <4>2. window[i].sop \in Sops
        BY <1>2, <3>1
      <4>. QED
        BY <2>6, <2>7, <3>1, <4>1, <4>2
    <3>2. CASE i = Len(window) + 1
      BY <2>2, <2>6, <2>7, <3>2
    <3>. QED
      BY <2>6, <3>1, <3>2
  <2>12. \A s \in Sops : InBatch(s)' => count'[msg'][s] = 0
    <3>. SUFFICES ASSUME NEW s \in Sops, InBatch(s)'
                  PROVE  count'[msg'][s] = 0
      OBVIOUS
    <3>1. InBatch(s) /\ s # r[2]
      BY <2>1, <2>2 DEF InBatch
    <3>. QED
      BY <2>1, <2>2, <2>7, <3>1 DEF WindowFits, Starting
  <2>. QED
    BY <2>1, <2>2, <2>10, <2>11, <2>12 DEF WindowFits
<1>11. CASE Replies
  BY <1>0, <1>11 DEF Replies, NothingRemembered, WindowFits, Recognised, EntryOf, Starting
<1>12. CASE Rests
  BY <1>0, <1>12 DEF Rests, NothingRemembered, WindowFits, Recognised, EntryOf, Starting, InBatch
<1>13. CASE Crashes
  BY <1>13 DEF Crashes, WindowFits
<1>. QED
  BY <1>4, <1>5, <1>6, <1>7, <1>8, <1>9, <1>10, <1>11, <1>12, <1>13 DEF Kind

-----------------------------------------------------------------------------
(* Types: what a delivery holds by the kind of the step, what the engine   *)
(* holds by the action.                                                    *)
DeliveryTypes ==
    /\ missed \in BOOLEAN
    /\ queue \in [Messages -> {"ready", "out", "acked"}]
    /\ delivered \subseteq Messages /\ msg \in Messages \cup {NoMessage}
    /\ (msg = NoMessage) = (pc = "idle")
    /\ pc \in Stages
    /\ todo \subseteq Sops /\ held \subseteq Runs /\ started \subseteq Runs
    /\ window \in Seq(Entries)
    /\ result \in Answers
    /\ verdict \in [Messages -> Answers]
    /\ count \in [Messages -> [Sops -> 0..2]]

EngineTypes ==
    /\ up \in BOOLEAN
    /\ active \subseteq Runs /\ parked \subseteq Runs /\ claims \subseteq Runs
    /\ retained \subseteq Runs
    /\ row \in [Runs -> {"none", "running", "parked"}]
    /\ budget \in 0..MaxFaults

LEMMA TypesSplit == TypeOK <=> DeliveryTypes /\ EngineTypes
BY DEF TypeOK, DeliveryTypes, EngineTypes, Stages, Answers, Entries

LEMMA UnclearType ==
    ASSUME NEW e \in Entries
    PROVE  [e EXCEPT !.clear = FALSE] \in Entries
BY DEF Entries

LEMMA RememberType ==
    ASSUME window \in Seq(Entries), NEW m \in Messages, NEW s \in Sops
    PROVE  Remember(m, s) \in Seq(Entries) /\ Len(Remember(m, s)) \in Nat
<1>1. CASE EntryOf(m, s) = {}
  <2>1. [key |-> Key[m], sop |-> s, clear |-> TRUE] \in Entries
    BY DEF Entries
  <2>. QED
    BY <1>1, <2>1 DEF Remember
<1>2. CASE EntryOf(m, s) # {}
  <2>. DEFINE after == [i \in DOMAIN window |->
                 IF i \in EntryOf(m, s) THEN [window[i] EXCEPT !.clear = FALSE] ELSE window[i]]
  <2>1. \A i \in DOMAIN window : after[i] \in Entries
    <3>1. \A i \in DOMAIN window : window[i] \in Entries
      OBVIOUS
    <3>. QED
      BY <3>1, UnclearType
  <2>2. DOMAIN window = 1..Len(window) /\ Len(window) \in Nat
    OBVIOUS
  <2>3. after \in Seq(Entries) /\ Len(after) \in Nat
    BY <2>1, <2>2
  <2>. QED
    BY <1>2, <2>3 DEF Remember
<1>. QED
  BY <1>1, <1>2

LEMMA BlurType ==
    ASSUME window \in Seq(Entries), NEW m
    PROVE  Blur(m) \in Seq(Entries)
<1>1. \A i \in DOMAIN window : Blur(m)[i] \in Entries
  <2>1. \A i \in DOMAIN window : window[i] \in Entries
    OBVIOUS
  <2>. QED
    BY <2>1, UnclearType DEF Blur
<1>2. DOMAIN window = 1..Len(window) /\ Len(window) \in Nat /\ DOMAIN Blur(m) = DOMAIN window
  BY DEF Blur
<1>3. Blur(m) = [i \in 1..Len(window) |-> Blur(m)[i]]
  BY <1>2 DEF Blur
<1>. QED
  BY <1>1, <1>2, <1>3

LEMMA DeliveryTypesKept ==
    ASSUME IInv, Kind
    PROVE  DeliveryTypes'
<1>0. /\ DeliveryTypes /\ HandFits /\ BatchFits /\ NoMessage \notin Messages
      /\ \A m \in Messages : Match[m] \subseteq Sops
  BY TypesSplit, DispatchConstants DEF IInv, DispatchConstants
<1>11. NoResult \in Answers
  BY DEF NoResult, Answers, Results
<1>1. CASE Delivers
  BY <1>0, <1>11, <1>1 DEF Delivers, NothingRemembered, DeliveryTypes, Stages
<1>2. CASE Settles
  <2>1. msg \in Messages /\ window' \in Seq(Entries)
    BY <1>0, <1>2, BlurType DEF Settles, Notes, HandFits, DeliveryTypes
  <2>. QED
    BY <1>0, <1>2, <2>1 DEF Settles, Notes, Told, BatchFits, Starting, DeliveryTypes, Stages
<1>3. CASE Starts
  <2>1. msg \in Messages /\ window' \in Seq(Entries)
    BY <1>0, <1>3, BlurType DEF Starts, Notes, HandFits, DeliveryTypes
  <2>. QED
    BY <1>0, <1>3, <2>1 DEF Starts, Notes, Told, BatchFits, Starting, DeliveryTypes, Stages
<1>4. CASE Reserves
  BY <1>0, <1>11, <1>4 DEF Reserves, NothingRemembered, DeliveryTypes, Stages
<1>5. CASE Fails
  BY <1>0, <1>11, <1>5 DEF Fails, NothingRemembered, DeliveryTypes, Stages, EmptyBatch, Told
<1>6. CASE Activates
  BY <1>0, <1>11, <1>6 DEF Activates, NothingRemembered, DeliveryTypes, Stages
<1>7. CASE Records
  <2>1. PICK r \in started : /\ pc = "record" /\ started' = started \ {r} /\ Told
                             /\ pc' = IF started' = {} THEN "answer" ELSE pc
                             /\ IF Len(Remember(msg, r[2])) > WindowCap
                                THEN window' = Tail(Remember(msg, r[2])) /\ missed' = TRUE
                                ELSE window' = Remember(msg, r[2]) /\ missed' = missed
                             /\ count' = [count EXCEPT ![msg][r[2]] = IF @ < 2 THEN @ + 1 ELSE @]
                             /\ UNCHANGED <<queue, delivered, msg, todo, held>>
    BY <1>7 DEF Records
  <2>2. msg \in Messages /\ r[2] \in Sops /\ WindowCap \in Nat
    BY <1>0, <2>1, DispatchConstants DEF HandFits, DeliveryTypes, Runs, DispatchConstants
  <2>3. Remember(msg, r[2]) \in Seq(Entries) /\ Len(Remember(msg, r[2])) \in Nat
    BY <1>0, <2>2, RememberType DEF DeliveryTypes
  <2>. DEFINE longer == Remember(msg, r[2])
  <2>4. longer \in Seq(Entries) /\ (Len(longer) > 0 => Tail(longer) \in Seq(Entries))
    BY <2>3
  <2>. HIDE DEF longer
  <2>5. Len(longer) > WindowCap => Len(longer) > 0
    BY <2>2, <2>3 DEF longer
  <2>6. window' \in Seq(Entries) /\ missed' \in BOOLEAN
    <3>1. \/ window' = Tail(longer) /\ missed' = TRUE /\ Len(longer) > WindowCap
          \/ window' = longer /\ missed' = missed
      BY <2>1 DEF longer
    <3>. QED
      BY <1>0, <2>4, <2>5, <3>1 DEF DeliveryTypes
  <2>7. count' \in [Messages -> [Sops -> 0..2]]
    BY <1>0, <2>1, <2>2 DEF DeliveryTypes
  <2>. QED
    BY <1>0, <2>1, <2>6, <2>7 DEF Told, DeliveryTypes, Stages
<1>8. CASE Replies
  BY <1>0, <1>11, <1>8 DEF Replies, NothingRemembered, DeliveryTypes, Stages, HandFits
<1>9. CASE Rests
  BY <1>0, <1>11, <1>9 DEF Rests, NothingRemembered, DeliveryTypes, Stages
<1>10. CASE Crashes
  BY <1>0, <1>11, <1>10 DEF Crashes, NothingRemembered, DeliveryTypes, Stages, EmptyBatch
<1>. QED
  BY <1>1, <1>2, <1>3, <1>4, <1>5, <1>6, <1>7, <1>8, <1>9, <1>10 DEF Kind

LEMMA EngineTypesKept ==
    ASSUME IInv, Next
    PROVE  EngineTypes'
<1>0. EngineTypes /\ MaxFaults \in Nat /\ held \subseteq Runs /\ started \subseteq Runs
  BY TypesSplit, DispatchConstants DEF IInv, DispatchConstants, DeliveryTypes
<1>1. ASSUME NEW m \in Messages, Deliver(m)
      PROVE  EngineTypes'
  BY <1>0, <1>1 DEF Deliver, EngineTypes, engine
<1>2. ASSUME NEW cooling \in SUBSET Cooling, Admit(cooling)
      PROVE  EngineTypes'
  BY <1>0, <1>2 DEF Admit, EngineTypes, engine
<1>3. ASSUME NEW s \in Sops, ReserveRunSlot(s)
      PROVE  EngineTypes'
  BY <1>0, <1>3, NewRunIsFree DEF ReserveRunSlot, EngineTypes, NoFault
<1>4. ASSUME NEW s \in Sops, Shortfall(s)
      PROVE  EngineTypes'
  BY <1>0, <1>4 DEF Shortfall, Fault, NoFault, EngineTypes
<1>5. ASSUME NEW r \in Runs, Activate(r)
      PROVE  EngineTypes'
  BY <1>0, <1>5 DEF Activate, Fault, NoFault, EngineTypes
<1>6. ASSUME NEW r \in Runs, ActivationFails(r)
      PROVE  EngineTypes'
  <2>1. up' = up /\ budget' \in 0..MaxFaults
    BY <1>0, <1>6 DEF ActivationFails, Fault, EngineTypes
  <2>2. /\ active' \subseteq active \cup {r} /\ parked' \subseteq parked
        /\ claims' \subseteq claims \cup {r} /\ retained' \subseteq retained \cup {r}
    BY <1>6 DEF ActivationFails
  <2>3. row' \in [Runs -> {"none", "running", "parked"}]
    BY <1>0, <1>6 DEF ActivationFails, EngineTypes
  <2>. QED
    BY <1>0, <2>1, <2>2, <2>3 DEF EngineTypes
<1>7. ASSUME NEW r \in Runs, RecordStart(r)
      PROVE  EngineTypes'
  BY <1>0, <1>7 DEF RecordStart, EngineTypes, engine
<1>8. CASE Answer
  BY <1>0, <1>8 DEF Answer, EngineTypes, engine
<1>9. CASE ConnectionLost
  BY <1>0, <1>9 DEF ConnectionLost, Fault, EngineTypes, engine
<1>10. ASSUME NEW r \in Runs, FinishRun(r)
       PROVE  EngineTypes'
  BY <1>0, <1>10 DEF FinishRun, EngineTypes
<1>11. ASSUME NEW r \in Runs, ReapClaim(r)
       PROVE  EngineTypes'
  BY <1>0, <1>11 DEF ReapClaim, EngineTypes
<1>12. CASE Crash
  <2>1. budget' \in 0..MaxFaults
    BY <1>0, <1>12 DEF Crash, Fault, EngineTypes
  <2>2. /\ up' = FALSE /\ active' = {} /\ parked' = {} /\ row' = row /\ claims' = claims
        /\ retained' = {}
    BY <1>12 DEF Crash
  <2>. QED
    BY <1>0, <2>1, <2>2 DEF EngineTypes
<1>13. CASE Restart
  BY <1>0, <1>13 DEF Restart, Rows, EngineTypes
<1>. QED
  BY <1>1, <1>2, <1>3, <1>4, <1>5, <1>6, <1>7, <1>8, <1>9, <1>10, <1>11, <1>12, <1>13 DEF Next

-----------------------------------------------------------------------------
LEMMA InitHolds ==
    ASSUME Init
    PROVE  IInv /\ WindowFits
<1>1. /\ up = TRUE /\ missed = FALSE /\ queue = [m \in Messages |-> "ready"]
      /\ delivered = {} /\ active = {} /\ parked = {} /\ claims = {} /\ retained = {} /\ window = <<>>
      /\ pc = "idle" /\ msg = NoMessage /\ todo = {} /\ held = {} /\ started = {}
      /\ result = NoResult /\ budget = MaxFaults /\ MaxFaults \in Nat /\ NoMessage \notin Messages
  BY DispatchConstants DEF Init, DispatchConstants
<1>2. NoResult \in Answers
  BY DEF NoResult, Answers, Results
<1>3. EngineTypes
  BY <1>1 DEF Init, EngineTypes
<1>4. /\ verdict \in [Messages -> Answers]
      /\ count \in [Messages -> [Sops -> 0..2]] /\ \A m \in Messages, s \in Sops : count[m][s] = 0
  BY <1>2 DEF Init
<1>5. window \in Seq(Entries) /\ queue \in [Messages -> {"ready", "out", "acked"}]
  BY <1>1
<1>6. (msg = NoMessage) = (pc = "idle") /\ pc \in Stages /\ missed \in BOOLEAN
  BY <1>1 DEF Stages
<1>7. DeliveryTypes
  BY <1>1, <1>2, <1>4, <1>5, <1>6 DEF DeliveryTypes
<1>8. /\ HandFits /\ BatchFits /\ ResultsFit /\ AllOrNothing /\ AckedIsSettled /\ ClaimsFit
  BY <1>1 DEF HandFits, BatchFits, ResultsFit, AllOrNothing, AckedIsSettled, ClaimsFit, NoResult, Starting
<1>9. WindowFits
  BY <1>1, <1>4 DEF WindowFits, Starting
<1>. QED
  BY <1>3, <1>7, <1>8, <1>9, TypesSplit DEF IInv

LEMMA StepKeeps ==
    ASSUME IInv, [Next]_vars
    PROVE  /\ IInv'
           /\ OwnKeysOnly /\ WindowFits => WindowFits'
<1>1. CASE Next
  <2>1. Kind
    BY <1>1, Kinds DEF Kind
  <2>2. TypeOK'
    BY <1>1, <2>1, DeliveryTypesKept, EngineTypesKept, TypesSplit, PTL
  <2>. QED
    BY <1>1, <2>1, <2>2, HandKept, BatchKept, ResultsKept, AckedKept, ClaimsKept, WindowKept DEF IInv
<1>2. CASE UNCHANGED vars
  BY <1>2 DEF vars, IInv, TypeOK, HandFits, BatchFits, ResultsFit, AllOrNothing, AckedIsSettled,
              ClaimsFit, WindowFits, InBatch, Recognised, EntryOf
<1>. QED
  BY <1>1, <1>2

LEMMA InvariantHolds == Spec => []IInv
<1>1. Init => IInv
  BY InitHolds
<1>2. IInv /\ [Next]_vars => IInv'
  BY StepKeeps
<1>. QED
  BY <1>1, <1>2, PTL DEF Spec

(* Every variable has its type: the budget never goes below zero, and a    *)
(* message is in hand exactly while a delivery is being handled.           *)
THEOREM TypesHold == Spec => []TypeOK
<1>1. IInv => TypeOK
  BY DEF IInv
<1>. QED
  BY <1>1, InvariantHolds, PTL

(* A message is acknowledged only once each SOP it matches has had its     *)
(* answer, whatever fails while a batch is started.                        *)
THEOREM AckedMessagesAreSettled == Spec => []AckedIsSettled
<1>1. IInv => AckedIsSettled
  BY DEF IInv
<1>. QED
  BY <1>1, InvariantHolds, PTL

(* A delivery that has started a run of one SOP defers or fails no other:  *)
(* the rollback of a batch takes everything back.                          *)
THEOREM BatchesStartAsOne == Spec => []AllOrNothing
<1>1. IInv => AllOrNothing
  BY DEF IInv
<1>. QED
  BY <1>1, InvariantHolds, PTL

(* Reservations and rolled-back starts leave no claim behind, except that  *)
(* of a park whose row could not be written.                               *)
THEOREM ClaimsDoNotLeak == Spec => []NoClaimLeaks
<1>1. IInv => NoClaimLeaks
  BY DEF IInv, BatchFits, ClaimsFit, Starting, NoClaimLeaks
<1>. QED
  BY <1>1, InvariantHolds, PTL

(* A message with a key of its own starts an SOP once, however often it is *)
(* delivered, while the window is complete.                                *)
THEOREM RedeliveriesStartNothing ==
    ASSUME OwnKeysOnly
    PROVE  Spec => []StartedOnce
<1>1. Init => IInv /\ WindowFits
  BY InitHolds
<1>2. (IInv /\ WindowFits) /\ [Next]_vars => (IInv /\ WindowFits)'
  BY StepKeeps
<1>3. IInv /\ WindowFits => StartedOnce
  BY DEF WindowFits, StartedOnce
<1>. QED
  BY <1>1, <1>2, <1>3, PTL DEF Spec

-----------------------------------------------------------------------------
(* SopDispatch implements SopBatch.  The runs of a batch are its message's *)
(* own; those reserved are new to the memory, and those activated are in   *)
(* it, not among the retained ones.                                        *)
RunsFit ==
    /\ ~up => pc = "idle" /\ retained = {}
    /\ retained \subseteq active \cup parked
    /\ held \cap (active \cup parked) = {}
    /\ started \subseteq (active \cup parked) \ retained
    /\ \A r \in held \cup started : r[1] = msg

LEMMA NewRunIsOfMessage ==
    ASSUME NEW s, FreeIds(s) # {}
    PROVE  NewRun(s)[1] = msg
BY DEF NewRun, FreeIds, OfSop

LEMMA RunsKept ==
    ASSUME IInv, RunsFit, [Next]_vars
    PROVE  RunsFit'
<1>0. TypeOK /\ BatchFits
  BY DEF IInv
<1>1. ASSUME NEW m \in Messages, Deliver(m)
      PROVE  RunsFit'
  BY <1>0, <1>1 DEF Deliver, RunsFit, BatchFits, Starting, engine
<1>2. ASSUME NEW cooling \in SUBSET Cooling, Admit(cooling)
      PROVE  RunsFit'
  BY <1>0, <1>2 DEF Admit, RunsFit, engine
<1>3. ASSUME NEW s \in Sops, ReserveRunSlot(s)
      PROVE  RunsFit'
  BY <1>0, <1>3, NewRunIsFree, NewRunIsOfMessage DEF ReserveRunSlot, RunsFit
<1>4. ASSUME NEW s \in Sops, Shortfall(s)
      PROVE  RunsFit'
  BY <1>0, <1>4 DEF Shortfall, StartFailed, RunsFit
<1>5. ASSUME NEW r \in Runs, Activate(r)
      PROVE  RunsFit'
  <2>1. /\ active' \cup parked' = active \cup parked \cup {r} /\ retained' = retained
        /\ up' = up /\ msg' = msg /\ pc = "activate" /\ r \in held
        /\ held' = held \ {r} /\ started' = started \cup {r}
    BY <1>5 DEF Activate
  <2>. QED
    BY <2>1 DEF RunsFit
<1>6. ASSUME NEW r \in Runs, ActivationFails(r)
      PROVE  RunsFit'
  <2>1. PICK kept \in {{}} \cup {{r} : k \in {"retain"} \cap Faults} :
           /\ active' = (active \ started) \cup kept
           /\ parked' = parked \ started
           /\ retained' = retained \cup kept
    BY <1>6 DEF ActivationFails
  <2>2. held' = {} /\ started' = {} /\ up' = up /\ pc = "activate"
    BY <1>6 DEF ActivationFails, StartFailed
  <2>. QED
    BY <2>1, <2>2 DEF RunsFit
<1>7. ASSUME NEW r \in Runs, RecordStart(r)
      PROVE  RunsFit'
  BY <1>0, <1>7 DEF RecordStart, RunsFit, engine
<1>8. CASE Answer
  BY <1>0, <1>8 DEF Answer, RunsFit, BatchFits, Starting, engine, batch
<1>9. CASE ConnectionLost
  BY <1>0, <1>9 DEF ConnectionLost, RunsFit, BatchFits, Starting, engine, batch
<1>10. ASSUME NEW r \in Runs, FinishRun(r)
       PROVE  RunsFit'
  BY <1>0, <1>10 DEF FinishRun, RunsFit, BatchFits, Starting, batch
<1>11. ASSUME NEW r \in Runs, ReapClaim(r)
       PROVE  RunsFit'
  BY <1>0, <1>11 DEF ReapClaim, RunsFit, batch
<1>12. CASE Crash
  BY <1>12 DEF Crash, RunsFit
<1>13. CASE Restart
  BY <1>0, <1>13 DEF Restart, RunsFit, BatchFits, Starting, batch
<1>14. CASE UNCHANGED vars
  BY <1>14 DEF vars, RunsFit
<1>. QED
  BY <1>1, <1>2, <1>3, <1>4, <1>5, <1>6, <1>7, <1>8, <1>9, <1>10, <1>11, <1>12, <1>13, <1>14 DEF Next

LEMMA StageIs ==
    /\ pc = "idle" => Stage = "none"
    /\ pc = "admit" => Stage = "new"
    /\ pc \in {"reserve", "activate"} => Stage = "batch"
    /\ pc \in {"record", "answer"} => Stage = "done"
BY DEF Stage

(* What the mapping makes of a state in which no batch is in hand, and of  *)
(* a state between two steps of a batch.                                   *)
LEMMA OutsideBatch ==
    ASSUME pc \notin {"reserve", "activate"}
    PROVE  Chosen = {} /\ Visible = (active \cup parked) \ retained
BY DEF Chosen, Visible

LEMMA InsideBatch ==
    ASSUME BatchFits, pc \in {"reserve", "activate"}
    PROVE  Chosen = Batch /\ Visible = (active \cup parked) \ (retained \cup started)
BY DEF BatchFits, Chosen, Visible

(* Each step of a delivery, seen as a step of SopBatch.                    *)
LEMMA DeliverMaps ==
    ASSUME IInv, NEW m \in Messages, Deliver(m)
    PROVE  Batched!Take(m)
<1>1. pc = "idle" /\ pc' = "admit" /\ up /\ queue[m] = "ready"
  BY DEF Deliver
<1>2. UNCHANGED <<up, Chosen, Visible>>
  BY <1>1, OutsideBatch DEF Deliver, engine, Chosen, Visible
<1>. QED
  BY <1>1, <1>2, StageIs DEF Deliver, Stage, Batched!Take

LEMMA AdmitMaps ==
    ASSUME IInv, RunsFit, NEW cooling \in SUBSET Cooling, Admit(cooling)
    PROVE  Batched!Refuse(msg) \/ Batched!Choose(msg)
<1>1. /\ pc = "admit" /\ up /\ queue[msg] = "out" /\ UNCHANGED <<up, queue>>
      /\ BatchFits /\ todo = {} /\ held = {} /\ started = {} /\ msg \in Messages
  BY DEF IInv, HandFits, BatchFits, Starting, RunsFit, Admit
<1>2. Chosen = {} /\ Visible = (active \cup parked) \ retained /\ Stage = "new"
  BY <1>1, OutsideBatch, StageIs
<1>3. CASE Settles
  <2>1. pc' = "answer" /\ UNCHANGED <<active, parked, retained>>
    BY <1>3 DEF Settles, Admit, engine
  <2>2. Stage' = "done" /\ UNCHANGED <<Chosen, Visible>>
    BY <1>2, <2>1 DEF Stage, Chosen, Visible
  <2>. QED
    BY <1>1, <1>2, <2>2 DEF Batched!Refuse, Batched!InHand
<1>4. CASE Starts
  <2>1. /\ pc' = "reserve" /\ UNCHANGED <<active, parked, retained, held, started>>
        /\ todo' \in SUBSET Match[msg]
    BY <1>4 DEF Starts, Notes, Admit, engine
  <2>2. todo' # {}
    BY <2>1 DEF Admit, Settle
  <2>3. Stage' = "batch" /\ Chosen' = todo' /\ UNCHANGED Visible
    BY <1>1, <1>2, <2>1 DEF Stage, Chosen, Visible, Batch
  <2>. QED
    BY <1>1, <1>2, <2>1, <2>2, <2>3 DEF Batched!Choose, Batched!InHand
<1>. QED
  BY <1>3, <1>4, AdmitKind

LEMMA ReserveMaps ==
    ASSUME IInv, NEW s \in Sops, ReserveRunSlot(s)
    PROVE  UNCHANGED <<up, queue, Stage, Chosen, Visible>>
<1>1. /\ pc = "reserve" /\ pc' \in {"reserve", "activate"} /\ s \in todo /\ started = {}
      /\ BatchFits
  BY DEF IInv, BatchFits, ReserveRunSlot
<1>2. NewRun(s)[2] = s
  BY NewRunIsFree DEF ReserveRunSlot
<1>3. Batch' = Batch
  BY <1>1, <1>2 DEF ReserveRunSlot, Batch
<1>4. UNCHANGED <<up, queue, active, parked, retained, started>>
  BY DEF ReserveRunSlot
<1>. QED
  BY <1>1, <1>3, <1>4 DEF Stage, Chosen, Visible

LEMMA FailMaps ==
    ASSUME IInv, RunsFit, pc \in {"reserve", "activate"}, pc' = "answer", UNCHANGED <<up, queue>>,
           (active' \cup parked') \ retained' = (active \cup parked) \ (retained \cup started)
    PROVE  Batched!GiveUp(msg)
<1>1. up /\ queue[msg] = "out" /\ BatchFits
  BY DEF IInv, HandFits, RunsFit
<1>2. Stage = "batch" /\ Stage' = "done" /\ Chosen' = {}
  BY StageIs DEF Stage, Chosen
<1>3. Visible' = Visible
  BY <1>1, InsideBatch DEF Visible
<1>. QED
  BY <1>1, <1>2, <1>3 DEF Batched!GiveUp, Batched!InHand

LEMMA ActivateMaps ==
    ASSUME IInv, RunsFit, NEW r \in Runs, Activate(r)
    PROVE  Batched!Start(msg) \/ UNCHANGED <<up, queue, Stage, Chosen, Visible>>
<1>1. /\ pc = "activate" /\ r \in held /\ UNCHANGED <<up, queue, msg, todo, retained>>
      /\ active' \cup parked' = active \cup parked \cup {r}
      /\ held' = held \ {r} /\ started' = started \cup {r}
      /\ pc' = IF held' = {} THEN "record" ELSE pc
  BY DEF Activate
<1>2. /\ up /\ msg \in Messages /\ queue[msg] = "out" /\ BatchFits /\ todo = {}
      /\ held \subseteq Runs /\ started \subseteq Runs
  BY <1>1 DEF IInv, TypeOK, HandFits, BatchFits, RunsFit
<1>3. /\ Stage = "batch" /\ Chosen = Batch
      /\ Visible = (active \cup parked) \ (retained \cup started)
  BY <1>1, <1>2, StageIs, InsideBatch
<1>4. r \notin active \cup parked /\ r \notin retained
  BY <1>1 DEF RunsFit
<1>5. CASE held' # {}
  <2>1. pc' = "activate" /\ Batch' = Batch
    BY <1>1, <1>5 DEF Batch
  <2>2. Visible' = Visible
    BY <1>1, <1>3, <1>4, <2>1 DEF Visible
  <2>. QED
    BY <1>1, <1>3, <2>1, <2>2 DEF Stage, Chosen
<1>6. CASE held' = {}
  <2>. DEFINE new == started \cup {r}
  <2>1. new \in SUBSET Runs /\ held \cup started = new
    BY <1>1, <1>2, <1>6
  <2>2. /\ \A q \in new : q[1] = msg
        /\ \A q, p \in new : q[2] = p[2] => q = p
    BY <1>2, <2>1 DEF RunsFit, BatchFits
  <2>3. /\ Chosen \in SUBSET Sops /\ \A q \in new : q[2] \in Chosen
        /\ \A s \in Chosen : \E q \in new : q[2] = s
    BY <1>2, <1>3, <2>1 DEF Batch, Runs
  <2>4. new \cap Visible = {}
    BY <1>3, <1>4
  <2>5. Visible' = Visible \cup new /\ Stage' = "done" /\ Chosen' = {}
    BY <1>1, <1>3, <1>4, <1>6 DEF RunsFit, Stage, Chosen, Visible
  <2>. HIDE DEF new
  <2>. DEFINE run(s) == CHOOSE q \in new : q[2] = s
              id == [s \in Chosen |-> run(s)[3]]
  <2>6. \A s \in Chosen : run(s) \in new /\ run(s)[2] = s
    BY <2>3
  <2>7. \A q \in new : q = <<msg, q[2], q[3]>> /\ q[3] \in 1..Copies
    BY <2>1, <2>2 DEF Runs
  <2>8. id \in [Chosen -> 1..Copies]
    BY <2>6, <2>7
  <2>9. \A s \in Chosen : <<msg, s, id[s]>> = run(s)
    BY <2>6, <2>7
  <2>10. \A q \in new : run(q[2]) = q
    BY <2>2, <2>3, <2>6
  <2>. HIDE DEF run, id
  <2>11. new = {<<msg, s, id[s]>> : s \in Chosen}
    BY <2>3, <2>6, <2>9, <2>10
  <2>. QED
    BY <1>1, <1>2, <1>3, <2>4, <2>5, <2>8, <2>11 DEF Batched!Start, Batched!InHand
<1>. QED
  BY <1>5, <1>6

LEMMA AnswerMaps ==
    ASSUME IInv, RunsFit, Answer \/ ConnectionLost
    PROVE  Batched!Answer(msg)
<1>1. /\ pc = "answer" /\ pc' = "idle" /\ UNCHANGED <<up, active, parked, retained>>
      /\ \E to \in {"ready", "acked"} : queue' = [queue EXCEPT ![msg] = to]
  BY DEF Answer, ConnectionLost, engine
<1>2. up /\ queue[msg] = "out"
  BY <1>1 DEF IInv, HandFits, RunsFit
<1>3. Stage = "done" /\ Stage' = "none" /\ UNCHANGED <<Chosen, Visible>>
  BY <1>1 DEF Stage, Chosen, Visible
<1>. QED
  BY <1>1, <1>2, <1>3 DEF Batched!Answer, Batched!InHand

LEMMA FinishMaps ==
    ASSUME NEW r \in Runs, FinishRun(r)
    PROVE  (r \in Visible /\ Batched!End(r)) \/ UNCHANGED <<up, queue, Stage, Chosen, Visible>>
<1>1. /\ pc \in {"idle", "answer"} /\ up /\ UNCHANGED <<up, queue, pc>>
      /\ active' = active \ {r} /\ parked' = parked \ {r} /\ retained' = retained \ {r}
  BY DEF FinishRun
<1>2. /\ Stage \in {"none", "done"} /\ UNCHANGED <<Stage, Chosen>>
      /\ Visible = (active \cup parked) \ retained
      /\ Visible' = (active' \cup parked') \ retained'
  BY <1>1 DEF Stage, Chosen, Visible
<1>3. Visible' = Visible \ {r}
  BY <1>1, <1>2
<1>. QED
  BY <1>1, <1>2, <1>3 DEF Batched!End

LEMMA CrashMaps ==
    ASSUME Crash
    PROVE  Batched!Die
<1>1. /\ up /\ up' = FALSE /\ pc' = "idle" /\ active' = {} /\ parked' = {}
      /\ queue' = [m \in Messages |-> IF queue[m] = "out" THEN "ready" ELSE queue[m]]
  BY DEF Crash
<1>2. Stage' = "none" /\ Chosen' = {} /\ Visible' = {}
  BY <1>1 DEF Stage, Chosen, Visible
<1>. QED
  BY <1>1, <1>2 DEF Batched!Die

LEMMA RestartMaps ==
    ASSUME IInv, RunsFit, Restart
    PROVE  Batched!Revive
<1>1. /\ ~up /\ up' = TRUE /\ pc = "idle" /\ UNCHANGED <<queue, pc>>
      /\ active' \subseteq Runs /\ parked' \subseteq Runs
  BY DEF Restart, RunsFit, Rows
<1>2. UNCHANGED <<Stage, Chosen>> /\ Visible' \subseteq Runs
  BY <1>1 DEF Stage, Chosen, Visible
<1>3. Batched!Runs = Runs
  BY DEF Batched!Runs, Runs
<1>. QED
  BY <1>1, <1>2, <1>3 DEF Batched!Revive

(* The runs of a delivery come into being as one, whatever fails in        *)
(* between and wherever a crash falls; dispatch implements SopBatch.       *)
THEOREM ImplementsBatch == Spec => IsBatched
<1>1. Init => Batched!Init
  BY DEF Init, Batched!Init, Stage, Chosen, Visible
<1>2. ASSUME IInv, RunsFit, [Next]_vars
      PROVE  [Batched!Next]_(Batched!vars)
  <2>. USE DEF Batched!vars
  <2>0. pc # "idle" => msg \in Messages
    BY <1>2 DEF IInv, HandFits
  <2>1. ASSUME NEW m \in Messages, Deliver(m)
        PROVE  Batched!Next
    BY <1>2, <2>1, DeliverMaps DEF Batched!Next
  <2>2. ASSUME NEW cooling \in SUBSET Cooling, Admit(cooling)
        PROVE  Batched!Next
    BY <1>2, <2>0, <2>2, AdmitMaps DEF Batched!Next, Admit
  <2>3. ASSUME NEW s \in Sops, ReserveRunSlot(s)
        PROVE  UNCHANGED Batched!vars
    BY <1>2, <2>3, ReserveMaps
  <2>4. ASSUME NEW s \in Sops, Shortfall(s)
        PROVE  Batched!Next
    <3>1. /\ pc = "reserve" /\ pc' = "answer"
          /\ UNCHANGED <<up, queue, active, parked, retained>> /\ started = {}
      BY <1>2, <2>4 DEF Shortfall, StartFailed, Settle, IInv, BatchFits
    <3>2. Batched!GiveUp(msg)
      BY <1>2, <3>1, FailMaps
    <3>. QED
      BY <2>0, <3>1, <3>2 DEF Batched!Next
  <2>5. ASSUME NEW r \in Runs, Activate(r)
        PROVE  [Batched!Next]_(Batched!vars)
    BY <1>2, <2>0, <2>5, ActivateMaps DEF Batched!Next, Activate
  <2>6. ASSUME NEW r \in Runs, ActivationFails(r)
        PROVE  Batched!Next
    <3>1. PICK kept \in {{}} \cup {{r} : k \in {"retain"} \cap Faults} :
             /\ active' = (active \ started) \cup kept
             /\ parked' = parked \ started
             /\ retained' = retained \cup kept
      BY <2>6 DEF ActivationFails
    <3>2. /\ pc = "activate" /\ pc' = "answer" /\ UNCHANGED <<up, queue>> /\ r \in held
      BY <2>6 DEF ActivationFails, StartFailed, Settle
    <3>3. r \notin active \cup parked
      BY <1>2, <3>2 DEF RunsFit
    <3>4. (active' \cup parked') \ retained' = (active \cup parked) \ (retained \cup started)
      BY <3>1, <3>3
    <3>5. Batched!GiveUp(msg)
      BY <1>2, <3>2, <3>4, FailMaps
    <3>. QED
      BY <2>0, <3>2, <3>5 DEF Batched!Next
  <2>7. ASSUME NEW r \in Runs, RecordStart(r)
        PROVE  UNCHANGED Batched!vars
    BY <2>7 DEF RecordStart, engine, Stage, Chosen, Visible
  <2>8. CASE Answer \/ ConnectionLost
    BY <1>2, <2>0, <2>8, AnswerMaps DEF Batched!Next, Answer, ConnectionLost
  <2>9. ASSUME NEW r \in Runs, FinishRun(r)
        PROVE  [Batched!Next]_(Batched!vars)
    BY <2>9, FinishMaps DEF Batched!Next
  <2>10. ASSUME NEW r \in Runs, ReapClaim(r)
         PROVE  UNCHANGED Batched!vars
    BY <2>10 DEF ReapClaim, batch, Stage, Chosen, Visible, Batch
  <2>11. CASE Crash
    BY <2>11, CrashMaps DEF Batched!Next
  <2>12. CASE Restart
    BY <1>2, <2>12, RestartMaps DEF Batched!Next
  <2>13. CASE UNCHANGED vars
    BY <2>13 DEF vars, Stage, Chosen, Visible, Batch
  <2>. QED
    BY <1>2, <2>1, <2>2, <2>3, <2>4, <2>5, <2>6, <2>7, <2>8, <2>9, <2>10, <2>11, <2>12, <2>13
       DEF Next
<1>3. Init => RunsFit
  BY DEF Init, RunsFit
<1>4. IInv /\ RunsFit /\ [Next]_vars => RunsFit'
  BY RunsKept
<1>. QED
  BY <1>1, <1>2, <1>3, <1>4, InvariantHolds, PTL DEF Spec, IsBatched, Batched!Spec

=============================================================================
