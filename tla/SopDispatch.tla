----------------------------- MODULE SopDispatch -----------------------------
(***************************************************************************)
(* How a message of a durable AMQP queue starts runs: the two-phase start  *)
(* of sop/dispatch.rs with its rollback, the window that recognises a      *)
(* redelivered message (sop/engine.rs), and the channel that acknowledges  *)
(* or requeues the message (zeroclaw-channels/src/amqp.rs).                *)
(*                                                                         *)
(* The start phase runs under the engine's mutex, so between Admit and the *)
(* answer only a crash can come.  Each store call in it may fail.  Of the  *)
(* engine only what a start sees is kept: a run executes or is parked,     *)
(* owns a claim, and has a row; SopEngine has the rest.  Crashes and       *)
(* failures are drawn from a budget, so that in the end they stop.         *)
(***************************************************************************)
EXTENDS Naturals, FiniteSets, Sequences

CONSTANTS
    Messages,       \* what publishers put into the queue
    NoMessage,      \* nothing is being handled
    Key,            \* the message id of each message
    Sops,           \* loaded SOPs
    Match,          \* the SOPs whose trigger matches each message
    Gated,          \* the SOPs that park at their first step
    Cooling,        \* the SOPs with a cooldown
    Policy,         \* admission policy of each SOP
    MaxConcurrent,  \* max_concurrent of each SOP
    MaxPending,     \* max_pending_approvals of each SOP (0: no bound)
    MaxTotal,       \* max_concurrent_total
    WindowCap,      \* DISPATCH_DEDUP_CAP
    Faults,         \* what may fail
    MaxFaults,      \* bound: how often something fails
    Copies          \* bound: runs of one SOP for one message that live at a time

ASSUME DispatchConstants ==
    /\ NoMessage \notin Messages /\ IsFiniteSet(Sops)
    /\ Match \in [Messages -> SUBSET Sops]
    /\ Gated \subseteq Sops /\ Cooling \subseteq Sops
    /\ Policy \in [Sops -> {"Parallel", "Hold", "Coalesce", "Drop"}]
    /\ MaxConcurrent \in [Sops -> Nat] /\ MaxPending \in [Sops -> Nat]
    /\ Faults \subseteq {"claim", "save", "activate", "retain", "cancel", "connection", "crash"}
    /\ {MaxTotal, WindowCap, MaxFaults, Copies} \subseteq Nat

VARIABLES
    up,         \* the daemon runs
    queue,      \* the broker's state of each message
    delivered,  \* the messages delivered before (the redelivered flag)
    active,     \* executing runs in memory
    parked,     \* parked runs in memory
    row,        \* the run's row in the store
    claims,     \* the runs that own an admission claim
    retained,   \* runs that did not start and whose end could not be written
    window,     \* dispatch_dedup, oldest first
    pc,         \* where the handling of a delivery stands
    msg,        \* the message being handled
    todo,       \* SOPs still to reserve
    held,       \* reservations not yet activated
    started,    \* runs activated, not yet recorded
    result,     \* the result of each SOP for this delivery
    verdict,    \* ghost: the last result of each SOP for each message
    count,      \* ghost: how often each message started each SOP
    missed,     \* ghost: the window was lost or has dropped an entry
    budget      \* failures left

vars == <<up, queue, delivered, active, parked, row, claims, retained, window,
          pc, msg, todo, held, started, result, verdict, count, missed, budget>>

engine   == <<active, parked, row, claims, retained>>
batch    == <<todo, held, started>>
ghosts   == <<verdict, count, missed>>

Runs == Messages \X Sops \X (1..Copies)
OfSop(s) == {r \in Runs : r[2] = s}

Results == {"none", "started", "coalesced", "deferred", "dropped", "failed"}
NoResult == [s \in Sops |-> "none"]

Init ==
    /\ up = TRUE
    /\ queue = [m \in Messages |-> "ready"]
    /\ delivered = {}
    /\ active = {} /\ parked = {} /\ claims = {} /\ retained = {}
    /\ row = [r \in Runs |-> "none"]
    /\ window = <<>>
    /\ pc = "idle" /\ msg = NoMessage
    /\ todo = {} /\ held = {} /\ started = {}
    /\ result = NoResult
    /\ verdict = [m \in Messages |-> NoResult]
    /\ count = [m \in Messages |-> [s \in Sops |-> 0]]
    /\ missed = FALSE
    /\ budget = MaxFaults

Rows(status) == {r \in Runs : row[r] = status}
LiveRows == {r \in Runs : row[r] # "none"}
IsBatch == Cardinality(Match[msg]) > 1

(* Something fails: possible as long as the budget lasts.                  *)
Fault(kind) == kind \in Faults /\ budget > 0 /\ budget' = budget - 1
NoFault == UNCHANGED budget

-----------------------------------------------------------------------------
(* evaluate_admission.  The counts are those of the store.                 *)

SlotFree(s) == /\ Cardinality(claims \cap OfSop(s)) < MaxConcurrent[s]
               /\ Cardinality(claims) < MaxTotal
PoolIsFull(s) == /\ MaxPending[s] > 0
                 /\ Cardinality(Rows("parked") \cap OfSop(s)) >= MaxPending[s]
NothingInFlight(s) == (claims \cup Rows("parked")) \cap OfSop(s) = {}

(* What stands in the way of a start: what no redelivery would change is   *)
(* dropped, what may pass is deferred.                                     *)
Evaluate(s, cooling) ==
    LET serial == Policy[s] \in {"Hold", "Coalesce"} IN
    IF s \in cooling THEN "dropped"
    ELSE IF PoolIsFull(s) THEN IF Policy[s] = "Drop" THEN "dropped" ELSE "deferred"
    ELSE IF SlotFree(s) /\ (serial => NothingInFlight(s)) THEN "admit"
    ELSE IF Policy[s] = "Coalesce" /\ LiveRows \cap OfSop(s) # {} THEN "coalesced"
    ELSE IF Policy[s] = "Drop" THEN "dropped" ELSE "deferred"

-----------------------------------------------------------------------------
(* dispatch_dedup: an entry holds a key and an SOP, and is clear as long   *)
(* as one message only is known to use them.                               *)

EntryOf(m, s) == {i \in DOMAIN window : window[i].key = Key[m] /\ window[i].sop = s}

Recognised(m, s) == \E i \in EntryOf(m, s) : window[i].clear

(* note_fresh_dispatch_key, for every SOP the message matches              *)
Blur(m) == [i \in DOMAIN window |->
              IF window[i].key = Key[m] /\ window[i].sop \in Match[m]
              THEN [window[i] EXCEPT !.clear = FALSE] ELSE window[i]]

(* Mutant: the start is not remembered.                                    *)
RememberNothing(m, s) == window

(* record_dispatch_dedup, before the window is cut to its size             *)
Remember(m, s) ==
    IF EntryOf(m, s) = {} THEN Append(window, [key |-> Key[m], sop |-> s, clear |-> TRUE])
    ELSE [i \in DOMAIN window |->
            IF i \in EntryOf(m, s) THEN [window[i] EXCEPT !.clear = FALSE] ELSE window[i]]

-----------------------------------------------------------------------------
(* The broker hands over a message.                                        *)
Deliver(m) ==
    /\ up /\ pc = "idle" /\ queue[m] = "ready"
    /\ queue' = [queue EXCEPT ![m] = "out"]
    /\ pc' = "admit" /\ msg' = m
    /\ UNCHANGED <<up, delivered, engine, window, todo, held, started, result, ghosts, budget>>

(* The results a delivery is answered with when nothing is started now.    *)
Settle(res) ==
    /\ result' = res
    /\ verdict' = [verdict EXCEPT ![msg] = [s \in Sops |->
                     IF res[s] = "none" THEN @[s] ELSE res[s]]]
    /\ pc' = "answer"

(* A redelivered message is folded into the runs it has started already;   *)
(* the other SOPs are evaluated together.  If one of them is to be         *)
(* deferred the whole delivery is; a fan-out beyond max_concurrent_total   *)
(* could never be started and is dropped.                                  *)
Admit(cooling) ==
    /\ pc = "admit" /\ cooling \subseteq Cooling
    /\ delivered' = delivered \cup {msg}
    /\ window' = IF msg \in delivered THEN window ELSE Blur(msg)
    /\ LET known == {s \in Match[msg] : msg \in delivered /\ Recognised(msg, s)}
           cands == Match[msg] \ known
           eval(s) == Evaluate(s, cooling)
           defers == \E s \in cands : eval(s) = "deferred"
           admits == {s \in cands : eval(s) = "admit"}
           large  == IsBatch /\ Cardinality(admits) > MaxTotal
           res == [s \in Sops |->
                     IF s \in known THEN "coalesced"
                     ELSE IF s \notin cands THEN "none"
                     ELSE IF s \notin admits THEN eval(s)
                     ELSE IF defers THEN "deferred"
                     ELSE IF large THEN "dropped" ELSE "none"]
       IN IF defers \/ large \/ admits = {}
          THEN Settle(res) /\ UNCHANGED todo
          ELSE /\ result' = res /\ todo' = admits /\ pc' = "reserve"
               /\ verdict' = [verdict EXCEPT ![msg] = [s \in Sops |->
                                IF res[s] = "none" THEN @[s] ELSE res[s]]]
    /\ UNCHANGED <<up, queue, engine, msg, held, started, count, missed, budget>>

(* Mutants: each SOP of a failed batch is answered by itself; what had     *)
(* been activated counts as started although it was rolled back.           *)
StartFailedEach(names, again) ==
    /\ Settle([s \in Sops |-> IF s \in names THEN again ELSE result[s]])
    /\ todo' = {} /\ held' = {} /\ started' = {}
StartFailedInPart(names, again) ==
    /\ Settle([s \in Sops |-> IF s \notin names THEN result[s]
                              ELSE IF \E r \in started : r[2] = s THEN "started"
                              ELSE IF IsBatch THEN "deferred" ELSE again])
    /\ todo' = {} /\ held' = {} /\ started' = {}

(* A failed start: a batch is deferred as a whole; a single start is       *)
(* evaluated again, and what is not deferred or folded has failed.         *)
StartFailed(names, again) ==
    /\ Settle([s \in Sops |-> IF s \notin names THEN result[s]
                              ELSE IF IsBatch THEN "deferred" ELSE again])
    /\ todo' = {} /\ held' = {} /\ started' = {}

Again(s) == LET a == Evaluate(s, {}) IN
            IF a \in {"deferred", "coalesced"} THEN a ELSE "failed"

(* The runs of this message and SOP that nothing knows of; which of them a *)
(* start gets makes no difference.                                         *)
FreeIds(s) == {r \in OfSop(s) : /\ r[1] = msg /\ row[r] = "none"
                                /\ r \notin active \cup parked \cup claims}
NewRun(s) == CHOOSE r \in FreeIds(s) : TRUE
Batch == todo \cup {r[2] : r \in held \cup started}

(* reserve_run_slot evaluates the SOP again and takes the claim.           *)
ReserveRunSlot(s) ==
    /\ pc = "reserve" /\ s \in todo
    /\ Evaluate(s, {}) = "admit"
    /\ FreeIds(s) # {}
    /\ claims' = claims \cup {NewRun(s)}
    /\ held' = held \cup {NewRun(s)}
    /\ todo' = todo \ {s}
    /\ pc' = IF todo' = {} THEN "activate" ELSE pc
    /\ NoFault
    /\ UNCHANGED <<up, queue, delivered, active, parked, row, retained, window, msg,
                   started, result, ghosts>>

(* Mutant: the reservations stay.                                          *)
ShortfallKeeping(s) ==
    /\ pc = "reserve" /\ s \in todo
    /\ IF Evaluate(s, {}) = "admit" THEN Fault("claim") ELSE NoFault
    /\ StartFailed(Batch, Again(s))
    /\ UNCHANGED <<up, queue, delivered, engine, window, msg, count, missed>>

(* No slot is left for s, or the claim could not be written: what has been *)
(* reserved is given back.                                                 *)
Shortfall(s) ==
    /\ pc = "reserve" /\ s \in todo
    /\ IF Evaluate(s, {}) = "admit" THEN Fault("claim") ELSE NoFault
    /\ claims' = claims \ held
    /\ StartFailed(Batch, Again(s))
    /\ UNCHANGED <<up, queue, delivered, active, parked, row, retained, window, msg,
                   count, missed>>

(* activate_reserved_run: an executing run saves its row if it can; a run  *)
(* that parks gives its claim back once its row is saved.                  *)
Activate(r) ==
    /\ pc = "activate" /\ r \in held
    /\ \E saved \in BOOLEAN :
         /\ IF saved THEN NoFault ELSE Fault("save")
         /\ IF r[2] \in Gated
            THEN /\ parked' = parked \cup {r} /\ UNCHANGED active
                 /\ row' = IF saved THEN [row EXCEPT ![r] = "parked"] ELSE row
                 /\ claims' = IF saved THEN claims \ {r} ELSE claims
            ELSE /\ active' = active \cup {r} /\ UNCHANGED <<parked, claims>>
                 /\ row' = IF saved THEN [row EXCEPT ![r] = "running"] ELSE row
    /\ held' = held \ {r}
    /\ started' = started \cup {r}
    /\ pc' = IF held' = {} THEN "record" ELSE pc
    /\ UNCHANGED <<up, queue, delivered, retained, window, msg, todo, result, ghosts>>

(* Mutant: what has been activated before stays.                           *)
ActivationFailsAlone(r) ==
    /\ pc = "activate" /\ r \in held
    /\ Fault("activate")
    /\ claims' = claims \ held
    /\ StartFailed(Batch, Again(r[2]))
    /\ UNCHANGED <<up, queue, delivered, active, parked, row, retained, window, msg,
                   count, missed>>

(* The first step cannot be dispatched.  The run is gone, unless a         *)
(* terminal write failed and keeps it with its claim (retained).  The      *)
(* runs of the batch that were activated are rolled back: executing ones   *)
(* leave memory and give their claim back, parked ones are cancelled in    *)
(* the store, if that write succeeds.                                      *)
ActivationFails(r) ==
    /\ pc = "activate" /\ r \in held
    /\ Fault("activate")
    /\ \E kept \in {{}} \cup {{r} : k \in {"retain"} \cap Faults},
          uncancelled \in {{}} \cup {started \cap parked : k \in {"cancel"} \cap Faults} :
         /\ active' = (active \ started) \cup kept
         /\ parked' = parked \ started
         /\ claims' = (claims \ (held \cup (started \cap active))) \cup kept
         /\ retained' = retained \cup kept
         /\ row' = [q \in Runs |-> IF q \in (started \cap parked) \ uncancelled
                                   THEN "none" ELSE row[q]]
    /\ StartFailed(Batch, Again(r[2]))
    /\ UNCHANGED <<up, queue, delivered, window, msg, count, missed>>

(* record_started_run and remember_dispatch_start                          *)
RecordStart(r) ==
    /\ pc = "record" /\ r \in started
    /\ LET longer == Remember(msg, r[2])
           cut == Len(longer) > WindowCap
       IN /\ window' = IF cut THEN Tail(longer) ELSE longer
          /\ missed' = (missed \/ cut)
    /\ started' = started \ {r}
    /\ result' = [result EXCEPT ![r[2]] = "started"]
    /\ verdict' = [verdict EXCEPT ![msg][r[2]] = "started"]
    /\ count' = [count EXCEPT ![msg][r[2]] = IF @ < 2 THEN @ + 1 ELSE @]
    /\ pc' = IF started' = {} THEN "answer" ELSE pc
    /\ UNCHANGED <<up, queue, delivered, engine, msg, todo, held, budget>>

(* Mutant: what a cooldown dropped is requeued as well.                    *)
NeedsRedeliveryAnyway(res) ==
    /\ \E s \in Sops : res[s] \in {"deferred", "dropped"}
    /\ \A s \in Sops : res[s] # "started"

(* results_need_redelivery: requeue what was deferred, unless something    *)
(* has started.                                                            *)
NeedsRedelivery(res) ==
    /\ \E s \in Sops : res[s] = "deferred"
    /\ \A s \in Sops : res[s] # "started"

Answer ==
    /\ pc = "answer"
    /\ queue' = [queue EXCEPT ![msg] = IF NeedsRedelivery(result) THEN "ready" ELSE "acked"]
    /\ pc' = "idle" /\ msg' = NoMessage /\ result' = NoResult
    /\ UNCHANGED <<up, delivered, engine, window, batch, ghosts, budget>>

(* The connection breaks before the answer: the broker takes the message   *)
(* for undelivered.                                                        *)
ConnectionLost ==
    /\ pc = "answer"
    /\ Fault("connection")
    /\ queue' = [queue EXCEPT ![msg] = "ready"]
    /\ pc' = "idle" /\ msg' = NoMessage /\ result' = NoResult
    /\ UNCHANGED <<up, delivered, engine, window, batch, ghosts>>

-----------------------------------------------------------------------------
(* What the rest of the engine does to the runs.                           *)

FinishRun(r) ==
    /\ up /\ pc \in {"idle", "answer"} /\ r \in active \cup parked
    /\ active' = active \ {r} /\ parked' = parked \ {r}
    /\ claims' = claims \ {r} /\ retained' = retained \ {r}
    /\ row' = [row EXCEPT ![r] = "none"]
    /\ UNCHANGED <<up, queue, delivered, window, pc, msg, batch, result, ghosts, budget>>

(* A claim that no run of this process renews runs out.                    *)
ReapClaim(r) ==
    /\ up /\ pc \in {"idle", "answer"} /\ r \in claims \ (active \cup parked)
    /\ claims' = claims \ {r}
    /\ UNCHANGED <<up, queue, delivered, active, parked, row, retained, window, pc, msg,
                   batch, result, ghosts, budget>>

Crash ==
    /\ up /\ Fault("crash")
    /\ up' = FALSE
    /\ active' = {} /\ parked' = {} /\ retained' = {} /\ window' = <<>>
    /\ queue' = [m \in Messages |-> IF queue[m] = "out" THEN "ready" ELSE queue[m]]
    /\ delivered' = IF pc = "idle" THEN delivered ELSE delivered \cup {msg}
    /\ pc' = "idle" /\ msg' = NoMessage /\ todo' = {} /\ held' = {} /\ started' = {}
    /\ result' = NoResult
    /\ missed' = TRUE
    /\ UNCHANGED <<row, claims, verdict, count>>

(* restore_runs: rows become runs, executing ones with their claims.       *)
Restart ==
    /\ ~up
    /\ up' = TRUE
    /\ active' = Rows("running") /\ parked' = Rows("parked")
    /\ claims' = claims \cup Rows("running")
    /\ UNCHANGED <<queue, delivered, row, retained, window, pc, msg, batch, result, ghosts, budget>>

Next ==
    \/ \E m \in Messages : Deliver(m)
    \/ \E cooling \in SUBSET Cooling : Admit(cooling)
    \/ \E s \in Sops : ReserveRunSlot(s) \/ Shortfall(s)
    \/ \E r \in Runs : Activate(r) \/ ActivationFails(r) \/ RecordStart(r)
    \/ Answer \/ ConnectionLost
    \/ \E r \in Runs : FinishRun(r) \/ ReapClaim(r)
    \/ Crash \/ Restart

Spec == Init /\ [][Next]_vars

(* The broker goes on delivering what is ready, a delivery that was begun  *)
(* is handled to its end, runs end (parked ones by their timeout or a      *)
(* decision), leases nobody renews run out, and a dead daemon is started   *)
(* again.                                                                  *)
Handling == \/ \E cooling \in SUBSET Cooling : Admit(cooling)
            \/ \E s \in Sops : ReserveRunSlot(s) \/ Shortfall(s)
            \/ \E r \in Runs : Activate(r) \/ RecordStart(r)
            \/ Answer

Fairness ==
    /\ \A m \in Messages : SF_vars(Deliver(m))
    /\ WF_vars(Handling) /\ WF_vars(Restart)
    /\ SF_vars(\E r \in Runs : FinishRun(r)) /\ SF_vars(\E r \in Runs : ReapClaim(r))

FairSpec == Spec /\ Fairness

-----------------------------------------------------------------------------
TypeOK ==
    /\ up \in BOOLEAN /\ missed \in BOOLEAN
    /\ queue \in [Messages -> {"ready", "out", "acked"}]
    /\ delivered \subseteq Messages /\ msg \in Messages \cup {NoMessage}
    /\ (msg = NoMessage) = (pc = "idle")
    /\ active \subseteq Runs /\ parked \subseteq Runs /\ claims \subseteq Runs
    /\ retained \subseteq Runs
    /\ row \in [Runs -> {"none", "running", "parked"}]
    /\ pc \in {"idle", "admit", "reserve", "activate", "record", "answer"}
    /\ todo \subseteq Sops /\ held \subseteq Runs /\ started \subseteq Runs
    /\ window \in Seq([key : {Key[m] : m \in Messages}, sop : Sops, clear : BOOLEAN])
    /\ result \in [Sops -> Results]
    /\ verdict \in [Messages -> [Sops -> Results]]
    /\ count \in [Messages -> [Sops -> 0..2]]
    /\ budget \in 0..MaxFaults

(* A message is acknowledged only when each SOP it matches has had its     *)
(* answer: a run, a run it was folded into, or a refusal that redelivering *)
(* would not change.  A start that failed is such a refusal only when no   *)
(* other SOP matched.                                                      *)
AckedIsSettled ==
    \A m \in Messages : queue[m] = "acked" =>
        \A s \in Match[m] :
            \/ verdict[m][s] \in {"started", "coalesced", "dropped"}
            \/ verdict[m][s] = "failed" /\ Match[m] = {s}

(* One message starts an SOP once, however often it is delivered, as long  *)
(* as the window was neither lost in a crash nor too small.                *)
StartedOnce ==
    ~missed => \A m \in Messages, s \in Sops : count[m][s] <= 1

(* A delivery that goes back to the broker has started nothing, and one    *)
(* that has started something starts all it admitted.                      *)
AllOrNothing ==
    pc = "answer" => ~(\E s, t \in Sops : result[s] = "started"
                                          /\ result[t] \in {"deferred", "failed"})

(* The runs of a delivery come into being as one: while they are activated *)
(* one by one nobody sees them, and no failure leaves some of them.  A run *)
(* that is only kept because its end could not be written is not counted.  *)
Stage == CASE pc = "idle"  -> "none" [] pc = "admit" -> "new"
           [] pc \in {"reserve", "activate"} -> "batch"
           [] pc \in {"record", "answer"}    -> "done"
Chosen  == IF pc \in {"reserve", "activate"} THEN Batch ELSE {}
Visible == (active \cup parked) \ (retained \cup IF pc = "activate" THEN started ELSE {})
Batched   == INSTANCE SopBatch WITH stage <- Stage, chosen <- Chosen, live <- Visible
IsBatched == Batched!Spec

(* Between deliveries every claim belongs to a run in memory: reservations *)
(* and rolled-back starts leave none behind.  After a crash the claims of  *)
(* the lost starts remain until they run out, and so does that of a park   *)
(* whose row could not be written and that is rolled back.                 *)
NoClaimLeaks ==
    up /\ pc \in {"idle", "answer"} /\ ~missed =>
        \A r \in claims : r \in active \cup parked \/ r[2] \in Gated

(* Every message is acknowledged in the end: no sequence of refusals,      *)
(* requeues and restarts goes round for ever.                              *)
EveryMessageIsAcked == \A m \in Messages : <>(queue[m] = "acked")

(* Does not hold: the rollback of an executing run leaves no row behind    *)
(* that a restart would bring back.  engine.rs takes such a run for one    *)
(* that was never saved, but its activation has saved it.                  *)
RolledBackLeavesNoRow ==
    up /\ pc = "idle" => Rows("running") \subseteq active
=============================================================================
