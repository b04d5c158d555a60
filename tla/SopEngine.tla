------------------------------ MODULE SopEngine ------------------------------
(***************************************************************************)
(* The run lifecycle of the SOP engine (sop/engine.rs) together with the   *)
(* durable run store it writes to (sop/store).                             *)
(*                                                                         *)
(* A run executes the steps of its SOP while holding an admission claim.   *)
(* At a gated step it parks for a human decision: the snapshot is saved,   *)
(* then the claim is given back, so that another run may use the slot.     *)
(* A decision takes a claim again.  Any store call may fail, the process   *)
(* may crash at any point, and a restart rebuilds the engine's memory from *)
(* the store.                                                              *)
(*                                                                         *)
(* Every public method runs under the engine mutex, so one action is one   *)
(* method call.  The maintenance tick is the exception: it is one call     *)
(* that loops over runs, and it is cut into one action per iteration with  *)
(* "phase" and "todo" as its program counter; nothing but a crash can      *)
(* happen between two of them.                                             *)
(*                                                                         *)
(* Abstractions: which step the router picks is any step (the router is a  *)
(* component of its own); a step's data, the timestamps, the gate's        *)
(* presentation counter and the notices are left out; finished_runs, which *)
(* nothing here reads, is not kept.                                        *)
(***************************************************************************)
EXTENDS Naturals, FiniteSets

CONSTANTS
    Runs,           \* run ids; a pruned id stands for a fresh one
    Sops,           \* loaded SOP definitions
    SopOf,          \* the SOP each run id is started for
    Steps,          \* step numbers, 1 is the first
    Gated,          \* per SOP, the steps that wait for a human
    Deterministic,  \* the SOPs whose gates are checkpoints (state file written)
    Policy,         \* per SOP, its SopAdmissionPolicy
    MaxConcurrent,  \* per SOP, max_concurrent
    MaxTotal,       \* config.max_concurrent_total
    MaxPending,     \* per SOP, max_pending_approvals (0: unbounded)
    MaxFinished,    \* config.max_finished_runs (0: unbounded)
    Faults          \* the kinds of store and file calls that may fail

FaultKinds == {"save", "finish", "renew", "mark", "release",
               "read", "load", "beat", "file"}

ASSUME ConstantsOK ==
    /\ IsFiniteSet(Runs)
    /\ SopOf \in [Runs -> Sops]
    /\ Steps \subseteq Nat /\ 1 \in Steps
    /\ Gated \in [Sops -> SUBSET Steps]
    /\ Deterministic \subseteq Sops
    /\ Policy \in [Sops -> {"Parallel", "Hold", "Coalesce", "Drop"}]
    /\ MaxConcurrent \in [Sops -> Nat]
    /\ MaxTotal \in Nat
    /\ MaxPending \in [Sops -> Nat]
    /\ MaxFinished \in Nat
    /\ Faults \subseteq FaultKinds

VARIABLES
    up,       \* the process is running
    mem,      \* active_runs: the engine's snapshot of each run
    unsaved,  \* claims_pending_persist
    keep,     \* claims_retained_after_terminal_rollback
    disk,     \* the store's row of each run
    claim,    \* the store's admission claims
    phase,    \* where the maintenance tick stands, "idle" outside a tick
    todo,     \* the runs its current loop has still to visit
    renewed   \* the runs whose lease this tick has renewed

store   == <<disk, claim>>
tracked == <<unsaved, keep>>
tick    == <<phase, todo, renewed>>
vars    == <<up, mem, unsaved, keep, disk, claim, phase, todo, renewed>>

Parked    == {"WaitingApproval", "PausedCheckpoint"}
Executing == {"Running", "Pending"}          \* holds_exec_claim
Terminal  == {"Completed", "Failed", "Cancelled"}

(* A run snapshot.  "seen" are the steps with a recorded result; "gate" is *)
(* the decision on the gate of the current step since the run arrived      *)
(* there (its gate_resolved event commits with the snapshot).              *)
Snapshots == [status : {"none"} \cup Executing \cup Parked \cup Terminal,
              step : Steps, seen : SUBSET Steps, gate : {"open", "approved", "denied"}]

None  == [status |-> "none", step |-> 1, seen |-> {}, gate |-> "open"]
Fresh == [None EXCEPT !.status = "Running"]

Init ==
    /\ up = TRUE
    /\ mem = [r \in Runs |-> None]
    /\ disk = [r \in Runs |-> None]
    /\ claim = [r \in Runs |-> "free"]
    /\ unsaved = {} /\ keep = {}
    /\ phase = "idle" /\ todo = {} /\ renewed = {}

Fails(kind) == kind \in Faults
GatedAt(r, n) == n \in Gated[SopOf[r]]
ParkStatus(r) == IF SopOf[r] \in Deterministic THEN "PausedCheckpoint"
                                               ELSE "WaitingApproval"

----------------------------------------------------------------------------
(* What the engine counts.                                                 *)

Rows(t, statuses) == {r \in Runs : t[r].status \in statuses}
Of(s)           == {r \in Runs : SopOf[r] = s}
Held(c)         == {r \in Runs : c[r] # "free"}
HeldFor(s, c)   == Held(c) \cap Of(s)
ParkedIn(t, s)  == Rows(t, Parked) \cap Of(s)
ExecutingNow(s) == Rows(mem, Executing) \cap Of(s)

(* exec_counts and pending_count_for_sop read the store and fall back to   *)
(* the engine's own runs when the read fails.                              *)
ExecCounts(s) ==
    {<<Cardinality(HeldFor(s, claim)), Cardinality(Held(claim))>>} \cup
    IF Fails("read")
    THEN {<<Cardinality(ExecutingNow(s)),
            Cardinality(Rows(mem, Executing))>>}
    ELSE {}

PendingCounts(s, t) ==
    {Cardinality(ParkedIn(t, s))} \cup
    IF Fails("read") THEN {Cardinality(ParkedIn(mem, s))} ELSE {}

(* Mutant: the pool is full one place too late.                            *)
PoolFullLate(s, n) == MaxPending[s] > 0 /\ n > MaxPending[s]

(* The SOP's pool of parked runs is full; 0 stands for no bound.           *)
PoolFull(s, n) == MaxPending[s] > 0 /\ n >= MaxPending[s]

(* Mutants: parked runs left out of Hold; a claim granted without a look   *)
(* at the caps; a save that lets one parked row too many in.               *)
AdmitsIgnoringParked(s, exec, pending) ==
    /\ exec[1] < MaxConcurrent[s] /\ exec[2] < MaxTotal
    /\ ~PoolFull(s, pending)
    /\ Policy[s] \in {"Hold", "Coalesce"} => exec[1] = 0
CanClaimUncapped(r, c) == c[r] = "free"
PoolHasRoomForOneMore(r, t) ==
    MaxPending[SopOf[r]] > 0 =>
        Cardinality(ParkedIn(t, SopOf[r]) \ {r}) <= MaxPending[SopOf[r]]

(* A start is admitted: caps, pool, and for Hold and Coalesce nothing in   *)
(* flight.                                                                 *)
Admits(s, exec, pending) ==
    /\ exec[1] < MaxConcurrent[s] /\ exec[2] < MaxTotal
    /\ ~PoolFull(s, pending)
    /\ Policy[s] \in {"Hold", "Coalesce"} => exec[1] + pending = 0

(* try_claim_run grants a claim: none of its own yet, both caps respected. *)
CanClaim(r, c) ==
    /\ c[r] = "free"
    /\ Cardinality(HeldFor(SopOf[r], c)) < MaxConcurrent[SopOf[r]]
    /\ Cardinality(Held(c)) < MaxTotal

(* save_run_with_pending_capacity lets a parked row in.                    *)
PoolHasRoom(r, t) ==
    MaxPending[SopOf[r]] > 0 =>
        Cardinality(ParkedIn(t, SopOf[r]) \ {r}) < MaxPending[SopOf[r]]

----------------------------------------------------------------------------
(* Pieces of a method.  t and c are the rows and the claims as they stand  *)
(* when the piece begins; a piece fixes the engine's and the store's next  *)
(* state for run r.                                                        *)

Released(r, c) == {[c EXCEPT ![r] = "free"]} \cup
                  (IF Fails("release") THEN {c} ELSE {})
Saved(r, s, t) == {[t EXCEPT ![r] = s]} \cup
                  (IF Fails("save") THEN {t} ELSE {})

(* persist_active: best effort, the claim stays.                           *)
Carry(r, s, t, c) ==
    /\ mem' = [mem EXCEPT ![r] = s]
    /\ disk' \in Saved(r, s, t)
    /\ claim' = c
    /\ UNCHANGED tracked

(* mark_step_pending *)
Defer(r, s, t, c) ==
    Carry(r, [s EXCEPT !.status = "Pending", !.seen = @ \cup {s.step}], t, c)

(* Mutant: the claim is given back although the snapshot was not saved.    *)
ParkReleasingFirst(r, s, t, c) ==
    \/ /\ PoolHasRoom(r, t)
       /\ mem' = [mem EXCEPT ![r] = s]
       /\ disk' \in Saved(r, s, t)
       /\ claim' \in Released(r, c)
       /\ unsaved' = unsaved \ {r}
       /\ UNCHANGED keep
    \/ /\ ~PoolHasRoom(r, t)
       /\ Defer(r, s, t, c)

(* persist_parked_snapshot_then_release_claim, and what its callers do when *)
(* the pool turns out to be full.                                           *)
Park(r, s, t, c) ==
    \/ /\ PoolHasRoom(r, t)
       /\ mem' = [mem EXCEPT ![r] = s]
       /\ disk' = [t EXCEPT ![r] = s]
       /\ claim' \in Released(r, c)
       /\ unsaved' = unsaved \ {r}
       /\ UNCHANGED keep
    \/ /\ ~PoolHasRoom(r, t)
       /\ Defer(r, s, t, c)
    \/ /\ Fails("save")
       /\ mem' = [mem EXCEPT ![r] = s]
       /\ disk' = t /\ claim' = c
       /\ unsaved' = unsaved \cup {r}
       /\ UNCHANGED keep

(* Mutants: the run leaves memory although its terminal write failed; the  *)
(* run stays in memory although it was written.                            *)
FinishForgetting(r, s, outcome, t, c, back) ==
    /\ mem' = [mem EXCEPT ![r] = None]
    /\ disk' \in {[t EXCEPT ![r] = [s EXCEPT !.status = outcome]]} \cup
                 (IF Fails("finish") THEN {t} ELSE {})
    /\ claim' = [c EXCEPT ![r] = "free"]
    /\ unsaved' = unsaved \ {r} /\ keep' = keep \ {r}
FinishKeepingRun(r, s, outcome, t, c, back) ==
    /\ mem' = [mem EXCEPT ![r] = s]
    /\ disk' = [t EXCEPT ![r] = [s EXCEPT !.status = outcome]]
    /\ claim' = [c EXCEPT ![r] = "free"]
    /\ unsaved' = unsaved \ {r} /\ keep' = keep \ {r}

(* finish_run and finish_run_with_gate_event.  When the terminal write     *)
(* fails the claim is released all the same and the run stays active; the  *)
(* caller leaves it as "back".                                             *)
Finish(r, s, outcome, t, c, back) ==
    \/ /\ mem' = [mem EXCEPT ![r] = None]
       /\ disk' = [t EXCEPT ![r] = [s EXCEPT !.status = outcome]]
       /\ claim' = [c EXCEPT ![r] = "free"]
       /\ unsaved' = unsaved \ {r} /\ keep' = keep \ {r}
    \/ /\ Fails("finish")
       /\ mem' = [mem EXCEPT ![r] = back]
       /\ disk' = t
       /\ claim' \in Released(r, c)
       /\ UNCHANGED tracked

(* Mutant: at a full pool the gated step runs instead of waiting.          *)
DispatchPastFullPool(r, s, n, t, c) ==
    LET at == [s EXCEPT !.status = "Running", !.step = n, !.gate = "open"]
    IN  IF GatedAt(r, n) /\ ~PoolFull(SopOf[r], Cardinality(ParkedIn(t, SopOf[r])))
        THEN Park(r, [at EXCEPT !.status = ParkStatus(r)], t, c)
        ELSE Carry(r, at, t, c)

(* dispatch_llm_step and dispatch_deterministic_step up to the state file. *)
Dispatch(r, s, n, t, c) ==
    LET at == [s EXCEPT !.status = "Running", !.step = n, !.gate = "open"]
    IN  \/ Finish(r, s, "Failed", t, c, s)           \* visit bound
        \/ Finish(r, at, "Failed", t, c, at)         \* input schema
        \/ Defer(r, at, t, c)                        \* dependencies
        \/ /\ ~GatedAt(r, n)
           /\ Carry(r, at, t, c)
        \/ /\ GatedAt(r, n)
           /\ \E pending \in PendingCounts(SopOf[r], t) :
                IF PoolFull(SopOf[r], pending)
                THEN Defer(r, at, t, c)
                ELSE Park(r, [at EXCEPT !.status = ParkStatus(r)], t, c)

(* The state file of a checkpoint cannot be written: the error leaves the  *)
(* run Running at the checkpoint, nothing persisted.                       *)
StateFileFails(r, s, n, t, c) ==
    /\ Fails("file")
    /\ SopOf[r] \in Deterministic /\ GatedAt(r, n)
    /\ mem' = [mem EXCEPT ![r] = [s EXCEPT !.status = "Running", !.step = n,
                                           !.gate = "open"]]
    /\ disk' = t /\ claim' = c
    /\ UNCHANGED tracked

(* The step to go on with is not in the definition any more (reload): the  *)
(* error leaves the recorded result in memory only.                        *)
StepGone(r, s, t, c) ==
    /\ mem' = [mem EXCEPT ![r] = s]
    /\ disk' = t /\ claim' = c
    /\ UNCHANGED tracked

(* apply_route_decision: on to a step, a retry or a wait.                  *)
GoOn(r, s, t, c, good) ==
    \/ \E n \in Steps : \/ Dispatch(r, s, n, t, c)
                        \/ StateFileFails(r, s, n, t, c)
                        \/ good /\ Defer(r, [s EXCEPT !.step = n, !.gate = "open"], t, c)

(* route_recorded_step, for every decision the router can hand back.       *)
Route(r, s, t, c, good) ==
    \/ GoOn(r, s, t, c, good) \/ StepGone(r, s, t, c)
    \/ good  /\ Finish(r, s, "Completed", t, c, s)
    \/ ~good /\ Finish(r, s, "Failed", t, c, s)

Record(s) == [s EXCEPT !.seen = @ \cup {s.step}]

Idle == up /\ phase = "idle" /\ UNCHANGED <<up, tick>>

----------------------------------------------------------------------------
(* The engine's operations.                                                *)

(* start_run: reserve_run_slot, then activate_reserved_run.                *)
StartRun(r) ==
    LET s == SopOf[r]
        c == [claim EXCEPT ![r] = "held"]
    IN  /\ Idle
        /\ mem[r] = None /\ disk[r] = None
        /\ \E exec \in ExecCounts(s), pending \in PendingCounts(s, disk) :
                Admits(s, exec, pending)
        /\ CanClaim(r, claim)
        /\ \/ Dispatch(r, Fresh, 1, disk, c)
           \/ /\ Fails("file") /\ s \in Deterministic /\ GatedAt(r, 1)
              /\ claim' \in Released(r, c)           \* rollback_failed_start
              /\ UNCHANGED <<mem, disk, tracked>>

(* Mutant: a run held back at a gate takes a result all the same.          *)
AdvanceUnchecked(r) ==
    /\ Idle
    /\ mem[r].status \in Executing
    /\ \E good \in BOOLEAN : Route(r, Record(mem[r]), disk, claim, good)

(* advance_step: a driver or an agent reports the current step's result.   *)
AdvanceStep(r) ==
    /\ Idle
    /\ mem[r].status \in Executing
    /\ mem[r].status = "Pending" => ~GatedAt(r, mem[r].step)
    /\ \E good \in BOOLEAN : Route(r, Record(mem[r]), disk, claim, good)

(* cancel_run, and finish_run(Failed) as the headless driver and the admin *)
(* force-release call it.                                                  *)
EndRun(r) ==
    /\ Idle
    /\ mem[r].status \in Executing \cup Parked
    /\ \E outcome \in {"Cancelled", "Failed"} :
          Finish(r, mem[r], outcome, disk, claim, mem[r])

(* What a decision needs before a parked run goes on.                      *)
CanResume(r) == r \notin unsaved /\ CanClaim(r, claim)

(* clear_waiting_gate: the run goes on, or waits for its dependencies.     *)
Cleared(s) == {[s EXCEPT !.status = "Running", !.gate = "approved"],
               [Record(s) EXCEPT !.status = "Pending", !.gate = "approved"]}

(* resolve_gate(Approve): refused while the park is unsaved, deferred when *)
(* no claim can be had.  The new state commits with its ledger row; when   *)
(* that write fails the gate is as before and the claim goes back.         *)
ApproveGate(r) ==
    LET s == mem[r]
        c == [claim EXCEPT ![r] = "held"]
    IN  /\ Idle
        /\ s.status = "WaitingApproval" /\ CanResume(r)
        /\ \/ \E next \in Cleared(s) :
                 /\ mem' = [mem EXCEPT ![r] = next]
                 /\ disk' = [disk EXCEPT ![r] = next]
                 /\ claim' = c
                 /\ UNCHANGED tracked
           \/ Finish(r, s, "Failed", disk, c, s)     \* input schema
           \/ /\ Fails("save")
              /\ claim' \in Released(r, c)
              /\ UNCHANGED <<mem, disk, tracked>>

(* resolve_gate(Deny) and the timeout's Cancel. *)
DenyGate(r) ==
    /\ Idle
    /\ mem[r].status = "WaitingApproval"
    /\ Finish(r, mem[r], "Cancelled", disk, claim, mem[r])

(* decide_checkpoint_with_principal: the decision is recorded and routed;  *)
(* a decision that continues is saved with its ledger row before the next  *)
(* step is dispatched.                                                     *)
Continue(r, c, good) ==
    LET s    == mem[r]
        next == [Record(s) EXCEPT !.status = "Running",
                                  !.gate = IF good THEN "approved" ELSE "denied"]
    IN  \/ GoOn(r, next, [disk EXCEPT ![r] = next], c, good)
        \/ /\ good
           /\ \/ StepGone(r, next, [disk EXCEPT ![r] = next], c)
              \/ \E outcome \in {"Completed", "Failed"} :  \* last step, or output schema
                    Finish(r, next, outcome, disk, c, s)
        \/ /\ Fails("save")
           /\ claim' \in Released(r, c)
           /\ UNCHANGED <<mem, disk, tracked>>

ApproveCheckpoint(r) ==
    /\ Idle
    /\ mem[r].status = "PausedCheckpoint" /\ CanResume(r)
    /\ Continue(r, [claim EXCEPT ![r] = "held"], TRUE)

(* A denial that continues down a failure route.                           *)
DenyCheckpoint(r) ==
    /\ Idle
    /\ mem[r].status = "PausedCheckpoint" /\ CanResume(r)
    /\ Continue(r, [claim EXCEPT ![r] = "held"], FALSE)

(* A denial that ends the run takes its claim without regard to the caps   *)
(* and marks it, so that a restart after a failed terminal write keeps it. *)
RejectCheckpoint(r) ==
    LET s == mem[r]
    IN  /\ Idle
        /\ s.status = "PausedCheckpoint" /\ r \notin unsaved
        /\ \/ Finish(r, [Record(s) EXCEPT !.status = "Running"], "Failed", disk,
                     [claim EXCEPT ![r] = "retained"], s)
           \/ /\ Fails("mark")
              /\ claim' \in Released(r, [claim EXCEPT ![r] = "held"])
              /\ UNCHANGED <<mem, disk, tracked>>

(* revise_checkpoint_with_principal holds a claim for the re-draft only.   *)
ReviseCheckpoint(r) ==
    /\ Idle
    /\ mem[r].status = "PausedCheckpoint" /\ CanResume(r)
    /\ claim' \in Released(r, [claim EXCEPT ![r] = "held"])
    /\ UNCHANGED <<mem, disk, tracked>>

----------------------------------------------------------------------------
(* run_maintenance_tick.  Its timeouts are the gate actions above.         *)

(* Mutant: the tick forgets to retry the unsaved parks.                    *)
BeginTickNoRetry ==
    /\ up /\ phase = "idle"
    /\ phase' = "retry" /\ todo' = {} /\ renewed' = {}
    /\ UNCHANGED <<up, mem, store, tracked>>

BeginTick ==
    /\ up /\ phase = "idle"
    /\ phase' = "retry" /\ todo' = unsaved /\ renewed' = {}
    /\ UNCHANGED <<up, mem, store, tracked>>

Renew(r) == IF Fails("beat") THEN {renewed, renewed \cup {r}}
                             ELSE {renewed \cup {r}}

(* retry_pending_park_persists, one run.                                   *)
RetryPark(r) ==
    /\ phase = "retry" /\ r \in todo
    /\ todo' = todo \ {r}
    /\ \/ /\ mem[r] = None
          /\ unsaved' = unsaved \ {r}
          /\ UNCHANGED <<disk, claim, renewed>>
       \/ /\ mem[r] # None
          /\ renewed' \in Renew(r)
          /\ \/ /\ PoolHasRoom(r, disk)
                /\ disk' = [disk EXCEPT ![r] = mem[r]]
                /\ unsaved' = unsaved \ {r}
                /\ claim' \in IF mem[r].status \in Parked THEN Released(r, claim)
                                                         ELSE {claim}
             \/ /\ Fails("save") \/ ~PoolHasRoom(r, disk)
                /\ UNCHANGED <<disk, claim, unsaved>>
    /\ UNCHANGED <<up, mem, keep, phase>>

Blocked == {r \in Runs : mem[r].status = "Pending" /\ GatedAt(r, mem[r].step)}

EndRetry ==
    /\ phase = "retry" /\ todo = {}
    /\ phase' = "promote" /\ todo' = Blocked
    /\ UNCHANGED <<up, mem, store, tracked, renewed>>

(* retry_capacity_blocked_gated_pends, one run.                            *)
PromotePending(r) ==
    /\ phase = "promote" /\ r \in todo
    /\ todo' = todo \ {r}
    /\ \/ /\ \E pending \in PendingCounts(SopOf[r], disk) :
                ~PoolFull(SopOf[r], pending)
          /\ Park(r, [mem[r] EXCEPT !.status = ParkStatus(r), !.gate = "open"],
                  disk, claim)
          /\ renewed' \in Renew(r)
       \/ /\ \/ \E pending \in PendingCounts(SopOf[r], disk) :
                   PoolFull(SopOf[r], pending)
             \/ Fails("file") /\ SopOf[r] \in Deterministic
          /\ UNCHANGED <<mem, store, tracked, renewed>>
    /\ UNCHANGED <<up, phase>>

(* Mutants: the lease of a Pending run is not renewed; the lease of every  *)
(* run in memory is renewed, parked ones included.                         *)
HeartbeatRunning ==
    /\ phase = "promote" /\ todo = {}
    /\ renewed' = renewed \cup Rows(mem, {"Running"})
    /\ phase' = "reap"
    /\ UNCHANGED <<up, mem, store, tracked, todo>>
HeartbeatAll ==
    /\ phase = "promote" /\ todo = {}
    /\ renewed' = renewed \cup Rows(mem, Executing \cup Parked)
    /\ phase' = "reap"
    /\ UNCHANGED <<up, mem, store, tracked, todo>>

(* heartbeat_active_claims *)
HeartbeatClaims ==
    LET beats == {r \in Runs : mem[r].status \in Executing}
                    \cup {r \in keep : mem[r].status \in Parked}
    IN  /\ phase = "promote" /\ todo = {}
        /\ \E missed \in SUBSET beats :
              /\ missed # {} => Fails("beat")
              /\ renewed' = renewed \cup (beats \ missed)
        /\ phase' = "reap"
        /\ UNCHANGED <<up, mem, store, tracked, todo>>

(* reap_expired_claims and prune_terminal_runs.  A claim this tick did not *)
(* renew may have outlived its lease.                                      *)
ReapAndPrune ==
    /\ phase = "reap"
    /\ \E gone \in SUBSET {r \in Runs : claim[r] # "free" /\ r \notin renewed} :
          claim' = [r \in Runs |-> IF r \in gone THEN "free" ELSE claim[r]]
    /\ LET finished == Rows(disk, Terminal)
       IN  \E gone \in SUBSET finished :
              /\ \/ gone = {}
                 \/ /\ MaxFinished > 0
                    /\ Cardinality(finished \ gone) = MaxFinished
              /\ disk' = [r \in Runs |-> IF r \in gone THEN None ELSE disk[r]]
    /\ phase' = "idle" /\ renewed' = {}
    /\ UNCHANGED <<up, mem, tracked, todo>>

----------------------------------------------------------------------------
(* The process dies: its memory is lost, the store stays.                  *)
Crash ==
    /\ up /\ up' = FALSE
    /\ mem' = [r \in Runs |-> None]
    /\ unsaved' = {} /\ keep' = {}
    /\ phase' = "idle" /\ todo' = {} /\ renewed' = {}
    /\ UNCHANGED store

(* Mutant: only Running rows get their claim back.                         *)
RestartClaimingRunning ==
    /\ ~up /\ up' = TRUE
    /\ mem' = [r \in Runs |-> IF disk[r].status \in Executing \cup Parked
                              THEN disk[r] ELSE None]
    /\ claim' = [r \in Runs |-> IF disk[r].status = "Running" THEN "held" ELSE "free"]
    /\ UNCHANGED <<disk, tracked, tick>>

(* A parked row keeps its claim over a restart if the claim is marked      *)
(* retained (or cannot be inspected, "blind") and the row still waits for  *)
(* the decision that marked it.                                            *)
KeptAtRestart(blind) ==
    {r \in Rows(disk, Parked) : /\ claim[r] = "retained" \/ r \in blind
                               /\ disk[r].step \notin disk[r].seen}

(* restore_runs.  An executing row gets its claim back whatever the caps   *)
(* say, or is left out when that fails ("lost").  A parked row gives its   *)
(* claim up, unless it is kept or cannot be released ("stuck").            *)
Restart ==
    /\ ~up /\ up' = TRUE
    /\ \E lost \in SUBSET Rows(disk, Executing),
          blind \in SUBSET Rows(disk, Parked), stuck \in SUBSET Rows(disk, Parked) :
          /\ lost # {} => Fails("renew")
          /\ blind # {} => Fails("read")
          /\ stuck # {} => Fails("release")
          /\ mem' = [r \in Runs |->
                IF r \in Rows(disk, Executing \cup Parked) \ lost THEN disk[r] ELSE None]
          /\ keep' = KeptAtRestart(blind)
          /\ claim' = [r \in Runs |->
                IF r \in Rows(disk, Executing) \ lost THEN "held"
                ELSE IF r \in Rows(disk, Parked) \ (keep' \cup stuck) THEN "free"
                ELSE claim[r]]
    /\ UNCHANGED <<disk, unsaved, tick>>

(* load_active_runs fails at boot: the engine starts with nothing.         *)
RestartBlank ==
    /\ ~up /\ Fails("load")
    /\ up' = TRUE
    /\ UNCHANGED <<mem, store, tracked, tick>>

Next ==
    \/ \E r \in Runs :
          \/ StartRun(r) \/ AdvanceStep(r) \/ EndRun(r)
          \/ ApproveGate(r) \/ DenyGate(r)
          \/ ApproveCheckpoint(r) \/ DenyCheckpoint(r)
          \/ RejectCheckpoint(r) \/ ReviseCheckpoint(r)
          \/ RetryPark(r) \/ PromotePending(r)
    \/ BeginTick \/ EndRetry \/ HeartbeatClaims \/ ReapAndPrune
    \/ Crash \/ Restart \/ RestartBlank

Spec == Init /\ [][Next]_vars

----------------------------------------------------------------------------
(* Type invariant.                                                         *)
TypeOK ==
    /\ up \in BOOLEAN
    /\ mem \in [Runs -> Snapshots]
    /\ disk \in [Runs -> Snapshots]
    /\ claim \in [Runs -> {"free", "held", "retained"}]
    /\ unsaved \subseteq Runs /\ keep \subseteq Runs
    /\ phase \in {"idle", "retry", "promote", "reap"}
    /\ todo \subseteq Runs /\ renewed \subseteq Runs

(* A run that executes owns an admission claim, so the store counts it     *)
(* against the caps: no park, resume, denial, restart or reaper pass takes *)
(* the claim of a run that goes on (exec_counts relies on it).             *)
ExecutingHoldsClaim == Rows(mem, Executing) \subseteq Held(claim)

(* max_concurrent and max_concurrent_total bound the executing runs, also  *)
(* after a burst of approvals and after a restart, which restores claims   *)
(* without looking at the caps.                                            *)
ExecutingWithinCaps ==
    /\ Cardinality(Rows(mem, Executing)) <= MaxTotal
    /\ \A s \in Sops : Cardinality(ExecutingNow(s)) <= MaxConcurrent[s]

(* What executes, or would after a crash, takes its slots one at a time,   *)
(* each when both caps have room: no retry, tick, crash or restart brings  *)
(* a run into execution whose slot was given away, or without a slot.      *)
Live       == Rows(mem, Executing) \cup Rows(disk, Executing)
Slots      == INSTANCE SopSlots WITH inUse <- Live
IsSlotPool == Slots!Spec

(* A parked run survives a crash: it is in the store as it is in memory,   *)
(* or it still owns the claim and the next tick writes it again.           *)
ParkSurvivesCrash ==
    \A r \in Rows(mem, Parked) :
        disk[r] = mem[r] \/ (r \in unsaved /\ claim[r] # "free")

(* A run a crash would bring back as executing is executing, or its newer  *)
(* snapshot still waits to be written under the run's own claim: a restart *)
(* never adds to the executing runs one whose slot was given away.         *)
RestartAddsNoRun == up => Rows(disk, Executing) \subseteq Held(claim)

(* A step that waits for a human does not run before its gate was decided, *)
(* whatever is restored, promoted or rolled back on the way.               *)
GateBeforeRunning ==
    \A r \in Rows(mem, {"Running"}) : GatedAt(r, mem[r].step) => mem[r].gate # "open"

(* A run never moves on from a step that waits for a human unless that     *)
(* gate was decided: not by reporting a result while it is held back at a  *)
(* full pool, nor after a failed checkpoint or a restart.                  *)
MovesOn(r) == mem'[r] # None /\ mem'[r].step # mem[r].step

GatedStepNotSkipped ==
    [][\A r \in Rows(mem, Executing) :
          GatedAt(r, mem[r].step) /\ MovesOn(r) => mem[r].gate # "open"]_vars

(* Stronger, and does not hold: what lets an executing run pass a gated    *)
(* step is an approval.  A denial that goes on is saved as Running at the  *)
(* denied step, and a crash before the next step restores it there.        *)
OnlyApprovedGatesPass ==
    [][\A r \in Rows(mem, Executing) :
          GatedAt(r, mem[r].step) /\ MovesOn(r) => mem[r].gate = "approved"]_vars

(* The pending pool of a SOP holds at most max_pending_approvals parked    *)
(* rows, also when parks are retried and promoted by the tick.             *)
PoolWithinBound ==
    \A s \in Sops : MaxPending[s] > 0 => Cardinality(ParkedIn(disk, s)) <= MaxPending[s]

(* Hold and Coalesce keep at most one run of the SOP in flight, parked     *)
(* runs and parks that are still unsaved included.                         *)
HoldIsSerial ==
    \A s \in Sops : Policy[s] \in {"Hold", "Coalesce"} =>
        Cardinality(Rows(mem, Executing \cup Parked) \cap Of(s)) <= 1

(* Runs parked and runs holding back at a full pool cannot starve one      *)
(* another inside one SOP: the runs in flight are always fewer than the    *)
(* slots and the places in the pool together.                              *)
RoomInOwnSop ==
    \A s \in Sops : (MaxPending[s] > 0 /\ MaxConcurrent[s] > 0) =>
        Cardinality(Rows(mem, Executing \cup Parked) \cap Of(s))
            < MaxConcurrent[s] + MaxPending[s]

(* A finished row never becomes active again and never changes its         *)
(* outcome; it can only be pruned.                                         *)
FinishedStaysFinished ==
    [][\A r \in Runs : disk[r].status \in Terminal => disk'[r] \in {disk[r], None}]_vars

(* A run the engine drops from its memory while it is up is finished in    *)
(* the store: no live run is forgotten.                                    *)
NoRunForgotten ==
    [][\A r \in Runs : (mem[r] # None /\ mem'[r] = None /\ up')
            => disk'[r].status \in Terminal]_vars

----------------------------------------------------------------------------
(* Fairness: the daemon restarts a dead process and its maintenance loop   *)
(* runs every tick to the end; a store that keeps being tried accepts a    *)
(* write in the end; every lease that is not renewed runs out.             *)
SaveParked(r) == RetryPark(r) /\ r \notin unsaved'
ReapAll ==
    /\ ReapAndPrune
    /\ \A r \in Runs : claim[r] # "free" /\ r \notin renewed => claim'[r] = "free"

Fairness ==
    /\ WF_vars(Restart) /\ WF_vars(BeginTick) /\ WF_vars(EndRetry)
    /\ WF_vars(HeartbeatClaims) /\ SF_vars(ReapAll)
    /\ \A r \in Runs : /\ WF_vars(RetryPark(r)) /\ SF_vars(SaveParked(r))
                       /\ WF_vars(PromotePending(r))

FairSpec == Spec /\ Fairness

StopsCrashing == <>[][~Crash]_vars

(* Once the process stops crashing, a claim nobody executes under is given *)
(* back: a dead run's, a parked run's whose release failed, a failed       *)
(* start's.  Only a claim kept on purpose stays.                           *)
Orphan(r) == /\ claim[r] # "free" /\ mem[r].status \notin Executing
             /\ r \notin unsaved \cup keep
OrphanClaimsReturn == StopsCrashing => \A r \in Runs : Orphan(r) ~> ~Orphan(r)

(* Once the process stops crashing, a park whose snapshot could not be     *)
(* written is written by a later tick, and only then gives its claim back. *)
UnsavedParksSettle ==
    StopsCrashing => \A r \in Runs : (r \in unsaved) ~> (r \notin unsaved)

(* Does not hold when terminal writes fail: a parked run whose decision is *)
(* deferred can take a claim later, "once a slot frees".  A claim kept for *)
(* a failed denial is renewed by every tick, and stays in its own way.     *)
ParkedRunsCanResume ==
    StopsCrashing =>
        \A r \in Runs : (mem[r].status \in Parked /\ claim[r] # "free")
                            ~> (claim[r] = "free" \/ mem[r].status \notin Parked)
=============================================================================
