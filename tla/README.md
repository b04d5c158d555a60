# A TLA+ model of ZeroClaw

ZeroClaw is an agent runtime: a daemon that receives messages and events,
runs turns of a language model with tools, and executes standard operating
procedures (SOPs), whose steps may wait for a human's approval. This directory
holds TLA+ models of the parts of it in which several actors share state and
in which calls may fail half-way, the TLC configurations that check them, and
TLAPS proofs about them. Paths below are relative to `src/src/crates` unless
they start with `src/`.

## 1. Inventory

`PROJECT.json` lists every component with its sources. In the order of their
weight for the program's own logic:

| component | state | operations | hard behaviour | correct when |
|---|---|---|---|---|
| **SOP engine** `zeroclaw-runtime/src/sop/engine.rs` | active runs, unsaved parks, kept claims | start, advance, park, approve, deny, revise, cancel, finish, maintenance tick, restore | every store call may fail; crash between two of them; caps and pools shared by all runs | caps and pools are respected, gates are not passed undecided, no run is lost or revived |
| **SOP run store** `sop/store` | rows, admission claims with leases, events | claim, renew, heartbeat, release, mark, reap, save, finish, prune | compare-and-set on claims and on the parked-row capacity; leases that run out | claims never exceed the caps, a terminal row is final |
| **SOP approval gates** `sop/approval/resolve.rs`, `timeout.rs`, `ledger.rs` | the gate of a parked run | resolve, time out, escalate | a decision races with a timeout, a cancel and other decisions for a slot | one outcome per gate, deferred decisions stay possible |
| **SOP approval broker** `sop/approval/broker.rs`, `identity.rs`, **channel route** | votes in the ledger, the gate's revision, prompts in channels | vote, count, resolve, answer a prompt, reload, time out | votes and prompts of earlier presentations, policies edited under way, two locks per channel answer | only the quorum in force passes a gate; every voter counts once |
| SOP step router `sop/route` | none (pure) | next step, failure route | retry budgets, visit bounds | total, bounded |
| **SOP dispatch** `sop/dispatch.rs`, `zeroclaw-channels/src/amqp.rs` | dedup window, reservations, messages | match, reserve, activate, roll back, acknowledge or requeue | failure half-way through a batch, redelivery, crash before the acknowledgement | a batch starts as one, a message once, and none is lost or goes round for ever |
| SOP executor `sop/executor.rs` | the driver's loop | run a step, advance, fail | a run that moved meanwhile | |
| **Session queue** `zeroclaw-infra/src/session_queue.rs` | slot map, counters, semaphores | acquire, drop of the guard, sweep | lookups and counts under different locks, timeouts and dropped futures racing with a permit | one request holds a session, the depth is bounded and exact |
| **RPC sessions and turns** `zeroclaw-runtime/src/rpc` | sessions, cancel tokens and causes, durable rows | new, prompt, cancel, close, kill, evict, restore | three maps under three locks, sessions removed under a turn, agents fetched before a wait | every running turn can be stopped, and a stopped one knows why |
| Control plane `control_plane` | task registry, goals | register, heartbeat, reap, recover | crash recovery of tasks | no task is run twice or forgotten |
| **Cron** `zeroclaw-runtime/src/cron` | job rows with `enabled`, `next_run`, `locked_at` | add, edit, remove, sync, catch up, claim, run, record, release | edits over results, crash between run and record, a start that declares jobs anew | an occurrence runs once, and a due job runs |
| Daemon supervision, heartbeat | component health | start, restart with backoff | | |
| Debounce, stall watchdog | pending batches | collect, flush | a message arriving at the flush | none lost, order kept |
| **Pairing** `zeroclaw-config/src/pairing.rs`, `zeroclaw-gateway/src/api_pairing.rs` | one-time code, tokens, device rows, config.toml | issue, pair, revoke, rotate, persist | four places changed one after the other, each may fail | a code pairs one device, confirmed decisions stand |
| Gateway, auth rate limiter | windows per client | allow, record | pruning at a limit | |
| Emergency stop, OTP | level, frozen tools | engage, resume | persistence failing | engaging never loosens |
| Cost tracker | usage records, budgets | check, record | check and record are two steps | |
| Model providers, `reliable.rs` | cooldowns | retry, fall back, rotate keys | timeouts and retries | bounded retries |
| Agent loop, tools, channels, memory, plugins, configuration, apps | | | data handling and I/O behind traits | |

How they interact: every public method of the SOP engine runs under one mutex
and calls the store synchronously. Drivers, the RPC handlers, the gateway, the
dispatcher and the daemon's maintenance loop are the callers. Chat and RPC
requests of a session pass through the session queue before they start a turn
of the agent loop, which may call the engine; cancels, closes and kills do not
pass through it. Decisions on gates come from the gateway, the command line,
the agent's own tool and chat channels, and all go through the broker. The
scheduler starts agents and commands by itself. What survives a crash: the
store's rows, claims and ledger, the session rows, the job table, config.toml
and the broker's queue; not the session queue, the dedup window, a pairing
code, or a reservation.

## 2. Modules

| module | what it is |
|---|---|
| `SopEngine` | run lifecycle of the engine with its store, faults, crashes and restarts |
| `SopSlots` | what the engine's caps promise: a pool of slots |
| `SopBatch` | what dispatch promises: the runs of a delivery start as one |
| `SopDispatch` | from a queued message to runs: deduplication, batch start, acknowledgement |
| `SopBroker` | who passes a gate: votes, quorum, presentations, answers from channels |
| `SessionMutex` | what the session queue promises: a mutex |
| `SessionQueue` | the queue as it is written, with its sweep, timeouts and dropped futures |
| `RpcTurns` | the turns of one RPC session and those who stop them |
| `DevicePairing` | codes, tokens, device rows and the file |
| `CronScheduler` | the job table, the scheduler and the users |
| `MC...` | values for the constants of each |
| `...Proof` | theorems about each of the seven |

The modules share no variables. Where one component uses another, the module
keeps what can be seen from there: `SopDispatch` has claims, rows and runs of
the engine but not what a run does; `SopBroker` has one run that meets its
gate again and again; `RpcTurns` has of the session queue only whether it may
admit two requests at once (`Overlap`), which is what section 6 says of it.

Operators described as *mutant* in a comment are plausible mistakes; nothing
in a specification uses them. `PROJECT.json` pairs every checked property with
a mutant that violates it, and maps each definition to the lines it models.

### SopEngine and the code

| variable | code |
|---|---|
| `mem` | `active_runs`; a run's status, current step, recorded steps, and the decision on the current gate |
| `unsaved` | `claims_pending_persist`: parks that could not be written and keep their claim |
| `keep` | `claims_retained_after_terminal_rollback` |
| `disk`, `claim` | rows and `sop_claims` of the store; a claim is free, held, or held and marked retained |
| `phase`, `todo`, `renewed` | the program counter of `run_maintenance_tick` |
| `up` | whether the process lives |

One action is one method call under the engine's mutex, with everything that
call does. Methods share long tails (record, route, dispatch, park, finish),
so the actions are put together from operators named after them: `Route`,
`Dispatch`, `Park`, `Finish`, `Carry` (`persist_active`), `Defer`
(`mark_step_pending`). An operator gets the rows and claims as they stand when
it begins and fixes what they are in the end; nothing is seen in between, as
nothing is in the code while the mutex is held. The tick is one call too, but
it loops over runs, and its iterations are separate actions so that a crash
may fall between them; no method runs before the tick is over.

A crash *inside* a method is covered without an action of its own: the
store's part of each method is a short sequence of calls, and a crash after
one of them leaves the store as if the later calls had failed; the model has
both those failures and the crash. What is left out is named in section 7.

`Faults` is the set of store and file calls that may fail in an instance:
`save` (any non-terminal row), `finish` (terminal row), `release`, `mark` (the
retention marker), `renew` (claim restoration at boot), `beat` (heartbeat),
`read` (counts and claim inspection), `load` (reading the rows at boot),
`file` (a checkpoint's state file). Each may fail at every call or not at all.

Abstractions: the router may pick any step, repeat it or end the run; step
data, timestamps and notices are left out; a claim whose lease this tick did
not renew may or may not have run out, which covers every relation between
tick period and lease.

`SopSlots` keeps of all this one set: the runs that execute or that a restart
would bring back as executing (`Live`). A run enters it by itself and with room
under both caps; any number may leave at once. Restarts, promotions, approvals
and retries have no other way in.

### SessionQueue and the code

One session's entry in the map (`entry`) and the slot objects it has had;
sessions share nothing but the map's lock. `pc` is where each request stands
in `acquire`, `pending` and `permit` are the slot's counter and semaphore. An
action is what happens between two accesses to shared state. `sweep` is
`evict_idle`, which holds the map's lock from its first read to the removal,
so that `FindSlot` has to wait, while counters and semaphores go on changing.
The semaphore may serve any waiter: tokio's order is one of the outcomes.
`Sweeps` and `Drops` tell apart the two users: the daemon sweeps every 60
seconds and its requests run to their end, the gateway never sweeps and its
handlers are dropped when a client goes away.

### RpcTurns and the code

| variable | code |
|---|---|
| `session` | whether the id is in `SessionStore::sessions` |
| `row` | the durable row of the session, with the mark of `session/kill` |
| `token`, `cause` | its entries in `cancel_tokens` (the generation is the prompt) and `cancel_causes` |
| `prompt` | `handle_session_prompt`: how far, who fired its token, which cause it reported |
| `caller` | the other handlers: cancel, close, delete, kill, new, eviction |

An action is what happens under one lock. Two details of Rust matter: `remove`
and `kill_session` keep the token map locked until the token is fired, since
the guard lives as long as the `if let` (`TokensLocked`), and a displaced token
is fired after its guard has gone, which nobody can tell apart. A fired token
may come too late: `ExecuteTurn` may end as completed.

### SopDispatch and the code

`queue` and `delivered` are the broker's view of each message; `pc`, `msg`,
`todo`, `held`, `started`, `result` are the local variables of
`dispatch_sop_event` for the delivery in hand: SOPs to reserve, reservations,
activated runs, results. It runs under the engine's mutex, so nothing but a
crash comes in between; the actions are its loops' iterations, because each of
them may fail. `window` is `dispatch_dedup`, whose entries turn unclear
(`ambiguous`) when another message uses the same key. `verdict`, `count` and
`missed` are history for the properties only. A single match starts by the
same actions as a batch; `IsBatch` tells the two apart where the code does.
`retained` is the engine's `claims_retained_after_terminal_rollback` as far as
a start fills it: a run that could not be dispatched and whose end could not be
written stays in memory.

`SopBatch` says the same without steps in between. The mapping hides what a
delivery in hand has activated so far (`Visible`), until its last run is
activated, and never counts a retained run; the SOPs `Chosen` are those of the
batch. Of a restart `SopBatch` says nothing, since a rolled-back run may come
back (section 6).

### SopBroker and the code

`gate` and `row` are the run in memory and in the store, `votes` the
`gate_vote` rows, `history` whether the ledger has a gate event, `conf` the
live policy with its group, `answer` a channel answer between its two locks.
`visit` counts presentations, which the code does not: the properties compare
it with the revision, which the code uses to tell presentations apart. A vote
and the passing it may lead to are one action, as both happen under the
engine's mutex; that passing may fail after the vote was recorded is the second
disjunct of `Favour`.

A presentation begins when a parked gate is in the store (`shown`, which the
code does not keep either); a prompt, which a channel can answer by reference,
goes out only if the policy in force names a route (`conf.routes`), as
`notify_park_request` returns without a policy or a route. A restart presents a
parked gate again under the reference it had, and so does a time-out that
escalates, through either route.

### DevicePairing and the code

`tokens` is `PairingGuard`, `devices` the registry, `disk` config.toml, `snap`
the clone that `persist_pairing_tokens` takes before it writes. One action is
one call on one of them. `Overlaps` says whether requests may overlap; some
promises need that they do not, and the initial state picks the case, so that
one run looks at both. `SaveFails` has the two ways in which
`write_config_atomically` fails: before the rename and after it.

### CronScheduler and the code

`row` is the table; `line` its order by `next_run`, restricted to those that
have passed; `picked`, `batch` and `flight` the scheduler's jobs as they were
read, which may differ from their rows. `edit` is `update_job` between its read
and its write. Wall-clock time is left out: `FallDue` may happen at any moment,
and a recurring job that was rescheduled is not in `line` until it falls due
again. `Declared` jobs are all one-shots, the case in which declaring a job
anew matters. What is read or put back is a set of orders (`InLine`,
`Joined`): jobs keep the order they had, and those that join with an older
time may stand anywhere among them.

`update_job` writes back the `next_run` it has read unless it changes the
schedule. Without clock values the model keeps of it what became of the time
in hand (`edit.next`): as long as nobody gives the row another time it is the
row's own, and falls due with it; once the row has moved on (`Moved`: a run was
recorded, a skip or a declaration written) it is an older time, which had
passed by then or may pass at any moment. Writing it back makes the job due
again at a place in line that goes with it. `skip_missed_jobs_on_startup`
reads all overdue jobs and then skips them one by one by the schedule it has
read, with edits and crashes in between; `sync_declarative_jobs` may stop after
any of its declarations.

## 3. Runs

| run | instance | what it shows |
|---|---|---|
| `sop_slots` | 3 runs, 1 SOP, 2 slots, 1 pool place, faults save, release, mark, read, file | claims, caps, pool and parks stay consistent through failures and crashes; refinement of `SopSlots` |
| `sop_gates` | 3 runs, 2 SOPs (approval and checkpoint), 1 slot in all, faults save, renew, load | no undecided gate is passed |
| `sop_hold` | 2 runs of a Hold SOP, faults save, release, mark, file | Hold is serial, unsaved parks included |
| `sop_recovery` | 2 runs, 1 slot, fairness, faults save, release, finish, mark | nothing is lost or revived; orphaned claims and unsaved parks settle |
| `sop_dispatch` | 2 messages, 2 SOPs (one gated, with cooldown), 3 runs of each for a message, 2 failures, fairness | batches start as one (refinement of `SopBatch`), redeliveries start nothing, every message is settled and acknowledged |
| `sop_broker` | 5 principals (one token over two transports, one agent, one channel), 5 policies (two with a route for requests, one for escalations only, two with none), 2 presentations, 1 edit, fault save | references are unique, every voter counts once, nothing passes without its quorum |
| `sop_late_answer` | the same without faults and edits; **violation** | see section 6 |
| `queue_gateway` | 4 requests, 2 slots, depth 2, dropped requests | a mutex, bounded depth; refinement of `SessionMutex` |
| `queue_daemon` | 3 requests, 3 slots, depth 2, sweeps, fairness | exact counter, no unjustified refusal, idle slots go |
| `rpc_turns` | 2 prompts, 2 other requests, turns may overlap | running turns can be stopped; removals stop them and say why |
| `device_pairing` | 2 requests, 3 tokens, 3 codes, all faults, both cases of overlap | codes are used once, decisions stand, tokens are managed |
| `cron_jobs` | an added, a declared and an orphaned job, 2 per poll, 1 at a time, 1 fault, 1 edit (resume, rename, or a new schedule of either kind), with and without catch-up, fairness | occurrences run once, skipped ones never late, due ones in the end |

**Bounds.** The only bounds are the sizes of the constant sets: no counter of
any model grows without one. A run id whose row was pruned may be started
again and stands for a fresh run, so behaviours are not cut off after as many
starts as there are ids. Three runs over two slots and one pool place are the
smallest instance with a run executing, one parked and one held back at a full
pool, and with a slot contended by a start and an approval; two steps, the
second gated, give a step before a gate, a gate that is the last step, and
loops back to the first. Two SOPs with one slot in all make the global cap
bite before the local one. `MaxFinished = 1` prunes from the second finished
run on. Four requests with depth 2 give a holder, a waiter and two that are
refused at once; two slots let a removed slot and its successor be in use
together, and the daemon's three requests may sit on three slots. The run ids
of one SOP are interchangeable, and so are requests and slots, hence the
symmetry in the safety runs; the runs with liveness use none.

Of the other models: two messages of which one matches both SOPs give batches,
single starts and their competition for slots; two failures allow one during
the recovery from another, and are drawn from a budget so that they stop; three
runs of one SOP for one message are one more than ever live at a time without
being a duplicate. Two presentations of a gate and one edit of its policy are
the least that make votes stale in either way; the five policies differ in
group, quorum, route, and being known at all; the principals are a token over its two
transports, another token, the agent's tool and a channel: enough for quorums
of one and of two to be reached and to be missed. Two prompts and two other requests of a session
meet in all orders of their locks; a third prompt would only wait. Two
requests, three tokens and three codes let a rotation overlap a pairing while
a third device is paired. The orphan and the two jobs with `MaxTasks = 2` make
a poll that the orphan takes a place in. `Faults`, `MaxFaults`, `MaxEdits`,
`MaxVisits`, `MaxReloads`, `MaxCodes` and `Copies` are the bounds, and each is
named in its module.

**Deadlock** is checked in the engine, the queue and `RpcTurns`. It is off
where a run may be over: `SopDispatch` (all messages acknowledged and all runs
finished), `SopBroker` (the run is over, or has no presentation left),
`DevicePairing` (no code left), `CronScheduler` (nothing due, nothing to do).

**The fault matrix of the engine.** Where a property is not checked under a
fault, that fault breaks it: `finish` breaks `ExecutingHoldsClaim` and with it
`RestartAddsNoRun`, `GateBeforeRunning` and `HoldIsSerial`; `beat` breaks
`ExecutingHoldsClaim` (a lease runs out under a live run); `renew` and `load`
break `RestartAddsNoRun` and `HoldIsSerial`, because a row left behind at boot
is counted by nobody until it is restored later; `file` breaks the gate
properties; `read` together with `save` breaks `HoldIsSerial`, because the
engine's own count, used when the store cannot be read, is taken of parked and
executing runs at different moments; `save` together with `finish` breaks
`ParkSurvivesCrash`.

## 4. Fairness

`SopEngine.Fairness`: the daemon restarts a dead process (`Restart`), its
maintenance loop starts a tick again and again and every tick runs to its end,
as it is one call (`BeginTick`, `RetryPark`, `EndRetry`, `PromotePending`,
`HeartbeatClaims`: weak). A store that is asked again and again takes a write
in the end (`SaveParked`: strong, as each single attempt may fail), and a
claim that no tick renews outlives its lease (`ReapAll`: strong). No fairness
is assumed of people, agents or drivers: nobody has to decide or advance
anything. The liveness properties are conditional on crashes coming to an end
(`StopsCrashing`); a process that always crashes before its first tick makes
no progress.

`SessionQueue.Fairness`: a request that can move is polled, a wait ends by the
lock timeout, a turn ends (the agent loop bounds its turns) and drops its
guard, and the sweep comes round. No request has to arrive, and
`IdleSlotIsRemoved` speaks of behaviours in which they stop.

`SopDispatch.Fairness`: the broker delivers a message that is ready again and
again (strong, per message, because others come in between), the handler of a
delivery and the restart are not abandoned (weak), runs end and orphaned leases
run out (strong, as both wait for the mutex). Not assumed: that a failure or a
crash happens, or that a cooldown passes at any particular time (`Admit` is
fair for some value of it).

`CronScheduler.FairSpec`: the scheduler's task is polled and every job it runs
ends (weak), and the supervisor starts it again (weak). The scheduler bounds
shell jobs by a timeout (`run_job_command_with_timeout`); it has none for agent
jobs, so that an agent's turn ends is an assumption about the agent loop.
Nothing is assumed of users or of time. The other specifications have
no fairness and no liveness properties.

## 5. Proofs

For every value of the constants that satisfies the named assumptions of each
module (`ConstantsOK`, `QueueConstants`, `TurnConstants`, `DispatchConstants`,
`BrokerConstants`, `PairingConstants`, `CronConstants`: types, finite sets,
natural bounds), TLAPS proves every invariant, action property and refinement
that a passing run checks, and some more:

| theorem | under | says |
|---|---|---|
| `SopEngineProof!TypeCorrect` | any faults | `[]TypeOK` |
| `SopEngineProof!PoolIsBounded` | any faults | `[]PoolWithinBound` |
| `SopEngineProof!ClaimsAreHeld` | no `finish`, `beat` | `[]ExecutingHoldsClaim` |
| `SopEngineProof!ParksSurvive` | no `finish`, `beat` | `[]ParkSurvivesCrash` |
| `SopEngineProof!RestartsAddNoRun` | no `finish`, `beat`, `renew`, `load` | `[]RestartAddsNoRun` |
| `SopEngineProof!CapsAreKept` | no `finish`, `beat`, `renew`, `load` | `[]ExecutingWithinCaps` |
| `SopEngineProof!ImplementsSlots` | no `finish`, `beat`, `renew`, `load` | `IsSlotPool` |
| `SopEngineProof!RoomRemains` | no `finish`, `beat`, `renew`, `load` | `[]RoomInOwnSop` |
| `SopEngineProof!HoldIsKept` | the same, and not both `read` and `save` | `[]HoldIsSerial` |
| `SopEngineProof!FinishedStay` | any faults | `FinishedStaysFinished` |
| `SopEngineProof!NothingIsForgotten` | any faults | `NoRunForgotten` |
| `SopEngineProof!GatesComeFirst` | no `finish`, `file` | `[]GateBeforeRunning` |
| `SopEngineProof!GatesAreNotSkipped` | no `finish`, `file` | `GatedStepNotSkipped` |
| `SessionQueueProof!TypeCorrect` | | `[]TypeOK` |
| `SessionQueueProof!CountersCover` | | `[]CountCoversRequests` |
| `SessionQueueProof!DepthIsBounded` | | `[]DepthWithinBound` |
| `SessionQueueProof!CountersAreExact` | no drops | `[]CountIsExact` |
| `SessionQueueProof!RefusalsAreDue` | no drops | `RefusedOnlyWhenFull` |
| `SessionQueueProof!MutualExclusionWithoutSweep` | no sweep | `[]MutualExclusion` |
| `SessionQueueProof!ImplementsMutex` | no sweep | `IsMutex` |
| `RpcTurnsProof!TurnsCanBeStopped` | | `[]LiveTurnCanBeStopped` |
| `RpcTurnsProof!TokensHaveTurns` | | `[]TokenHasItsTurn` |
| `RpcTurnsProof!RemovalsAreAttributed` | | `[]RemovalIsAttributed` |
| `RpcTurnsProof!RemovalsStopTurns` | | `RemovalStopsTheTurns` |
| `SopDispatchProof!AckedMessagesAreSettled` | any faults | `[]AckedIsSettled` |
| `SopDispatchProof!BatchesStartAsOne` | any faults | `[]AllOrNothing` |
| `SopDispatchProof!ClaimsDoNotLeak` | any faults | `[]NoClaimLeaks` |
| `SopDispatchProof!ImplementsBatch` | any faults | `IsBatched` |
| `SopDispatchProof!RedeliveriesStartNothing` | `OwnKeysOnly` | `[]StartedOnce` |
| `SopBrokerProof!ReferencesAreDistinct` | `LegibleLedger` | `[]PromptsAreDistinct` |
| `SopBrokerProof!VotersCount` | `LegibleLedger`, `OneMembership` | `[]VotersAreCounted` |
| `SopBrokerProof!GatesPassByQuorum` | `LegibleLedger`, `FiniteVoters` | `PassedByQuorum` |
| `DevicePairingProof!CodesAreUsedOnce` | any faults | `[]CodeUsedOnce` |
| `DevicePairingProof!DecisionsStand` | any faults | `[]DecisionsStandInMemory` |
| `DevicePairingProof!DecisionsAreKept` | any faults | `[]DecisionsSurvive` |
| `DevicePairingProof!RegistryIsComplete` | any faults | `[]TokensAreManaged` |
| `CronSchedulerProof!ClaimsAreLocks` | any faults | `[](ClaimedOnce /\ ClaimedAreLocked)` |
| `CronSchedulerProof!RunOnce` | any faults | `OncePerOccurrence` |
| `CronSchedulerProof!NothingRunsLate` | any faults | `OverdueIsSkipped` |

Each of the other proof modules also has `TypesHold`, `[]TypeOK`; only the
run `queue_gateway` still checks a type invariant. Under `OwnKeysOnly` every message has a key
of its own; with shared keys an entry of the window turns unclear and a
redelivery starts its SOP again, which the code prefers to losing a message.
`LegibleLedger` says that the ledger can be read when a gate is presented.
`OneMembership` says that a credential belongs to a group by all its
transports or by none: `record_gate_vote_scoped` keeps one vote of a credential
and with it one transport, and the recount asks about that one.

The fault assumptions of a theorem are weaker than those of the run that
checks the property wherever the table lists fewer faults than the run leaves
out; section 6 says which of them cannot be dropped.

**The engine's argument.** `Outcome(r)` says what a method may make of run r:
the other runs are untouched; if r executes it owns a claim; if it is parked
its row is written or it is unsaved and owns a claim; a row that executes
belongs to a run that executes or is unsaved; a row only parks where there was
room; the gates are in order. Each piece of a method (`Carry`, `Defer`,
`Park`, `Finish`, `Dispatch`, ...) is shown to have an outcome, then each
method. The inductive invariant `IInv` is then preserved by every outcome and
by the steps of the tick, the crash and the restart. It adds to the properties

- `Down`: a dead process has no memory, so that a restart starts from the rows;
- `LeasesKept`: what the tick has renewed so far covers what it must not reap.
  `ExecutingHoldsClaim` alone is not inductive: the reaper may take every claim
  that this tick did not renew;
- `RowsFollow`: an executing row belongs to an executing run or to an unsaved
  park;
- `LiveWithinCaps`: the caps bound the runs that execute *or whose row does*.
  `ExecutingWithinCaps` alone is not inductive: a restart turns the rows into
  executing runs and takes claims without looking at the caps. A run joins
  this set only when the store grants a claim, and all members own one, so
  the store's own check keeps the bound;
- `TodoBlocked`: the tick promotes only runs held back at a gate;
- `MemoryIsLive`: the memory holds runs in flight only, and none whose row has
  finished. With `Fate`, the part of an outcome that says what may become of a
  run, this gives `FinishedStay` and `NothingIsForgotten` under any faults: a
  method that works on a run begins with `Begun`, which a finished row refutes;
- `RowsAreKnown`, `EngagedHaveRoom`, `EngagedAreSerial`: what `RoomInOwnSop`
  and `HoldIsSerial` say of memory has to hold of memory *and rows*, since a
  crash leaves the rows. A start is the only step that adds to them, and it is
  admitted on a count of the store, which the first part makes a count of
  everything; when the store cannot be read the engine counts its own runs,
  which is why `HoldIsKept` excludes that an unsaved park (`save`) meets a
  failed read. `RoomRemains` needs no such exclusion: a start also takes a
  claim, and it is refused while the pool is full.

**The engine as a pool of slots.** `IsSlotPool` maps the pool's one variable to
`Live`. Every outcome adds at most the run it is about to `Live`, and only
where the method took that run's claim, so by `LiveWithinCaps`' argument both
caps had room; tick, crash and restart only remove runs from `Live`
(`RowsFollow`: a restart finds no row executing that was not in `Live`).

**The queue's argument.** `IInv` says that a request past its lookup has a
slot, that a granted permit stays with its request (handing on a permit
happens only through its owner), and that a slot's counter is never below the
requests it stands for. The last part is what bounds the depth: admission
compares a counter, and each request increments it before it knows the answer.
Without the sweep `OneSlot` is invariant too: all requests work with one slot,
hence one permit, hence a mutex. Without drops a request leaves the states in which it is counted by
decrementing its slot's counter and in no other way, so `CountIsExact` is
inductive beside `IInv`, and a refusal, which compares the counter, counts
requests. The refinement maps the holder of the mutex to the
request whose guard is alive; `Stamp` takes, `Uncount` gives, everything
else stutters.

**The argument for turns.** The invariant ties the one entry of the token map
to the turns: who runs and was not told to stop is the registered turn, or the
victim of one removal, which has the token map locked; the entry belongs to a
turn that has not cleaned up. `RemovalIsAttributed` needs what the cause is at
each stage: from the moment a removal has recorded it, a turn that runs alone
is the only one that can take it, so `IInv` says that the cause is still there
while such a turn has been fired and has not taken it.

**The argument for dispatch.** `IInv` says which claims a delivery in hand
explains (`HandFits`, `ClaimsFit`), what its results may be at each stage
(`BatchFits`, `ResultsFit`), and, under `OwnKeysOnly`, that whatever a message
has started stands in the window, clear (`WindowFits`). Every action is one of
ten kinds of step (it delivers, settles, starts, reserves, fails, activates,
records, replies, rests or crashes); `IInv` is preserved by each kind once,
and each action is shown to be of its kind. For `ImplementsBatch` the batch is
also told apart from what is in memory (`RunsFit`): reserved runs are not
there yet, activated ones are and belong to the message in hand, and what was
retained by an earlier failure is none of them. Then reserving and activating
change nothing that `SopBatch` sees until the last run is activated, which is
its `Start`; a shortfall and a failed activation are its `GiveUp`, because the
rollback takes out exactly the activated runs.

**The argument for the broker.** `Remembered` says that the code learns of
every earlier presentation that anyone could still refer to: once a gate was
decided, the row's revision is positive, or the ledger or the run shows it.
From it `PromptsFit`: an earlier presentation has a smaller revision, and so has
every prompt that was sent for it. `VotesFit` says that a vote with the current revision was cast on
this presentation, by its voter's own transport or another of the same
credential; a quorum counted among the votes is then one among the people.

**The argument for pairing.** Tokens are minted once (`AllUsed`), those of
different pairings are apart, a request's tokens are its own (`JobIsOwn`), and
when requests do not overlap at most one is between its steps (`OneAtATime`),
in which case file and memory agree up to its own tokens (`Serial`), and so do
memory and registry (`Managed`).

**The argument for cron.** A job in the scheduler's hands is there once and its
row is locked (`ClaimedOnce`, `ClaimedAreLocked`), through edits that were read
before the claim and written after it, because an edit writes no lock. `Spent`
jobs have nothing left to do before their next time: no row, not due, or
disabled. `DoneIsOver`: a job whose occurrence was executed
is spent or still waits in `flight` for its result to be written, and is not
`Ahead`, that is, claimed or read to be claimed. The order in the code is what
makes this inductive: the result is written before the lock is taken off, a
poll reads only jobs that are due, enabled and unlocked (`Ready`), and a job
leaves `done` with each of the few steps that make it due or enabled again: its
next time comes (`FallDue`), a start declares it, an edit enables it or puts
back an older `next_run`, or its result cannot be written. Those are the cases
in which the code itself runs an occurrence twice; the comment on
`OncePerOccurrence` lists them.

`LateIsOver` is the same for what was overdue at the start (`late`), with two
more cases (`Left`): a job still to be skipped, and a row whose lock an earlier
run left behind, which no poll can claim. A job that was in flight at a crash is
in `late` like any other. What the code lets run late all the same leaves
`late`: overdue jobs could not be read, the skip could not be written, or an edit
enables the job or puts back the `next_run` it had read before the skip.

**Only model-checked**: the liveness properties `OrphanClaimsReturn`,
`UnsavedParksSettle`, `IdleSlotIsRemoved`, `EveryMessageIsAcked` and
`DueJobsRun`, because the prover does not reason about fairness and `ENABLED`;
and the violation of `AnswersDecideTheirOwnPrompt`, which is a behaviour and
not a theorem. No module uses a `RECURSIVE` operator or needs an induction over
data, which the installed provers could not do; the orders in line of
`CronScheduler` are defined as sets of sequences for this reason.

## 6. What does not hold

One run shows a violation. `sop_late_answer`: the documentation of
`SopRun::revision` says that an answer on a superseded prompt can never resolve
the current one. The channel route compares the reference under one lock and
resolves under the next; in between the gate can be decided through another
surface and presented again, and the old answer then decides the new
presentation. The trace is of a gate under a policy with a request route, as
gates without one get no prompt: a denial has passed the comparison, the
time-out approves, the run meets the gate again, and the denial decides there. The models refute more statements; each is a definition with the
comment "does not hold", or an instance that the passing runs leave out. To see
one, change the configuration as said here.

| statement | change | what happens |
|---|---|---|
| `SopEngine!ExecutingHoldsClaim` | add `finish` to the faults of `sop_slots` | `finish_run` gives the claim back even when the terminal write failed and the run goes on, although the warning it logs says that run and claim remain active (`engine.rs:1181`) |
| `SopEngine!GatedStepNotSkipped` | add `file` to `sop_gates` | when a checkpoint's state file cannot be written the run stays Running at the checkpoint, and the next result passes it |
| `SopEngine!ParkedRunsCanResume` | `sop_recovery`, checked with fairness | a claim kept across a restart for a failed denial is renewed by every tick and makes every later decision on that run look as if the cap were reached (`engine.rs:1077` says that a later attempt resumes it) |
| `SopEngine!OnlyApprovedGatesPass` | `sop_gates`, only `save` | a denial that goes on is saved as Running at the denied step before the next step is dispatched; after a crash the run passes that step |
| `SopDispatch!RolledBackLeavesNoRow` | `sop_dispatch` | the rollback of an executing run forgets it in memory; its activation has saved a row (`engine.rs:1605` takes it for unsaved), so a restart brings the run back beside the requeued message |
| `SopDispatch!EveryMessageIsAcked` | add `cancel` to the faults | a rolled-back park that could not be cancelled keeps its place in the pool, and the message is requeued as long as it does |
| `SopBroker!ChannelMembersAreCounted` | `sop_broker` | under a required group, `vote_principal` (`broker.rs:620`) knows no channels, so votes from there are recorded and never counted, although `docs/book/src/sop/syntax.md:207` explains how to name such members |
| `SopBroker!PromptsAreDistinct`, `PassedByQuorum` | add `history` to the faults | a ledger that cannot be read counts as one without earlier presentations (`engine.rs:2304`): the revision stays, and old votes and prompts fit the new presentation |
| `SessionQueue!MutualExclusion` | `Sweeps = TRUE` in `queue_gateway` | the sweep removes a slot between a request's lookup and its count, and two requests hold the session |
| `SessionQueue!RefusedOnlyWhenFull` | `Drops = TRUE` in `queue_daemon` | a future dropped inside `acquire` stays counted, and in the end every request is refused |
| `RpcTurns!CancelIsAttributed` | `rpc_turns`, also with `Overlap = FALSE` | the clean-up of one turn erases the cause recorded for the next (`session.rs:477` calls it an invariant that there is one) |
| `RpcTurns!KilledSessionIsGone` | `rpc_turns`, `Overlap = FALSE` | a prompt that read the row before the kill restores the session after it |
| `DevicePairing!RevokedStaysRevoked` | `Overlaps = {TRUE}`, no faults | a save that began before a revocation ends after it, and a restart accepts the token again |

Some things the models show and no document contradicts: across SOPs that
share `max_concurrent_total`, runs of one SOP that are held back at its full
pool can hold every slot that its own parked runs need to leave the pool
(`RoomInOwnSop` says that this cannot happen inside one SOP). A single start
that fails for a passing reason is answered as failed and acknowledged, so the
trigger is lost. A failed pairing leaves its device row behind. As many
orphaned jobs as `max_tasks` starve all others. A one-shot declared in the
configuration is enabled again by every start (`store.rs:966`) and runs again
if its row is still due; an edit that was read before a run was recorded or
skipped, even one of the name, makes the job run once more
(`store.rs:391`-`462`).

## 7. Not modelled

In the engine: the older entry points `approve_step`, `deny_checkpoint`,
`start_deterministic_run` and `resume_deterministic_run`; capability steps
that are executed in line; loading of definitions; two engine processes on one
store, and the row revisions that guard against them; the event ledger's
contents apart from votes. In the queue: `queue_depth`, which only reads a
counter. In dispatch: how triggers match, transports that do not acknowledge.
In the broker: what notices say and how they are delivered, the cap on
revisions of a draft.
In the RPC surface: the methods that only read or that work on one session's
history. In pairing: lockouts after wrong codes. In cron: the expressions,
delivery, history, retries, and runs started by hand.

The step router, the executor's own loop, debounce, the control plane, tool
approval, the emergency stop, the cost tracker and the providers' fallback
chain are not modelled yet. The agent loop, tools, channels, memory, plugins,
the configuration schema and the user interfaces, which are most of the
repository's lines, are data handling and I/O behind traits: their control is
sequential and shares no state with other actors beyond the calls modelled
here. `PROJECT.json` gives the reason for each.

## 8. Plan

The number of runs is kept small: a new module takes the place of runs whose
question is settled.

1. An abstract specification of a gate, decided at most once for each
   presentation and by a quorum of the policy in force, refined by `SopBroker`;
   and one of the token table, refined by `DevicePairing` when requests do not
   overlap.
2. `SopDispatch` under the engine's own admission: its claims and rows are those
   of `SopEngine` with fewer states, which a refinement could state.
3. `TaskRegistry`: claiming, heartbeats and boot recovery of background tasks.
4. `SopRouting`: the router as functions, checked against a reference
   definition, and the retry and visit bounds.
5. `EmergencyStop`, `CostBudget`, `MessageDebounce`, `ReliableProvider`: small
   modules, one hazard each.
