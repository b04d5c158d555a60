---------------------------- MODULE SessionQueue ----------------------------
(***************************************************************************)
(* zeroclaw-infra/src/session_queue.rs: the queue that serialises the      *)
(* requests of one session.  Sessions share nothing but the lock of the    *)
(* slot map, so one session's entry in that map is modelled; its slot is   *)
(* an object of its own, which a request goes on using after it let go of  *)
(* the map's lock, and which the sweep of idle slots may take out of the   *)
(* map.  An action is what runs between two accesses to shared state: a    *)
(* lock, an atomic counter, the semaphore, or an await.                    *)
(*                                                                         *)
(* Abstraction: which waiter the semaphore serves next is left open (the   *)
(* semaphore of tokio serves them in order), and a slot nobody refers to   *)
(* any more may be allocated again.                                        *)
(***************************************************************************)
EXTENDS Naturals, FiniteSets

CONSTANTS
    Tasks,     \* requests for the session
    Slots,     \* SessionSlot objects
    NoSlot, Nobody,
    MaxDepth,  \* max_queue_depth
    Sweeps,    \* whether evict_idle is called (the daemon does, the gateway not)
    Drops      \* whether a waiting request may be dropped (the gateway's handlers)

ASSUME QueueConstants ==
    /\ IsFiniteSet(Tasks)
    /\ NoSlot \notin Slots /\ Nobody \notin Tasks
    /\ MaxDepth \in Nat
    /\ Sweeps \in BOOLEAN /\ Drops \in BOOLEAN

VARIABLES
    entry,    \* the session's slot in the map
    pc,       \* where each request stands in acquire, or what it holds
    at,       \* the slot each request works with
    pending,  \* per slot, its counter
    permit,   \* per slot, who has the permit of its semaphore
    stale,    \* the slots whose last_active is older than the TTL
    sweep     \* where evict_idle stands; it holds the map's lock unless "no"

vars == <<entry, pc, at, pending, permit, stale, sweep>>

Init ==
    /\ entry = NoSlot
    /\ pc = [t \in Tasks |-> "idle"]
    /\ at = [t \in Tasks |-> NoSlot]
    /\ pending = [s \in Slots |-> 0]
    /\ permit = [s \in Slots |-> Nobody]
    /\ stale = {}
    /\ sweep = "no"

Goto(t, from, to) == pc[t] = from /\ pc' = [pc EXCEPT ![t] = to]

Waiters(s) == {t \in Tasks : at[t] = s /\ pc[t] = "waiting"}

(* The permit of s goes to a waiter, or back to the semaphore.             *)
PassOn(s, t) ==
    LET others == Waiters(s) \ {t}
    IN  \/ \E u \in others : permit' = [permit EXCEPT ![s] = u]
        \/ others = {} /\ permit' = [permit EXCEPT ![s] = Nobody]

Unused == {s \in Slots : s # entry /\ \A t \in Tasks : at[t] # s}

(* acquire: the slot is found or made under the map's lock.                *)
FindSlot(t) ==
    /\ sweep = "no"
    /\ Goto(t, "idle", "counting")
    /\ \/ /\ entry # NoSlot
          /\ at' = [at EXCEPT ![t] = entry]
          /\ UNCHANGED <<entry, pending, permit, stale>>
       \/ /\ entry = NoSlot
          /\ \E s \in Unused :
                /\ entry' = s
                /\ at' = [at EXCEPT ![t] = s]
                /\ pending' = [pending EXCEPT ![s] = 0]
                /\ permit' = [permit EXCEPT ![s] = Nobody]
                /\ stale' = stale \ {s}
    /\ UNCHANGED sweep

(* Mutants: one request too many is let in; one too few; a request that    *)
(* finds the queue full is taken back without having been counted.         *)
CountLate(t) ==
    LET s == at[t]
    IN  /\ Goto(t, "counting", IF pending[s] > MaxDepth THEN "refused" ELSE "joining")
        /\ pending' = [pending EXCEPT ![s] = @ + 1]
        /\ UNCHANGED <<entry, at, permit, stale, sweep>>
CountEarly(t) ==
    LET s == at[t]
    IN  /\ Goto(t, "counting", IF pending[s] + 1 >= MaxDepth THEN "refused" ELSE "joining")
        /\ pending' = [pending EXCEPT ![s] = @ + 1]
        /\ UNCHANGED <<entry, at, permit, stale, sweep>>
CountAdmitted(t) ==
    LET s == at[t]
    IN  /\ \/ /\ Goto(t, "counting", "refused")
              /\ pending[s] >= MaxDepth
              /\ UNCHANGED pending
           \/ /\ Goto(t, "counting", "joining")
              /\ pending[s] < MaxDepth
              /\ pending' = [pending EXCEPT ![s] = @ + 1]
        /\ UNCHANGED <<entry, at, permit, stale, sweep>>

(* fetch_add, and the comparison with what it returned.                    *)
Count(t) ==
    LET s == at[t]
    IN  /\ Goto(t, "counting", IF pending[s] >= MaxDepth THEN "refused" ELSE "joining")
        /\ pending' = [pending EXCEPT ![s] = @ + 1]
        /\ UNCHANGED <<entry, at, permit, stale, sweep>>

(* acquire_owned: a free permit is taken, else the request waits.          *)
Join(t) ==
    LET s == at[t]
    IN  /\ \/ /\ Goto(t, "joining", "granted")
              /\ permit[s] = Nobody
              /\ permit' = [permit EXCEPT ![s] = t]
           \/ /\ Goto(t, "joining", "waiting")
              /\ permit[s] # Nobody
              /\ UNCHANGED permit
        /\ UNCHANGED <<entry, at, pending, stale, sweep>>

(* Mutant: the waiter does not look whether the permit is its own.         *)
WakeAnyway(t) ==
    /\ Goto(t, "waiting", "granted")
    /\ UNCHANGED <<entry, at, pending, permit, stale, sweep>>

(* A waiter that was handed the permit wakes up.                           *)
Wake(t) ==
    /\ Goto(t, "waiting", "granted")
    /\ permit[at[t]] = t
    /\ UNCHANGED <<entry, at, pending, permit, stale, sweep>>

(* last_active is set; the guard goes to the caller.                       *)
Stamp(t) ==
    /\ Goto(t, "granted", "holding")
    /\ stale' = stale \ {at[t]}
    /\ UNCHANGED <<entry, at, pending, permit, sweep>>

(* Mutant: a waiter gives back a permit it never had.                      *)
StopWaitingReleasing(t, to) ==
    /\ Goto(t, "waiting", to)
    /\ PassOn(at[t], t)
    /\ UNCHANGED <<entry, pending, stale, sweep>>

(* A wait ends without a grant; a permit that arrives just then goes on.   *)
StopWaiting(t, to) ==
    /\ Goto(t, "waiting", to)
    /\ \/ permit[at[t]] = t /\ PassOn(at[t], t)
       \/ permit[at[t]] # t /\ UNCHANGED permit
    /\ UNCHANGED <<entry, pending, stale, sweep>>

(* Mutant: a request that timed out stays counted.                         *)
TimeOutCounted(t) == StopWaiting(t, "idle") /\ at' = [at EXCEPT ![t] = NoSlot]

(* The lock timeout.                                                       *)
TimeOut(t) == StopWaiting(t, "refused") /\ UNCHANGED at

(* Mutant: the counter is taken back twice, by the guard and the refusal.  *)
RefuseTwice(t) ==
    /\ Goto(t, "refused", "idle")
    /\ pending' = [pending EXCEPT ![at[t]] = IF @ > 1 THEN @ - 2 ELSE 0]
    /\ at' = [at EXCEPT ![t] = NoSlot]
    /\ UNCHANGED <<entry, permit, stale, sweep>>

(* The counter is taken back; the caller gets QueueFull or Timeout.        *)
Refuse(t) ==
    /\ Goto(t, "refused", "idle")
    /\ pending' = [pending EXCEPT ![at[t]] = @ - 1]
    /\ at' = [at EXCEPT ![t] = NoSlot]
    /\ UNCHANGED <<entry, permit, stale, sweep>>

(* The caller's future is dropped while acquire waits: the semaphore is    *)
(* told, the counter is not.                                               *)
DropWait(t) ==
    /\ Drops
    /\ StopWaiting(t, "idle")
    /\ at' = [at EXCEPT ![t] = NoSlot]

(* ... or while it waits for the lock of last_active.                      *)
DropGranted(t) ==
    /\ Drops
    /\ Goto(t, "granted", "idle")
    /\ PassOn(at[t], t)
    /\ at' = [at EXCEPT ![t] = NoSlot]
    /\ UNCHANGED <<entry, pending, stale, sweep>>

(* The guard is dropped: the counter first, then the permit.               *)
Uncount(t) ==
    /\ Goto(t, "holding", "releasing")
    /\ pending' = [pending EXCEPT ![at[t]] = @ - 1]
    /\ UNCHANGED <<entry, at, permit, stale, sweep>>

Release(t) ==
    /\ Goto(t, "releasing", "idle")
    /\ PassOn(at[t], t)
    /\ at' = [at EXCEPT ![t] = NoSlot]
    /\ UNCHANGED <<entry, pending, stale, sweep>>

(* The TTL of the slot runs out.                                           *)
Age ==
    /\ entry # NoSlot /\ entry \notin stale
    /\ stale' = stale \cup {entry}
    /\ UNCHANGED <<entry, pc, at, pending, permit, sweep>>

(* evict_idle: last_active is read, then the counter, then the slot goes.  *)
SweepReads ==
    /\ Sweeps
    /\ sweep = "no" /\ entry \in stale
    /\ sweep' = "old"
    /\ UNCHANGED <<entry, pc, at, pending, permit, stale>>

SweepCounts ==
    /\ sweep = "old"
    /\ sweep' = IF pending[entry] = 0 THEN "idle" ELSE "no"
    /\ UNCHANGED <<entry, pc, at, pending, permit, stale>>

SweepRemoves ==
    /\ sweep = "idle"
    /\ entry' = NoSlot
    /\ sweep' = "no"
    /\ UNCHANGED <<pc, at, pending, permit, stale>>

Next ==
    \/ \E t \in Tasks :
          \/ FindSlot(t) \/ Count(t) \/ Join(t) \/ Wake(t) \/ Stamp(t)
          \/ TimeOut(t) \/ Refuse(t) \/ DropWait(t) \/ DropGranted(t)
          \/ Uncount(t) \/ Release(t)
    \/ Age \/ SweepReads \/ SweepCounts \/ SweepRemoves

Spec == Init /\ [][Next]_vars

----------------------------------------------------------------------------
Counted == {"joining", "waiting", "granted", "holding", "refused"}
Admitted == {"joining", "waiting", "granted", "holding"}
With(s, places) == {t \in Tasks : at[t] = s /\ pc[t] \in places}

TypeOK ==
    /\ entry \in Slots \cup {NoSlot}
    /\ pc \in [Tasks -> Counted \cup {"idle", "counting", "releasing"}]
    /\ at \in [Tasks -> Slots \cup {NoSlot}]
    /\ pending \in [Slots -> Nat]
    /\ permit \in [Slots -> Tasks \cup {Nobody}]
    /\ stale \subseteq Slots
    /\ sweep \in {"no", "old", "idle"}

(* Two requests never hold the session at the same time, however their     *)
(* waits, timeouts and drops interleave.                                   *)
MutualExclusion ==
    \A t, u \in Tasks : pc[t] = "holding" /\ pc[u] = "holding" => t = u

(* To its callers the queue is a mutex.                                    *)
Holder == IF \E t \in Tasks : pc[t] = "holding"
          THEN CHOOSE t \in Tasks : pc[t] = "holding"
          ELSE Nobody
Mutex == INSTANCE SessionMutex WITH holder <- Holder
IsMutex == Mutex!Spec

(* The counter of a slot is never below the requests it stands for, so no  *)
(* request that waits is overlooked by the depth check or by the sweep.    *)
CountCoversRequests ==
    \A s \in Slots : Cardinality(With(s, Counted)) <= pending[s]

(* The counter is exact while no wait is dropped: queue_depth, "the number *)
(* of pending requests", also between the two halves of a refusal.         *)
CountIsExact ==
    \A s \in Slots : Cardinality(With(s, Counted)) = pending[s]

(* At most MaxDepth requests hold or wait for one slot, though each counts *)
(* itself before it knows whether there is room.                           *)
DepthWithinBound ==
    \A s \in Slots : Cardinality(With(s, Admitted)) <= MaxDepth

(* "Too many requests queued for this session": a request is turned away   *)
(* only if MaxDepth requests hold, wait, or are being turned away.         *)
RefusedOnlyWhenFull ==
    [][\A t \in Tasks : pc[t] = "counting" /\ pc'[t] = "refused"
            => Cardinality(With(at[t], Counted)) >= MaxDepth]_vars

----------------------------------------------------------------------------
(* Fairness: tokio polls a request that is ready, a wait times out, a turn *)
(* ends and drops its guard, time passes and the daemon sweeps every 60 s. *)
Fairness ==
    /\ \A t \in Tasks :
          /\ WF_vars(Count(t)) /\ WF_vars(Join(t)) /\ WF_vars(Wake(t))
          /\ WF_vars(Stamp(t)) /\ WF_vars(TimeOut(t)) /\ WF_vars(Refuse(t))
          /\ WF_vars(Uncount(t)) /\ WF_vars(Release(t))
    /\ WF_vars(Age) /\ WF_vars(SweepReads)
    /\ WF_vars(SweepCounts) /\ WF_vars(SweepRemoves)

FairSpec == Spec /\ Fairness

(* When no more requests come, the session's slot is removed in the end.   *)
IdleSlotIsRemoved ==
    <>[][\A t \in Tasks : ~FindSlot(t)]_vars => <>[](entry = NoSlot)
=============================================================================
