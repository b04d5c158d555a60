---------------------------- MODULE SopEngineProof ----------------------------
(***************************************************************************)
(* Proofs about SopEngine, for any runs, SOPs, steps, caps and policies.   *)
(*                                                                         *)
(* Whatever a method does to run r, it leaves the other runs alone and     *)
(* what it makes of r is described by Outcome(r): the pieces of a method   *)
(* are shown to have an outcome first, then the methods, and only then are *)
(* the invariants shown to survive every outcome and every step of the     *)
(* tick, of a crash and of a restart.                                      *)
(***************************************************************************)
EXTENDS SopEngine, FiniteSetTheorems, TLAPS

(* The fault assumptions: which store and file calls must not fail.        *)
KeepsClaims == Faults \cap {"finish", "beat"} = {}
KeepsRows   == Faults \cap {"finish", "beat", "renew", "load"} = {}
KeepsGates  == Faults \cap {"finish", "file"} = {}
CountsParks == ~({"read", "save"} \subseteq Faults)

Claims == {"free", "held", "retained"}

GateOK(r, s) == s.status = "Running" /\ GatedAt(r, s.step) => s.gate # "open"

(* A dead process has no memory and no tick.                               *)
Down == ~up => phase = "idle" /\ \A r \in Runs : mem[r] = None

(* The leases a tick has to renew before it reaps.                         *)
LeasesKept ==
    /\ phase = "retry"   => unsaved \subseteq renewed \cup todo
    /\ phase = "promote" => unsaved \subseteq renewed
    /\ phase = "reap"    => unsaved \cup Rows(mem, Executing) \subseteq renewed

(* A row that executes is that of a run that executes, or that parked and  *)
(* is still unsaved.                                                       *)
RowsFollow ==
    up => \A r \in Rows(disk, Executing) :
             mem[r].status \in Executing \/ (mem[r].status \in Parked /\ r \in unsaved)

LiveWithinCaps ==
    /\ Cardinality(Live) <= MaxTotal
    /\ \A s \in Sops : Cardinality(Live \cap Of(s)) <= MaxConcurrent[s]

GatesHold == \A r \in Runs : GateOK(r, mem[r]) /\ GateOK(r, disk[r])

(* The engine remembers runs in flight only, and none that has finished.   *)
InFlight == Executing \cup Parked
MemoryIsLive == \A r \in Runs : /\ mem[r] = None \/ mem[r].status \in InFlight
                                /\ disk[r].status \in Terminal => mem[r] = None

(* Nothing is left to be written if saves do not fail.                     *)
AllSaved == "save" \notin Faults => unsaved = {}

(* A live engine knows every run whose row is in flight.                   *)
RowsAreKnown == up => Rows(disk, InFlight) \subseteq Rows(mem, InFlight)

(* What is in flight, or would be after a crash.                           *)
Engaged == Rows(mem, InFlight) \cup Rows(disk, InFlight)

EngagedHaveRoom ==
    \A s \in Sops : MaxPending[s] > 0 /\ MaxConcurrent[s] > 0 =>
        Cardinality(Engaged \cap Of(s)) < MaxConcurrent[s] + MaxPending[s]

EngagedAreSerial ==
    \A s \in Sops : Policy[s] \in {"Hold", "Coalesce"} =>
        \A q, r \in Engaged \cap Of(s) : q = r

(* The runs a tick has still to promote are held back at their gates.      *)
TodoBlocked == phase = "promote" => todo \subseteq Blocked

BaseInv  == TypeOK /\ Down /\ TodoBlocked
LifeInv  == MemoryIsLive /\ AllSaved
ClaimInv == ExecutingHoldsClaim /\ ParkSurvivesCrash /\ LeasesKept
RowInv   == RowsFollow /\ LiveWithinCaps
FlightInv == /\ RowsAreKnown /\ EngagedHaveRoom
             /\ CountsParks => EngagedAreSerial

IInv == /\ BaseInv /\ LifeInv
        /\ PoolWithinBound
        /\ KeepsClaims => ClaimInv
        /\ KeepsRows => RowInv /\ FlightInv
        /\ KeepsGates => GatesHold

----------------------------------------------------------------------------
(* What becomes of run r: it goes on, it finishes and is forgotten, or it   *)
(* never began.  A row that has finished is not touched.                   *)
Fate(r) ==
    /\ disk[r].status \notin Terminal
    /\ \/ mem'[r].status \in InFlight /\ disk'[r].status \notin Terminal
       \/ mem'[r] = None /\ disk'[r].status \in Terminal
       \/ mem[r] = None /\ mem'[r] = None /\ disk'[r] = None

(* What a method makes of run r.                                           *)
Outcome(r) ==
    /\ mem' \in [Runs -> Snapshots] /\ disk' \in [Runs -> Snapshots]
    /\ claim' \in [Runs -> Claims]
    /\ unsaved' \subseteq Runs /\ keep' \subseteq keep
    /\ \A q \in Runs \ {r} : /\ mem'[q] = mem[q] /\ disk'[q] = disk[q]
                             /\ claim'[q] = claim[q]
                             /\ q \in unsaved' <=> q \in unsaved
    /\ KeepsClaims =>
          /\ mem'[r].status \in Executing => claim'[r] # "free"
          /\ mem'[r].status \in Parked =>
                disk'[r] = mem'[r] \/ (r \in unsaved' /\ claim'[r] # "free")
          /\ disk'[r].status \in Executing =>
                mem'[r].status \in Executing \/ (mem'[r].status \in Parked /\ r \in unsaved')
    /\ KeepsGates => GateOK(r, mem'[r]) /\ GateOK(r, disk'[r])
    /\ disk'[r].status \in Parked => disk[r].status \in Parked \/ PoolHasRoom(r, disk)
    /\ "save" \notin Faults => unsaved' \subseteq unsaved
    /\ Fate(r)

(* What a piece may rely on: t and c differ from the store at r only.      *)
Frame(r, t, c) ==
    /\ TypeOK /\ r \in Runs
    /\ t \in [Runs -> Snapshots] /\ c \in [Runs -> Claims]
    /\ \A q \in Runs \ {r} : t[q] = disk[q] /\ c[q] = claim[q]
    /\ t[r].status \in Parked => disk[r].status \in Parked
    /\ disk[r].status \notin Terminal /\ t[r].status \notin Terminal
    /\ KeepsGates => GateOK(r, t[r])

LEMMA FrameKeepsRoom ==
    ASSUME NEW r, NEW t, NEW c, Frame(r, t, c), PoolHasRoom(r, t)
    PROVE  PoolHasRoom(r, disk)
<1>1. ParkedIn(t, SopOf[r]) \ {r} = ParkedIn(disk, SopOf[r]) \ {r}
  BY DEF Frame, ParkedIn, Rows, Of
<1>. QED
  BY <1>1 DEF PoolHasRoom

LEMMA CarryOutcome ==
    ASSUME NEW r, NEW s \in Snapshots, NEW t, NEW c, Frame(r, t, c), KeepsClaims => c[r] # "free",
           s.status \in Executing, KeepsGates => GateOK(r, s), Carry(r, s, t, c)
    PROVE  Outcome(r)
<1>1. /\ mem' = [mem EXCEPT ![r] = s] /\ claim' = c /\ unsaved' = unsaved /\ keep' = keep
      /\ disk' = [t EXCEPT ![r] = s] \/ disk' = t
  BY DEF Carry, Saved, tracked
<1>2. /\ mem \in [Runs -> Snapshots] /\ unsaved \subseteq Runs
      /\ r \in Runs /\ t \in [Runs -> Snapshots]
  BY DEF Frame, TypeOK
<1>3. s.status \notin Parked
  BY DEF Executing, Parked
<1>4. Fate(r)
  <2>1. mem'[r] = s /\ disk'[r] \in {s, t[r]} /\ disk[r].status \notin Terminal
    BY <1>1, <1>2 DEF Frame, TypeOK
  <2>2. s.status \in InFlight /\ s.status \notin Terminal
    BY DEF InFlight, Executing, Terminal
  <2>. QED
    BY <2>1, <2>2 DEF Fate, Frame
<1>. QED
  BY <1>1, <1>2, <1>3, <1>4 DEF Frame, Outcome

(* Snapshots that differ in a field or two.                                *)
LEMMA Updates ==
    ASSUME NEW s \in Snapshots, NEW st \in Executing \cup Parked \cup Terminal,
           NEW n \in Steps, NEW g \in {"open", "approved", "denied"}
    PROVE  /\ [s EXCEPT !.status = st] \in Snapshots
           /\ [s EXCEPT !.status = st, !.step = n, !.gate = g] \in Snapshots
           /\ [s EXCEPT !.step = n, !.gate = g] \in Snapshots
           /\ [s EXCEPT !.status = st, !.gate = g] \in Snapshots
           /\ [s EXCEPT !.status = st, !.seen = @ \cup {s.step}] \in Snapshots
           /\ [s EXCEPT !.seen = @ \cup {s.step}] \in Snapshots
BY DEF Snapshots

LEMMA DeferOutcome ==
    ASSUME NEW r, NEW s \in Snapshots, NEW t, NEW c, Frame(r, t, c), KeepsClaims => c[r] # "free",
           Defer(r, s, t, c)
    PROVE  Outcome(r)
<1>. DEFINE x == [s EXCEPT !.status = "Pending", !.seen = @ \cup {s.step}]
<1>1. x \in Snapshots /\ x.status = "Pending"
  BY DEF Snapshots, Executing
<1>2. x.status \in Executing /\ GateOK(r, x) /\ Carry(r, x, t, c)
  BY <1>1 DEF Executing, GateOK, Defer
<1>. QED
  BY <1>1, <1>2, CarryOutcome

LEMMA ParkOutcome ==
    ASSUME NEW r, NEW s \in Snapshots, NEW t, NEW c, Frame(r, t, c), KeepsClaims => c[r] # "free",
           s.status \in Parked, Park(r, s, t, c)
    PROVE  Outcome(r)
<1>1. /\ mem \in [Runs -> Snapshots] /\ unsaved \subseteq Runs /\ keep \subseteq Runs
      /\ r \in Runs /\ t \in [Runs -> Snapshots] /\ c \in [Runs -> Claims]
  BY DEF Frame, TypeOK
<1>2. /\ s.status \notin Executing /\ GateOK(r, s)
      /\ s.status \in InFlight /\ s.status \notin Terminal
  BY DEF Executing, Parked, GateOK, InFlight, Terminal
<1>3. CASE /\ PoolHasRoom(r, t)
           /\ mem' = [mem EXCEPT ![r] = s] /\ disk' = [t EXCEPT ![r] = s]
           /\ claim' \in Released(r, c) /\ unsaved' = unsaved \ {r} /\ keep' = keep
  <2>1. PoolHasRoom(r, disk)
    BY <1>3, FrameKeepsRoom
  <2>2. claim' = [c EXCEPT ![r] = "free"] \/ claim' = c
    BY <1>3 DEF Released
  <2>3. Fate(r)
    BY <1>1, <1>2, <1>3 DEF Fate, Frame
  <2>. QED
    BY <1>1, <1>2, <1>3, <2>1, <2>2, <2>3 DEF Frame, Outcome, Claims
<1>4. CASE Defer(r, s, t, c)
  BY <1>4, DeferOutcome
<1>5. CASE /\ Fails("save")
           /\ mem' = [mem EXCEPT ![r] = s] /\ disk' = t /\ claim' = c
           /\ unsaved' = unsaved \cup {r} /\ keep' = keep
  BY <1>1, <1>2, <1>5 DEF Frame, Outcome, Fate, Fails
<1>. QED
  BY <1>3, <1>4, <1>5 DEF Park

(* "back" matters only when the terminal write fails.                      *)
LEMMA FinishOutcome ==
    ASSUME NEW r, NEW s \in Snapshots, NEW t, NEW c, NEW back \in Snapshots, Frame(r, t, c),
           back.status \in InFlight,
           NEW outcome \in {"Completed", "Failed", "Cancelled"}, Finish(r, s, outcome, t, c, back)
    PROVE  Outcome(r)
<1>1. /\ mem \in [Runs -> Snapshots] /\ unsaved \subseteq Runs /\ keep \subseteq Runs
      /\ r \in Runs /\ t \in [Runs -> Snapshots] /\ c \in [Runs -> Claims]
  BY DEF Frame, TypeOK
<1>2. CASE /\ mem' = [mem EXCEPT ![r] = None]
           /\ disk' = [t EXCEPT ![r] = [s EXCEPT !.status = outcome]]
           /\ claim' = [c EXCEPT ![r] = "free"]
           /\ unsaved' = unsaved \ {r} /\ keep' = keep \ {r}
  <2>1. None \in Snapshots /\ None.status = "none"
    BY ConstantsOK DEF ConstantsOK, None, Snapshots
  <2>2. /\ [s EXCEPT !.status = outcome] \in Snapshots
        /\ [s EXCEPT !.status = outcome].status = outcome
    BY DEF Snapshots, Terminal
  <2>3. /\ mem' \in [Runs -> Snapshots] /\ disk' \in [Runs -> Snapshots]
        /\ claim' \in [Runs -> Claims]
        /\ mem'[r].status = "none" /\ disk'[r].status = outcome
    BY <1>1, <1>2, <2>1, <2>2 DEF Claims
  <2>4. /\ mem'[r].status \notin Executing \cup Parked
        /\ disk'[r].status \notin Executing \cup Parked
        /\ GateOK(r, mem'[r]) /\ GateOK(r, disk'[r])
    BY <2>3 DEF Executing, Parked, GateOK
  <2>5. \A q \in Runs \ {r} : /\ mem'[q] = mem[q] /\ disk'[q] = disk[q]
                              /\ claim'[q] = claim[q]
                              /\ q \in unsaved' <=> q \in unsaved
    BY <1>1, <1>2 DEF Frame
  <2>6. Fate(r)
    BY <1>1, <1>2, <2>3 DEF Fate, Frame, Terminal
  <2>. QED
    BY <1>1, <1>2, <2>3, <2>4, <2>5, <2>6 DEF Outcome
<1>3. CASE /\ Fails("finish")
           /\ mem' = [mem EXCEPT ![r] = back] /\ disk' = t
           /\ claim' \in Released(r, c) /\ unsaved' = unsaved /\ keep' = keep
  <2>1. ~KeepsClaims /\ ~KeepsGates
    BY <1>3 DEF Fails, KeepsClaims, KeepsGates
  <2>2. claim' = [c EXCEPT ![r] = "free"] \/ claim' = c
    BY <1>3 DEF Released
  <2>3. Fate(r)
    BY <1>1, <1>3 DEF Fate, Frame
  <2>. QED
    BY <1>1, <1>3, <2>1, <2>2, <2>3 DEF Frame, Outcome, Claims
<1>. QED
  BY <1>2, <1>3 DEF Finish, tracked

LEMMA DispatchOutcome ==
    ASSUME NEW r, NEW s \in Snapshots, NEW n \in Steps, NEW t, NEW c, Frame(r, t, c),
           KeepsClaims => c[r] # "free", s.status \in Executing, Dispatch(r, s, n, t, c)
    PROVE  Outcome(r)
<1>. DEFINE at == [s EXCEPT !.status = "Running", !.step = n, !.gate = "open"]
            parked == [at EXCEPT !.status = ParkStatus(r)]
<1>1. at \in Snapshots /\ at.status = "Running" /\ at.step = n
  BY DEF Snapshots, Executing
<1>2. parked \in Snapshots /\ parked.status \in Parked
  BY <1>1 DEF Snapshots, ParkStatus, Parked
<1>. HIDE DEF at, parked
<1>3. CASE Finish(r, s, "Failed", t, c, s) \/ Finish(r, at, "Failed", t, c, at)
  BY <1>1, <1>3, FinishOutcome DEF InFlight, Executing
<1>4. CASE Defer(r, at, t, c)
  BY <1>1, <1>4, DeferOutcome
<1>5. CASE ~GatedAt(r, n) /\ Carry(r, at, t, c)
  BY <1>1, <1>5, CarryOutcome DEF GateOK, Executing
<1>6. CASE Park(r, parked, t, c)
  BY <1>2, <1>6, ParkOutcome
<1>. QED
  BY <1>3, <1>4, <1>5, <1>6 DEF Dispatch, at, parked

(* The run is left in memory as it stands, with nothing written.           *)
LEMMA UnwrittenOutcome ==
    ASSUME NEW r, NEW s \in Snapshots, NEW t, NEW c, Frame(r, t, c), KeepsClaims => c[r] # "free",
           s.status \in Executing, KeepsGates => GateOK(r, s),
           mem' = [mem EXCEPT ![r] = s], disk' = t, claim' = c, UNCHANGED tracked
    PROVE  Outcome(r)
<1>1. Carry(r, s, t, c) \/ Outcome(r)
  <2>1. /\ mem \in [Runs -> Snapshots] /\ unsaved \subseteq Runs /\ keep' = keep
        /\ r \in Runs /\ t \in [Runs -> Snapshots] /\ unsaved' = unsaved
    BY DEF Frame, TypeOK, tracked
  <2>2. /\ s.status \notin Parked
        /\ s.status \in InFlight /\ s.status \notin Terminal
    BY DEF Executing, Parked, InFlight, Terminal
  <2>3. Fate(r)
    BY <2>1, <2>2 DEF Frame, Fate
  <2>. QED
    BY <2>1, <2>2, <2>3 DEF Frame, Outcome
<1>. QED
  BY <1>1, CarryOutcome

LEMMA GoOnOutcome ==
    ASSUME NEW r, NEW s \in Snapshots, NEW t, NEW c, NEW good, Frame(r, t, c),
           KeepsClaims => c[r] # "free", s.status \in Executing, GoOn(r, s, t, c, good)
    PROVE  Outcome(r)
<1>1. PICK n \in Steps : \/ Dispatch(r, s, n, t, c)
                         \/ StateFileFails(r, s, n, t, c)
                         \/ good /\ Defer(r, [s EXCEPT !.step = n, !.gate = "open"], t, c)
  BY DEF GoOn
<1>2. CASE Dispatch(r, s, n, t, c)
  BY <1>2, DispatchOutcome
<1>3. CASE StateFileFails(r, s, n, t, c)
  <2>. DEFINE at == [s EXCEPT !.status = "Running", !.step = n, !.gate = "open"]
  <2>1. at \in Snapshots /\ at.status \in Executing
    BY DEF Snapshots, Executing
  <2>2. ~KeepsGates /\ mem' = [mem EXCEPT ![r] = at] /\ disk' = t /\ claim' = c /\ UNCHANGED tracked
    BY <1>3 DEF StateFileFails, Fails, KeepsGates
  <2>. QED
    BY <2>1, <2>2, UnwrittenOutcome
<1>4. CASE Defer(r, [s EXCEPT !.step = n, !.gate = "open"], t, c)
  <2>1. [s EXCEPT !.step = n, !.gate = "open"] \in Snapshots
    BY DEF Snapshots
  <2>. QED
    BY <1>4, <2>1, DeferOutcome
<1>. QED
  BY <1>1, <1>2, <1>3, <1>4

LEMMA RouteOutcome ==
    ASSUME NEW r, NEW s \in Snapshots, NEW t, NEW c, NEW good, Frame(r, t, c),
           KeepsClaims => c[r] # "free", s.status \in Executing, KeepsGates => GateOK(r, s),
           Route(r, s, t, c, good)
    PROVE  Outcome(r)
<1>1. CASE GoOn(r, s, t, c, good)
  BY <1>1, GoOnOutcome
<1>2. CASE StepGone(r, s, t, c)
  BY <1>2, UnwrittenOutcome DEF StepGone
<1>3. CASE Finish(r, s, "Completed", t, c, s) \/ Finish(r, s, "Failed", t, c, s)
  BY <1>3, FinishOutcome DEF InFlight
<1>. QED
  BY <1>1, <1>2, <1>3 DEF Route

----------------------------------------------------------------------------
(* The methods.                                                            *)

Begun(r) == mem[r].status \in InFlight \/ disk[r] = None

LEMMA BegunIsNotOver ==
    ASSUME IInv, NEW r \in Runs, Begun(r)
    PROVE  disk[r].status \notin Terminal
BY DEF IInv, LifeInv, MemoryIsLive, Begun, None, Terminal, InFlight, Executing, Parked

LEMMA FrameHere ==
    ASSUME IInv, NEW r \in Runs, Begun(r)
    PROVE  Frame(r, disk, claim)
BY BegunIsNotOver DEF IInv, BaseInv, TypeOK, Frame, GatesHold, Claims

LEMMA FrameHeld ==
    ASSUME IInv, NEW r \in Runs, Begun(r), NEW x \in {"held", "retained"}
    PROVE  /\ Frame(r, disk, [claim EXCEPT ![r] = x])
           /\ [claim EXCEPT ![r] = x][r] # "free"
BY BegunIsNotOver DEF IInv, BaseInv, TypeOK, Frame, GatesHold, Claims

(* A method that fails and leaves a parked or a new run as it was, with  *)
(* the claim it took or without.                                           *)
LEMMA UntouchedOutcome ==
    ASSUME IInv, NEW r \in Runs, r \notin unsaved,
           mem[r].status \in Parked \/ (mem[r] = None /\ disk[r] = None),
           NEW x \in {"held", "retained"}, claim' \in Released(r, [claim EXCEPT ![r] = x]),
           UNCHANGED <<mem, disk, tracked>>
    PROVE  Outcome(r)
<1>1. /\ mem \in [Runs -> Snapshots] /\ disk \in [Runs -> Snapshots]
      /\ claim \in [Runs -> Claims] /\ unsaved \subseteq Runs
      /\ unsaved' = unsaved /\ keep' = keep /\ mem' = mem /\ disk' = disk
  BY DEF IInv, BaseInv, TypeOK, Claims, tracked
<1>2. claim' \in [Runs -> Claims] /\ \A q \in Runs \ {r} : claim'[q] = claim[q]
  BY <1>1 DEF Released, Claims
<1>3. /\ mem[r].status \notin Executing
      /\ KeepsClaims => disk[r] = mem[r]
  BY DEF IInv, ClaimInv, ParkSurvivesCrash, Rows, None, Executing, Parked
<1>4. KeepsGates => GateOK(r, mem[r]) /\ GateOK(r, disk[r])
  BY DEF IInv, GatesHold
<1>5. Fate(r)
  BY <1>1, BegunIsNotOver DEF Fate, Begun, InFlight
<1>. QED
  BY <1>1, <1>2, <1>3, <1>4, <1>5 DEF Outcome

LEMMA NoneIsSnapshot == None \in Snapshots /\ Fresh \in Snapshots
BY ConstantsOK DEF ConstantsOK, None, Fresh, Snapshots, Executing

LEMMA StartRunOutcome ==
    ASSUME IInv, NEW r \in Runs, StartRun(r)
    PROVE  Outcome(r)
<1>. DEFINE c == [claim EXCEPT ![r] = "held"]
<1>1. Frame(r, disk, c) /\ c[r] # "free"
  BY FrameHeld DEF StartRun, Begun
<1>2. 1 \in Steps /\ Fresh \in Snapshots /\ Fresh.status \in Executing
  BY ConstantsOK, NoneIsSnapshot DEF ConstantsOK, Fresh, None, Executing
<1>3. CASE Dispatch(r, Fresh, 1, disk, c)
  BY <1>1, <1>2, <1>3, DispatchOutcome
<1>4. CASE claim' \in Released(r, c) /\ UNCHANGED <<mem, disk, tracked>>
  <2>1. mem[r] = None /\ disk[r] = None
    BY DEF StartRun
  <2>2. CASE r \notin unsaved
    BY <1>4, <2>1, <2>2, UntouchedOutcome
  <2>3. CASE r \in unsaved
    <3>1. /\ mem \in [Runs -> Snapshots] /\ disk \in [Runs -> Snapshots]
          /\ claim \in [Runs -> Claims] /\ unsaved \subseteq Runs
          /\ unsaved' = unsaved /\ keep' = keep /\ mem' = mem /\ disk' = disk
      BY <1>4 DEF IInv, BaseInv, TypeOK, Claims, tracked
    <3>2. claim' \in [Runs -> Claims] /\ \A q \in Runs \ {r} : claim'[q] = claim[q]
      BY <1>4, <3>1 DEF Released, Claims
    <3>3. /\ GateOK(r, None) /\ None.status \notin Executing \cup Parked
          /\ Fate(r)
      BY <2>1, <3>1 DEF GateOK, None, Executing, Parked, Fate, Terminal
    <3>. QED
      BY <2>1, <3>1, <3>2, <3>3 DEF Outcome
  <2>. QED
    BY <2>2, <2>3
<1>. QED
  BY <1>3, <1>4 DEF StartRun

LEMMA AdvanceStepOutcome ==
    ASSUME IInv, NEW r \in Runs, AdvanceStep(r)
    PROVE  Outcome(r)
<1>1. PICK good \in BOOLEAN : Route(r, Record(mem[r]), disk, claim, good)
  BY DEF AdvanceStep
<1>2. mem[r] \in Snapshots /\ mem[r].status \in Executing
  BY DEF IInv, BaseInv, TypeOK, AdvanceStep
<1>3. /\ Record(mem[r]) \in Snapshots
      /\ Record(mem[r]).status = mem[r].status
      /\ Record(mem[r]).step = mem[r].step
      /\ Record(mem[r]).gate = mem[r].gate
  BY <1>2 DEF Record, Snapshots
<1>4. KeepsGates => GateOK(r, Record(mem[r]))
  BY <1>3 DEF IInv, GatesHold, GateOK
<1>5. KeepsClaims => claim[r] # "free"
  BY <1>2 DEF IInv, ClaimInv, ExecutingHoldsClaim, Rows, Held
<1>6. Frame(r, disk, claim)
  BY <1>2, FrameHere DEF Begun, InFlight
<1>. QED
  BY <1>1, <1>2, <1>3, <1>4, <1>5, <1>6, RouteOutcome

LEMMA EndRunOutcome ==
    ASSUME IInv, NEW r \in Runs, EndRun(r) \/ DenyGate(r)
    PROVE  Outcome(r)
<1>1. PICK outcome \in {"Completed", "Failed", "Cancelled"} :
         Finish(r, mem[r], outcome, disk, claim, mem[r])
  BY DEF EndRun, DenyGate
<1>2. mem[r] \in Snapshots /\ mem[r].status \in InFlight
  BY DEF IInv, BaseInv, TypeOK, EndRun, DenyGate, InFlight, Parked
<1>3. Frame(r, disk, claim)
  BY <1>2, FrameHere DEF Begun
<1>. QED
  BY <1>1, <1>2, <1>3, FinishOutcome

LEMMA ApproveGateOutcome ==
    ASSUME IInv, NEW r \in Runs, ApproveGate(r)
    PROVE  Outcome(r)
<1>. DEFINE c == [claim EXCEPT ![r] = "held"]
<1>2. mem[r] \in Snapshots /\ mem[r].status \in Parked /\ r \notin unsaved
  BY DEF IInv, BaseInv, TypeOK, ApproveGate, CanResume, Parked
<1>1. Frame(r, disk, c) /\ c[r] # "free"
  BY <1>2, FrameHeld DEF Begun, InFlight
<1>3. CASE \E next \in Cleared(mem[r]) :
              /\ mem' = [mem EXCEPT ![r] = next] /\ disk' = [disk EXCEPT ![r] = next]
              /\ claim' = c /\ UNCHANGED tracked
  <2>1. PICK next \in Cleared(mem[r]) :
              /\ mem' = [mem EXCEPT ![r] = next] /\ disk' = [disk EXCEPT ![r] = next]
              /\ claim' = c /\ UNCHANGED tracked
    BY <1>3
  <2>2. next \in Snapshots /\ next.status \in Executing /\ next.gate = "approved"
    <3>1. /\ Record(mem[r]) \in Snapshots
          /\ next = [mem[r] EXCEPT !.status = "Running", !.gate = "approved"] \/
             next = [Record(mem[r]) EXCEPT !.status = "Pending", !.gate = "approved"]
      BY <1>2 DEF Cleared, Record, Snapshots
    <3>2. ASSUME NEW s \in Snapshots, NEW st \in Executing,
                 next = [s EXCEPT !.status = st, !.gate = "approved"]
          PROVE  next \in Snapshots /\ next.status = st /\ next.gate = "approved"
      BY <3>2 DEF Snapshots
    <3>. QED
      BY <1>2, <3>1, <3>2 DEF Executing
  <2>3. /\ next.status \notin Parked /\ GateOK(r, next)
    BY <2>2 DEF Executing, Parked, GateOK
  <2>4. mem \in [Runs -> Snapshots] /\ disk \in [Runs -> Snapshots] /\ unsaved \subseteq Runs
    BY DEF IInv, BaseInv, TypeOK
  <2>5. Fate(r)
    <3>1. next.status \in InFlight /\ next.status \notin Terminal
      BY <2>2 DEF InFlight, Executing, Terminal
    <3>. QED
      BY <1>1, <2>1, <2>4, <3>1 DEF Fate, Frame
  <2>. QED
    BY <1>1, <2>1, <2>2, <2>3, <2>4, <2>5 DEF Frame, Outcome, tracked
<1>4. CASE Finish(r, mem[r], "Failed", disk, c, mem[r])
  BY <1>1, <1>2, <1>4, FinishOutcome DEF InFlight
<1>5. CASE claim' \in Released(r, c) /\ UNCHANGED <<mem, disk, tracked>>
  BY <1>2, <1>5, UntouchedOutcome
<1>. QED
  BY <1>3, <1>4, <1>5 DEF ApproveGate

LEMMA ContinueOutcome ==
    ASSUME IInv, NEW r \in Runs, NEW good \in BOOLEAN, mem[r].status \in Parked, r \notin unsaved,
           Continue(r, [claim EXCEPT ![r] = "held"], good)
    PROVE  Outcome(r)
<1>. DEFINE c    == [claim EXCEPT ![r] = "held"]
            next == [Record(mem[r]) EXCEPT !.status = "Running",
                                           !.gate = IF good THEN "approved" ELSE "denied"]
            t    == [disk EXCEPT ![r] = next]
<1>1. Frame(r, disk, c) /\ c[r] # "free"
  BY FrameHeld DEF Begun, InFlight
<1>2. mem[r] \in Snapshots
  BY DEF IInv, BaseInv, TypeOK
<1>3. next \in Snapshots /\ next.status = "Running" /\ next.gate # "open"
  BY <1>2 DEF Record, Snapshots, Executing
<1>4. /\ next.status \in Executing /\ GateOK(r, next) /\ next.status \notin Parked
      /\ next.status \notin Terminal
  BY <1>3 DEF Executing, GateOK, Parked, Terminal
<1>. HIDE DEF next
<1>5. Frame(r, t, c)
  BY <1>1, <1>3, <1>4 DEF Frame, TypeOK
<1>6. CASE GoOn(r, next, t, c, good)
  BY <1>1, <1>3, <1>4, <1>5, <1>6, GoOnOutcome
<1>7. CASE StepGone(r, next, t, c)
  BY <1>1, <1>3, <1>4, <1>5, <1>7, UnwrittenOutcome DEF StepGone
<1>8. CASE \E outcome \in {"Completed", "Failed"} : Finish(r, next, outcome, disk, c, mem[r])
  BY <1>1, <1>2, <1>3, <1>8, FinishOutcome DEF InFlight
<1>9. CASE claim' \in Released(r, c) /\ UNCHANGED <<mem, disk, tracked>>
  BY <1>9, UntouchedOutcome
<1>. QED
  BY <1>6, <1>7, <1>8, <1>9 DEF Continue, next

LEMMA CheckpointOutcome ==
    ASSUME IInv, NEW r \in Runs,
           ApproveCheckpoint(r) \/ DenyCheckpoint(r) \/ RejectCheckpoint(r) \/ ReviseCheckpoint(r)
    PROVE  Outcome(r)
<1>1. mem[r] \in Snapshots /\ mem[r].status \in Parked /\ r \notin unsaved
  BY DEF IInv, BaseInv, TypeOK, ApproveCheckpoint, DenyCheckpoint, RejectCheckpoint,
         ReviseCheckpoint, CanResume, Parked
<1>2. CASE ApproveCheckpoint(r) \/ DenyCheckpoint(r)
  BY <1>1, <1>2, ContinueOutcome DEF ApproveCheckpoint, DenyCheckpoint
<1>3. CASE RejectCheckpoint(r)
  <2>. DEFINE s == [Record(mem[r]) EXCEPT !.status = "Running"]
              c == [claim EXCEPT ![r] = "retained"]
  <2>1. s \in Snapshots
    BY <1>1 DEF Record, Snapshots, Executing
  <2>2. Frame(r, disk, c)
    BY <1>1, FrameHeld DEF Begun, InFlight
  <2>3. CASE Finish(r, s, "Failed", disk, c, mem[r])
    BY <1>1, <2>1, <2>2, <2>3, FinishOutcome DEF InFlight
  <2>4. CASE /\ claim' \in Released(r, [claim EXCEPT ![r] = "held"])
             /\ UNCHANGED <<mem, disk, tracked>>
    BY <1>1, <2>4, UntouchedOutcome
  <2>. QED
    BY <1>3, <2>3, <2>4 DEF RejectCheckpoint
<1>4. CASE ReviseCheckpoint(r)
  BY <1>1, <1>4, UntouchedOutcome DEF ReviseCheckpoint
<1>. QED
  BY <1>2, <1>3, <1>4

Method(r) ==
    \/ StartRun(r) \/ AdvanceStep(r) \/ EndRun(r)
    \/ ApproveGate(r) \/ DenyGate(r)
    \/ ApproveCheckpoint(r) \/ DenyCheckpoint(r) \/ RejectCheckpoint(r) \/ ReviseCheckpoint(r)

LEMMA MethodOutcome ==
    ASSUME IInv, NEW r \in Runs, Method(r)
    PROVE  /\ Outcome(r)
           /\ up /\ phase = "idle" /\ UNCHANGED <<up, phase, todo, renewed>>
<1>1. Outcome(r)
  BY StartRunOutcome, AdvanceStepOutcome, EndRunOutcome, ApproveGateOutcome, CheckpointOutcome
     DEF Method
<1>2. Idle
  BY DEF Method, StartRun, AdvanceStep, EndRun, ApproveGate, DenyGate, ApproveCheckpoint,
         DenyCheckpoint, RejectCheckpoint, ReviseCheckpoint
<1>. QED
  BY <1>1, <1>2 DEF Idle, tick

(* The tick parks a run that was held back at its gate, or passes it over. *)
LEMMA PromoteOutcome ==
    ASSUME IInv, NEW r \in Runs, PromotePending(r)
    PROVE  /\ phase = "promote" /\ todo' = todo \ {r} /\ UNCHANGED <<up, phase>>
           /\ renewed \subseteq renewed' /\ renewed' \subseteq renewed \cup {r}
           /\ mem[r].status = "Pending"
           /\ \/ /\ Outcome(r)
                 /\ KeepsClaims => r \in renewed'
              \/ UNCHANGED <<mem, disk, claim, unsaved, keep, renewed>>
<1>1. /\ phase = "promote" /\ r \in todo /\ todo' = todo \ {r} /\ UNCHANGED <<up, phase>>
  BY DEF PromotePending
<1>2. mem[r] \in Snapshots /\ mem[r].status = "Pending"
  BY <1>1 DEF IInv, BaseInv, TypeOK, TodoBlocked, Blocked
<1>. DEFINE s == [mem[r] EXCEPT !.status = ParkStatus(r), !.gate = "open"]
<1>3. CASE Park(r, s, disk, claim) /\ renewed' \in Renew(r)
  <2>1. s \in Snapshots /\ s.status \in Parked
    BY <1>2 DEF Snapshots, ParkStatus, Parked
  <2>2. KeepsClaims => claim[r] # "free"
    BY <1>2 DEF IInv, ClaimInv, ExecutingHoldsClaim, Rows, Held, Executing
  <2>3. Outcome(r)
    BY <1>2, <1>3, <2>1, <2>2, FrameHere, ParkOutcome DEF Begun, InFlight, Executing
  <2>4. /\ renewed' = renewed \cup {r} \/ renewed' = renewed
        /\ KeepsClaims => renewed' = renewed \cup {r}
    BY <1>3 DEF Renew, Fails, KeepsClaims
  <2>. QED
    BY <1>1, <1>2, <2>3, <2>4
<1>4. CASE UNCHANGED <<mem, store, tracked, renewed>>
  BY <1>1, <1>2, <1>4 DEF store, tracked
<1>. QED
  BY <1>3, <1>4 DEF PromotePending

(* What a restart makes of each run.                                       *)
LEMMA RestartShape ==
    ASSUME TypeOK, Restart
    PROVE  /\ ~up /\ up' = TRUE
           /\ disk' = disk /\ unsaved' = unsaved
           /\ UNCHANGED <<phase, todo, renewed>>
           /\ mem' \in [Runs -> Snapshots] /\ keep' \subseteq Runs
           /\ claim' \in [Runs -> {"free", "held", "retained"}]
           /\ \A r \in Runs :
                 /\ mem'[r] = None \/
                      (mem'[r] = disk[r] /\ disk[r].status \in Executing \cup Parked)
                 /\ mem'[r].status \in Executing => claim'[r] # "free"
                 /\ "renew" \notin Faults /\ disk[r].status \in Executing => mem'[r] = disk[r]
<1>1. PICK lost \in SUBSET Rows(disk, Executing),
          blind \in SUBSET Rows(disk, Parked), stuck \in SUBSET Rows(disk, Parked) :
          /\ lost # {} => Fails("renew")
          /\ blind # {} => Fails("read")
          /\ stuck # {} => Fails("release")
          /\ mem' = [r \in Runs |->
                IF r \in Rows(disk, Executing \cup Parked) \ lost THEN disk[r] ELSE None]
          /\ keep' = KeptAtRestart(blind)
          /\ claim' = [r \in Runs |->
                IF r \in Rows(disk, Executing) \ lost THEN "held"
                ELSE IF r \in Rows(disk, Parked) \ (keep' \cup stuck) THEN "free"
                ELSE claim[r]]
  BY DEF Restart
<1>2. ~up /\ up' = TRUE /\ disk' = disk /\ unsaved' = unsaved /\ UNCHANGED <<phase, todo, renewed>>
  BY DEF Restart, tick
<1>3. mem' \in [Runs -> Snapshots] /\ claim' \in [Runs -> {"free", "held", "retained"}]
  BY <1>1, NoneIsSnapshot DEF TypeOK
<1>4. keep' \subseteq Runs
  BY <1>1 DEF KeptAtRestart, Rows
<1>5. ASSUME NEW r \in Runs
      PROVE  /\ mem'[r] = None \/
                   (mem'[r] = disk[r] /\ disk[r].status \in Executing \cup Parked)
             /\ mem'[r].status \in Executing => claim'[r] # "free"
             /\ "renew" \notin Faults /\ disk[r].status \in Executing => mem'[r] = disk[r]
  <2>1. None.status \notin Executing
    BY DEF None, Executing
  <2>2. "renew" \notin Faults => lost = {}
    BY <1>1 DEF Fails
  <2>3. mem'[r] = IF r \in Rows(disk, Executing \cup Parked) \ lost THEN disk[r] ELSE None
    BY <1>1
  <2>4. r \in Rows(disk, Executing) \ lost => claim'[r] = "held"
    BY <1>1
  <2>. QED
    BY <2>1, <2>2, <2>3, <2>4 DEF Rows
<1>. QED
  BY <1>2, <1>3, <1>4, <1>5

(* Every parked row is restored.                                           *)
LEMMA RestartKeepsParks ==
    ASSUME TypeOK, Restart, NEW r \in Runs, disk[r].status \in Parked
    PROVE  mem'[r] = disk[r]
<1>1. PICK lost \in SUBSET Rows(disk, Executing) :
          mem' = [q \in Runs |->
                IF q \in Rows(disk, Executing \cup Parked) \ lost THEN disk[q] ELSE None]
  BY DEF Restart
<1>2. r \in Rows(disk, Executing \cup Parked) \ lost
  BY DEF Rows, Executing, Parked
<1>. QED
  BY <1>1, <1>2

----------------------------------------------------------------------------
(* Types, the dead process, and whom the tick has still to promote.        *)
LEMMA BaseStep ==
    ASSUME IInv, [Next]_vars
    PROVE  BaseInv'
<1>. USE DEF IInv, BaseInv, TypeOK, Down, TodoBlocked
<1>1. ASSUME NEW r \in Runs, Method(r) PROVE BaseInv'
  BY <1>1, MethodOutcome DEF Outcome, Claims
<1>2. ASSUME NEW r \in Runs, PromotePending(r) PROVE BaseInv'
  <2>1. up
    BY <1>2, PromoteOutcome
  <2>2. \A q \in Runs \ {r} : mem'[q] = mem[q]
    BY <1>2, PromoteOutcome DEF Outcome
  <2>3. todo' \subseteq Blocked'
    BY <1>2, <2>2, PromoteOutcome DEF Blocked
  <2>. QED
    <3>1. /\ up' = up /\ phase' = phase /\ todo' \subseteq todo /\ phase = "promote"
          /\ renewed' \subseteq renewed \cup {r}
      BY <1>2, PromoteOutcome
    <3>2. /\ mem' \in [Runs -> Snapshots] /\ disk' \in [Runs -> Snapshots]
          /\ claim' \in [Runs -> {"free", "held", "retained"}]
          /\ unsaved' \subseteq Runs /\ keep' \subseteq Runs
      BY <1>2, PromoteOutcome DEF Outcome, Claims
    <3>. QED
      BY <2>1, <2>3, <3>1, <3>2
<1>3. ASSUME NEW r \in Runs, RetryPark(r) PROVE BaseInv'
  <2>1. /\ claim' \in [Runs -> {"free", "held", "retained"}]
        /\ disk' \in [Runs -> Snapshots]
        /\ unsaved' \subseteq Runs /\ renewed' \subseteq Runs
    BY <1>3 DEF RetryPark, Renew, Released
  <2>2. /\ mem' = mem /\ keep' = keep /\ up' = up
        /\ phase = "retry" /\ phase' = "retry" /\ todo' \subseteq todo
    BY <1>3 DEF RetryPark
  <2>. QED
    BY <2>1, <2>2
<1>4. CASE BeginTick \/ EndRetry
  BY <1>4 DEF BeginTick, EndRetry, Blocked, store, tracked
<1>5. CASE HeartbeatClaims
  BY <1>5 DEF HeartbeatClaims, store, tracked
<1>6. CASE ReapAndPrune
  <2>1. claim' \in [Runs -> {"free", "held", "retained"}]
    BY <1>6 DEF ReapAndPrune
  <2>2. disk' \in [Runs -> Snapshots]
    BY <1>6, NoneIsSnapshot DEF ReapAndPrune
  <2>. QED
    BY <1>6, <2>1, <2>2 DEF ReapAndPrune, tracked
<1>7. CASE Crash
  BY <1>7, NoneIsSnapshot DEF Crash, store
<1>8. CASE Restart
  BY <1>8, RestartShape
<1>9. CASE RestartBlank
  BY <1>9 DEF RestartBlank, store, tracked, tick
<1>10. CASE UNCHANGED vars
  BY <1>10 DEF vars, Blocked
<1>. QED
  BY <1>1, <1>2, <1>3, <1>4, <1>5, <1>6, <1>7, <1>8, <1>9, <1>10 DEF Next, Method

----------------------------------------------------------------------------
(* The pool.                                                               *)
LEMMA RunSets ==
    ASSUME NEW S \in SUBSET Runs
    PROVE  /\ IsFiniteSet(S) /\ Cardinality(S) \in Nat
           /\ \A T \in SUBSET S : Cardinality(T) <= Cardinality(S) /\ Cardinality(T) \in Nat
           /\ \A r : /\ r \notin S => Cardinality(S \cup {r}) = Cardinality(S) + 1
                     /\ r \in S => S \cup {r} = S
<1>1. IsFiniteSet(S)
  BY ConstantsOK, FS_Subset DEF ConstantsOK
<1>. QED
  BY <1>1, FS_CardinalityType, FS_Subset, FS_AddElement

(* A row that parks while there is room, or was parked before.             *)
LEMMA RoomKeepsPool ==
    ASSUME TypeOK, PoolWithinBound, NEW r \in Runs,
           \A q \in Runs \ {r} : disk'[q] = disk[q],
           disk'[r].status \in Parked => disk[r].status \in Parked \/ PoolHasRoom(r, disk)
    PROVE  PoolWithinBound'
<1>. SUFFICES ASSUME NEW s \in Sops, MaxPending[s] > 0
              PROVE  Cardinality(ParkedIn(disk', s)) <= MaxPending[s]
  BY DEF PoolWithinBound, ParkedIn, Rows
<1>. DEFINE P == ParkedIn(disk, s)
            Q == ParkedIn(disk', s)
<1>1. P \in SUBSET Runs /\ Q \in SUBSET Runs /\ P \ {r} \in SUBSET Runs
  BY DEF ParkedIn, Rows
<1>2. Cardinality(P) <= MaxPending[s] /\ MaxPending[s] \in Nat
  BY ConstantsOK DEF PoolWithinBound, ConstantsOK
<1>3. Q \ {r} = P \ {r}
  BY DEF ParkedIn, Rows
<1>4. CASE Q \in SUBSET P
  BY <1>1, <1>2, <1>4, RunSets
<1>5. CASE r \in Q /\ r \notin P
  <2>1. SopOf[r] = s /\ disk[r].status \notin Parked /\ disk'[r].status \in Parked
    BY <1>5 DEF ParkedIn, Rows, Of
  <2>2. Cardinality(P \ {r}) < MaxPending[s]
    BY <2>1 DEF PoolHasRoom
  <2>3. Q = (P \ {r}) \cup {r} /\ r \notin P \ {r}
    BY <1>3, <1>5
  <2>4. Cardinality(Q) = Cardinality(P \ {r}) + 1 /\ Cardinality(P \ {r}) \in Nat
    BY <1>1, <2>3, RunSets
  <2>. QED
    BY <1>2, <2>2, <2>4
<1>. QED
  BY <1>3, <1>4, <1>5

LEMMA PoolStep ==
    ASSUME IInv, [Next]_vars
    PROVE  PoolWithinBound'
<1>0. TypeOK /\ PoolWithinBound
  BY DEF IInv, BaseInv
<1>. DEFINE Same == \A s \in Sops : ParkedIn(disk, s)' \in SUBSET ParkedIn(disk, s)
<1>1. ASSUME Same PROVE PoolWithinBound'
  <2>. SUFFICES ASSUME NEW s \in Sops, MaxPending[s] > 0
                PROVE  Cardinality(ParkedIn(disk, s)') <= MaxPending[s]
    BY DEF PoolWithinBound
  <2>1. ParkedIn(disk, s) \in SUBSET Runs /\ MaxPending[s] \in Nat
    BY ConstantsOK DEF ParkedIn, Rows, ConstantsOK
  <2>2. Cardinality(ParkedIn(disk, s)') <= Cardinality(ParkedIn(disk, s))
    BY <1>1, <2>1, RunSets
  <2>3. Cardinality(ParkedIn(disk, s)') \in Nat /\ Cardinality(ParkedIn(disk, s)) \in Nat
    BY <1>1, <2>1, RunSets
  <2>. QED
    BY <1>0, <2>1, <2>2, <2>3 DEF PoolWithinBound
<1>2. ASSUME disk' = disk PROVE PoolWithinBound'
  <2>1. Same
    BY <1>2 DEF ParkedIn, Rows
  <2>. QED
    BY <1>1, <2>1
<1>3. ASSUME NEW r \in Runs, Outcome(r) PROVE PoolWithinBound'
  BY <1>0, <1>3, RoomKeepsPool DEF Outcome
<1>4. ASSUME NEW r \in Runs, RetryPark(r) PROVE PoolWithinBound'
  <2>1. CASE disk' = disk
    BY <1>2, <2>1
  <2>2. CASE PoolHasRoom(r, disk) /\ disk' = [disk EXCEPT ![r] = mem[r]]
    BY <1>0, <2>2, RoomKeepsPool DEF TypeOK
  <2>. QED
    BY <1>4, <2>1, <2>2 DEF RetryPark
<1>5. CASE ReapAndPrune
  <2>1. \A r \in Runs : disk'[r] = disk[r] \/ disk'[r] = None
    BY <1>0, <1>5 DEF ReapAndPrune, TypeOK
  <2>2. Same
    BY <2>1 DEF ParkedIn, Rows, None, Parked
  <2>. QED
    BY <1>1, <2>2
<1>6. CASE \E r \in Runs : Method(r)
  BY <1>3, <1>6, MethodOutcome
<1>7. CASE \E r \in Runs : PromotePending(r)
  BY <1>2, <1>3, <1>7, PromoteOutcome
<1>8. CASE \/ BeginTick \/ EndRetry \/ HeartbeatClaims
           \/ Crash \/ Restart \/ RestartBlank \/ UNCHANGED vars
  BY <1>2, <1>8 DEF BeginTick, EndRetry, HeartbeatClaims, Crash, Restart, RestartBlank, store, vars
<1>. QED
  BY <1>4, <1>5, <1>6, <1>7, <1>8 DEF Next, Method

----------------------------------------------------------------------------
(* The gates.                                                              *)
LEMMA NoneIsOK == \A r : GateOK(r, None)
BY DEF GateOK, None

LEMMA GateStep ==
    ASSUME IInv, KeepsGates, [Next]_vars
    PROVE  GatesHold'
<1>0. TypeOK /\ GatesHold
  BY DEF IInv, BaseInv
<1>1. ASSUME \A r \in Runs : /\ mem'[r] \in {mem[r], disk[r], None}
                             /\ disk'[r] \in {mem[r], disk[r], None}
      PROVE  GatesHold'
  <2>1. \A r \in Runs : GateOK(r, mem[r]) /\ GateOK(r, disk[r]) /\ GateOK(r, None)
    BY <1>0, NoneIsOK DEF GatesHold
  <2>2. \A r \in Runs : GateOK(r, mem'[r]) /\ GateOK(r, disk'[r])
    BY <1>1, <2>1
  <2>. QED
    BY <2>2 DEF GatesHold, GateOK, GatedAt
<1>2. ASSUME NEW r \in Runs, Outcome(r) PROVE GatesHold'
  <2>1. \A q \in Runs : GateOK(q, mem'[q]) /\ GateOK(q, disk'[q])
    BY <1>0, <1>2 DEF Outcome, GatesHold
  <2>. QED
    BY <2>1 DEF GatesHold, GateOK, GatedAt
<1>3. CASE \E r \in Runs : Method(r)
  BY <1>2, <1>3, MethodOutcome
<1>4. CASE \E r \in Runs : PromotePending(r)
  BY <1>1, <1>2, <1>4, PromoteOutcome
<1>5. CASE \E r \in Runs : RetryPark(r)
  <2>1. mem' = mem /\ \A q \in Runs : disk'[q] \in {mem[q], disk[q]}
    BY <1>0, <1>5 DEF RetryPark, TypeOK
  <2>. QED
    BY <1>1, <2>1
<1>6. CASE ReapAndPrune
  <2>1. mem' = mem /\ \A q \in Runs : disk'[q] \in {disk[q], None}
    BY <1>0, <1>6 DEF ReapAndPrune, TypeOK
  <2>. QED
    BY <1>1, <2>1
<1>7. CASE Crash
  BY <1>1, <1>7 DEF Crash, store
<1>8. CASE Restart
  BY <1>0, <1>1, <1>8, RestartShape
<1>9. CASE BeginTick \/ EndRetry \/ HeartbeatClaims \/ RestartBlank \/ UNCHANGED vars
  BY <1>1, <1>9 DEF BeginTick, EndRetry, HeartbeatClaims, RestartBlank, store, vars
<1>. QED
  BY <1>3, <1>4, <1>5, <1>6, <1>7, <1>8, <1>9 DEF Next, Method

----------------------------------------------------------------------------
(* The claims.                                                             *)
LEMMA OutcomeKeepsClaims ==
    ASSUME TypeOK, ExecutingHoldsClaim, ParkSurvivesCrash, KeepsClaims, NEW r \in Runs, Outcome(r)
    PROVE  ExecutingHoldsClaim' /\ ParkSurvivesCrash'
<1>1. \A q \in Runs : mem[q].status \in Executing => claim[q] # "free"
  BY DEF ExecutingHoldsClaim, Rows, Held
<1>2. \A q \in Runs : mem[q].status \in Parked =>
                         disk[q] = mem[q] \/ (q \in unsaved /\ claim[q] # "free")
  BY DEF ParkSurvivesCrash, Rows
<1>3. \A q \in Runs : mem'[q].status \in Executing => claim'[q] # "free"
  BY <1>1 DEF Outcome
<1>4. \A q \in Runs : mem'[q].status \in Parked =>
                         disk'[q] = mem'[q] \/ (q \in unsaved' /\ claim'[q] # "free")
  BY <1>2 DEF Outcome
<1>. QED
  BY <1>3, <1>4 DEF ExecutingHoldsClaim, ParkSurvivesCrash, Rows, Held

LEMMA ClaimStep ==
    ASSUME IInv, KeepsClaims, [Next]_vars
    PROVE  ClaimInv'
<1>. USE DEF LeasesKept
<1>0. TypeOK /\ Down /\ TodoBlocked /\ ExecutingHoldsClaim /\ ParkSurvivesCrash /\ LeasesKept
  BY DEF IInv, BaseInv, ClaimInv
<1>1. ASSUME NEW r \in Runs, Method(r) PROVE ClaimInv'
  BY <1>0, <1>1, MethodOutcome, OutcomeKeepsClaims DEF ClaimInv
<1>2. ASSUME NEW r \in Runs, PromotePending(r) PROVE ClaimInv'
  <2>1. phase' = "promote" /\ unsaved \subseteq renewed /\ renewed \subseteq renewed'
    BY <1>0, <1>2, PromoteOutcome
  <2>2. CASE Outcome(r) /\ r \in renewed'
    <3>1. unsaved' \subseteq unsaved \cup {r}
      BY <2>2 DEF Outcome
    <3>. QED
      BY <1>0, <2>1, <2>2, <3>1, OutcomeKeepsClaims DEF ClaimInv
  <2>3. CASE UNCHANGED <<mem, disk, claim, unsaved, keep, renewed>>
    BY <1>0, <2>1, <2>3 DEF ClaimInv, ExecutingHoldsClaim, ParkSurvivesCrash, Rows, Held
  <2>. QED
    BY <1>2, <2>2, <2>3, PromoteOutcome
<1>3. ASSUME NEW r \in Runs, RetryPark(r) PROVE ClaimInv'
  <2>1. /\ mem' = mem /\ phase' = "retry" /\ phase = "retry"
        /\ unsaved' \subseteq unsaved /\ todo' = todo \ {r}
    BY <1>3 DEF RetryPark
  <2>2. renewed \subseteq renewed' /\ (r \in renewed' \/ r \notin unsaved')
    BY <1>0, <1>3 DEF RetryPark, Renew, Fails, KeepsClaims
  <2>3. LeasesKept'
    BY <1>0, <2>1, <2>2
  <2>4. \A q \in Runs \ {r} : /\ disk'[q] = disk[q] /\ claim'[q] = claim[q]
                              /\ q \in unsaved' <=> q \in unsaved
    BY <1>0, <1>3 DEF RetryPark, Released, TypeOK
  <2>5. /\ mem[r].status \in Executing => claim'[r] = claim[r]
        /\ mem[r].status \in Parked =>
              \/ disk'[r] = mem[r]
              \/ /\ disk'[r] = disk[r] /\ claim'[r] = claim[r]
                 /\ r \in unsaved' <=> r \in unsaved
    <3>1. CASE mem[r] = None
      BY <3>1 DEF None, Executing, Parked
    <3>2. CASE disk' = [disk EXCEPT ![r] = mem[r]] /\
               claim' \in (IF mem[r].status \in Parked THEN Released(r, claim) ELSE {claim})
      BY <1>0, <3>2 DEF TypeOK, Executing, Parked
    <3>3. CASE UNCHANGED <<disk, claim, unsaved>>
      BY <3>3
    <3>. QED
      BY <1>3, <3>1, <3>2, <3>3 DEF RetryPark
  <2>6. ExecutingHoldsClaim'
    BY <1>0, <2>1, <2>4, <2>5 DEF ExecutingHoldsClaim, Rows, Held
  <2>7. ParkSurvivesCrash'
    BY <1>0, <2>1, <2>4, <2>5 DEF ParkSurvivesCrash, Rows
  <2>. QED
    BY <2>3, <2>6, <2>7 DEF ClaimInv
<1>4. CASE BeginTick \/ EndRetry
  BY <1>0, <1>4 DEF BeginTick, EndRetry, ClaimInv, ExecutingHoldsClaim, ParkSurvivesCrash,
                    Rows, Held, store, tracked
<1>5. CASE HeartbeatClaims
  <2>1. UNCHANGED <<mem, disk, claim, unsaved>> /\ phase = "promote" /\ phase' = "reap"
    BY <1>5 DEF HeartbeatClaims, store, tracked
  <2>2. unsaved \subseteq renewed' /\ Rows(mem, Executing) \subseteq renewed'
    BY <1>0, <1>5 DEF HeartbeatClaims, Fails, KeepsClaims, Rows
  <2>. QED
    BY <1>0, <2>1, <2>2 DEF ClaimInv, ExecutingHoldsClaim, ParkSurvivesCrash, Rows, Held
<1>6. CASE ReapAndPrune
  <2>1. mem' = mem /\ unsaved' = unsaved /\ phase = "reap" /\ phase' = "idle"
    BY <1>6 DEF ReapAndPrune, tracked
  <2>2. \A q \in Runs : q \in renewed => claim'[q] = claim[q]
    BY <1>6 DEF ReapAndPrune
  <2>3. \A q \in Runs : disk[q].status \in Parked => disk'[q] = disk[q]
    BY <1>0, <1>6 DEF ReapAndPrune, Rows, Terminal, Parked
  <2>4. \A q \in Runs : mem[q].status \in Executing \/ q \in unsaved => claim'[q] = claim[q]
    BY <1>0, <2>1, <2>2 DEF Rows
  <2>5. ExecutingHoldsClaim'
    BY <1>0, <2>1, <2>4 DEF ExecutingHoldsClaim, Rows, Held
  <2>6. ParkSurvivesCrash'
    BY <1>0, <2>1, <2>3, <2>4 DEF ParkSurvivesCrash, Rows
  <2>. QED
    BY <2>1, <2>5, <2>6 DEF ClaimInv
<1>7. CASE Crash
  BY <1>7 DEF Crash, ClaimInv, ExecutingHoldsClaim, ParkSurvivesCrash, Rows, None, Executing, Parked
<1>8. CASE Restart
  <2>1. phase' = "idle"
    BY <1>0, <1>8, RestartShape DEF Down
  <2>2. \A r \in Runs : mem'[r].status \in Executing => claim'[r] # "free"
    BY <1>0, <1>8, RestartShape
  <2>3. \A r \in Runs : mem'[r].status \in Parked => disk'[r] = mem'[r]
    BY <1>0, <1>8, RestartShape DEF None, Parked
  <2>. QED
    BY <2>1, <2>2, <2>3 DEF ClaimInv, ExecutingHoldsClaim, ParkSurvivesCrash, Rows, Held
<1>9. CASE RestartBlank \/ UNCHANGED vars
  BY <1>0, <1>9 DEF RestartBlank, ClaimInv, ExecutingHoldsClaim, ParkSurvivesCrash, Rows, Held,
                    store, tracked, tick, vars
<1>. QED
  BY <1>1, <1>2, <1>3, <1>4, <1>5, <1>6, <1>7, <1>8, <1>9 DEF Next, Method

----------------------------------------------------------------------------
(* The rows and the caps.                                                  *)
LEMMA LiveHoldClaims ==
    ASSUME up, ExecutingHoldsClaim, ParkSurvivesCrash, RowsFollow
    PROVE  Live \subseteq Held(claim)
<1>1. ASSUME NEW r \in Rows(disk, Executing) PROVE claim[r] # "free"
  <2>1. disk[r].status \notin Parked
    BY DEF Rows, Executing, Parked
  <2>2. CASE mem[r].status \in Executing
    BY <2>2 DEF ExecutingHoldsClaim, Rows, Held
  <2>3. CASE mem[r].status \in Parked
    BY <2>1, <2>3 DEF ParkSurvivesCrash, Rows
  <2>. QED
    BY <2>2, <2>3 DEF RowsFollow
<1>. QED
  BY <1>1 DEF Live, ExecutingHoldsClaim, Rows, Held

LEMMA ShrinksUnderCaps ==
    ASSUME LiveWithinCaps, Live' \subseteq Live
    PROVE  LiveWithinCaps'
<1>1. Live \in SUBSET Runs
  BY DEF Live, Rows
<1>2. MaxTotal \in Nat /\ \A s \in Sops : MaxConcurrent[s] \in Nat
  BY ConstantsOK DEF ConstantsOK
<1>3. Cardinality(Live') <= MaxTotal
  <2>1. /\ Cardinality(Live') <= Cardinality(Live)
        /\ Cardinality(Live') \in Nat /\ Cardinality(Live) \in Nat
    BY <1>1, RunSets
  <2>. QED
    BY <1>2, <2>1 DEF LiveWithinCaps
<1>4. ASSUME NEW s \in Sops PROVE Cardinality(Live' \cap Of(s)) <= MaxConcurrent[s]
  <2>1. Live \cap Of(s) \in SUBSET Runs /\ Live' \cap Of(s) \in SUBSET (Live \cap Of(s))
    BY <1>1
  <2>2. /\ Cardinality(Live' \cap Of(s)) <= Cardinality(Live \cap Of(s))
        /\ Cardinality(Live' \cap Of(s)) \in Nat /\ Cardinality(Live \cap Of(s)) \in Nat
    BY <2>1, RunSets
  <2>3. Cardinality(Live \cap Of(s)) <= MaxConcurrent[s]
    BY DEF LiveWithinCaps
  <2>. QED
    BY <1>2, <2>2, <2>3
<1>. QED
  BY <1>3, <1>4 DEF LiveWithinCaps, Of

(* A run enters the live ones only where the store grants it a claim.      *)
LEMMA EntersUnderCaps ==
    ASSUME TypeOK, Live \subseteq Held(claim), LiveWithinCaps, NEW r \in Runs,
           \A q \in Runs \ {r} : mem'[q] = mem[q] /\ disk'[q] = disk[q],
           r \in Live' => r \in Live \/ CanClaim(r, claim)
    PROVE  LiveWithinCaps'
<1>1. Live \in SUBSET Runs /\ Live' \subseteq Live \cup {r} /\ Held(claim) \in SUBSET Runs
  BY DEF Live, Rows, Held
<1>2. CASE Live' \subseteq Live
  BY <1>2, ShrinksUnderCaps
<1>3. CASE r \in Live' /\ r \notin Live
  <2>1. /\ r \notin Held(claim)
        /\ Cardinality(HeldFor(SopOf[r], claim)) < MaxConcurrent[SopOf[r]]
        /\ Cardinality(Held(claim)) < MaxTotal
    BY <1>3 DEF CanClaim, Held
  <2>2. MaxTotal \in Nat /\ SopOf[r] \in Sops /\ \A s \in Sops : MaxConcurrent[s] \in Nat
    BY ConstantsOK DEF ConstantsOK
  <2>3. Cardinality(Live') <= MaxTotal
    <3>1. Live' \subseteq Held(claim) \cup {r} /\ Held(claim) \cup {r} \in SUBSET Runs
      BY <1>1
    <3>2. /\ Cardinality(Held(claim) \cup {r}) = Cardinality(Held(claim)) + 1
          /\ Cardinality(Held(claim)) \in Nat
      BY <1>1, <2>1, RunSets
    <3>3. Cardinality(Live') <= Cardinality(Held(claim) \cup {r}) /\ Cardinality(Live') \in Nat
      BY <3>1, RunSets
    <3>. QED
      BY <2>1, <2>2, <3>2, <3>3
  <2>4. \A s \in Sops : Cardinality(Live' \cap Of(s)) <= MaxConcurrent[s]
    <3>. TAKE s \in Sops
    <3>1. CASE s = SopOf[r]
      <4>1. /\ HeldFor(s, claim) \in SUBSET Runs /\ r \notin HeldFor(s, claim)
            /\ Live' \cap Of(s) \subseteq HeldFor(s, claim) \cup {r}
            /\ HeldFor(s, claim) \cup {r} \in SUBSET Runs
        BY <1>1, <2>1 DEF HeldFor
      <4>2. /\ Cardinality(HeldFor(s, claim) \cup {r}) = Cardinality(HeldFor(s, claim)) + 1
            /\ Cardinality(HeldFor(s, claim)) \in Nat
        BY <4>1, RunSets
      <4>3. /\ Cardinality(Live' \cap Of(s)) <= Cardinality(HeldFor(s, claim) \cup {r})
            /\ Cardinality(Live' \cap Of(s)) \in Nat
        BY <4>1, RunSets
      <4>4. Cardinality(HeldFor(s, claim)) < MaxConcurrent[s]
        BY <2>1, <3>1
      <4>. QED
        BY <2>2, <4>2, <4>3, <4>4
    <3>2. CASE s # SopOf[r]
      <4>1. Live \cap Of(s) \in SUBSET Runs /\ Live' \cap Of(s) \in SUBSET (Live \cap Of(s))
        BY <1>1, <3>2 DEF Of
      <4>2. /\ Cardinality(Live' \cap Of(s)) <= Cardinality(Live \cap Of(s))
            /\ Cardinality(Live' \cap Of(s)) \in Nat /\ Cardinality(Live \cap Of(s)) \in Nat
        BY <4>1, RunSets
      <4>. QED
        BY <2>2, <4>2 DEF LiveWithinCaps
    <3>. QED
      BY <3>1, <3>2
  <2>. QED
    BY <2>3, <2>4 DEF LiveWithinCaps, Of
<1>. QED
  BY <1>1, <1>2, <1>3

LEMMA MethodClaims ==
    ASSUME IInv, KeepsClaims, NEW r \in Runs, Method(r), r \in Live'
    PROVE  r \in Live \/ CanClaim(r, claim)
<1>1. CASE \/ StartRun(r) \/ ApproveGate(r)
           \/ ApproveCheckpoint(r) \/ DenyCheckpoint(r) \/ ReviseCheckpoint(r)
  BY <1>1 DEF StartRun, ApproveGate, ApproveCheckpoint, DenyCheckpoint, ReviseCheckpoint, CanResume
<1>2. CASE AdvanceStep(r)
  BY <1>2 DEF AdvanceStep, Live, Rows
<1>3. ASSUME NEW s \in Snapshots, NEW t \in [Runs -> Snapshots], NEW c, NEW back,
             NEW outcome \in {"Failed", "Cancelled"}, Finish(r, s, outcome, t, c, back)
      PROVE  FALSE
  <2>1. mem' = [mem EXCEPT ![r] = None] /\ disk' = [t EXCEPT ![r] = [s EXCEPT !.status = outcome]]
    BY <1>3 DEF Finish, Fails, KeepsClaims
  <2>2. [s EXCEPT !.status = outcome].status = outcome
    BY DEF Snapshots
  <2>3. mem'[r].status = "none" /\ disk'[r].status = outcome
    BY <2>1, <2>2 DEF IInv, BaseInv, TypeOK, None
  <2>. QED
    BY <2>3 DEF Live, Rows, Executing
<1>4. mem[r] \in Snapshots /\ disk \in [Runs -> Snapshots]
  BY DEF IInv, BaseInv, TypeOK
<1>5. CASE EndRun(r) \/ DenyGate(r)
  BY <1>3, <1>4, <1>5 DEF EndRun, DenyGate
<1>6. CASE RejectCheckpoint(r)
  <2>1. [Record(mem[r]) EXCEPT !.status = "Running"] \in Snapshots
    BY <1>4 DEF Record, Snapshots, Executing
  <2>2. UNCHANGED <<mem, disk>>
    BY <1>3, <1>4, <1>6, <2>1 DEF RejectCheckpoint
  <2>. QED
    BY <2>2 DEF Live, Rows
<1>. QED
  BY <1>1, <1>2, <1>5, <1>6 DEF Method

LEMMA RowStep ==
    ASSUME IInv, KeepsRows, [Next]_vars
    PROVE  RowInv'
<1>0. /\ TypeOK /\ Down /\ TodoBlocked /\ KeepsClaims
      /\ ExecutingHoldsClaim /\ ParkSurvivesCrash /\ RowsFollow /\ LiveWithinCaps
  BY DEF IInv, BaseInv, ClaimInv, RowInv, KeepsRows, KeepsClaims
<1>1. ASSUME NEW r \in Runs, Outcome(r), up, up', r \in Live' => r \in Live \/ CanClaim(r, claim)
      PROVE  RowInv'
  <2>1. \A q \in Runs : disk'[q].status \in Executing =>
                           \/ mem'[q].status \in Executing
                           \/ mem'[q].status \in Parked /\ q \in unsaved'
    BY <1>0, <1>1 DEF Outcome, RowsFollow, Rows
  <2>2. LiveWithinCaps'
    BY <1>0, <1>1, LiveHoldClaims, EntersUnderCaps DEF Outcome
  <2>. QED
    BY <2>1, <2>2 DEF RowInv, RowsFollow, Rows
<1>2. ASSUME Live' \subseteq Live PROVE LiveWithinCaps'
  BY <1>0, <1>2, ShrinksUnderCaps
<1>3. ASSUME NEW r \in Runs, Method(r) PROVE RowInv'
  <2>1. Outcome(r) /\ up /\ up'
    BY <1>3, MethodOutcome
  <2>2. r \in Live' => r \in Live \/ CanClaim(r, claim)
    BY <1>0, <1>3, MethodClaims
  <2>. QED
    BY <1>1, <2>1, <2>2
<1>4. ASSUME NEW r \in Runs, PromotePending(r) PROVE RowInv'
  <2>1. up /\ up' /\ r \in Live
    BY <1>0, <1>4, PromoteOutcome DEF Down, Live, Rows, Executing
  <2>2. CASE UNCHANGED <<mem, disk, unsaved>>
    BY <1>0, <1>2, <2>1, <2>2 DEF RowInv, RowsFollow, Live, Rows
  <2>. QED
    BY <1>1, <1>4, <2>1, <2>2, PromoteOutcome
<1>5. ASSUME NEW r \in Runs, RetryPark(r) PROVE RowInv'
  <2>1. mem' = mem /\ up' = up
    BY <1>5 DEF RetryPark
  <2>2. \A q \in Runs \ {r} : disk'[q] = disk[q] /\ (q \in unsaved' <=> q \in unsaved)
    BY <1>0, <1>5 DEF RetryPark, TypeOK
  <2>3. \/ disk'[r] = mem[r]
        \/ disk'[r] = disk[r] /\ (r \in unsaved' <=> r \in unsaved)
        \/ mem[r] = None /\ disk'[r] = disk[r]
    BY <1>0, <1>5 DEF RetryPark, TypeOK
  <2>4. None.status \notin Parked
    BY DEF None, Parked
  <2>5. RowsFollow'
    BY <1>0, <2>1, <2>2, <2>3, <2>4 DEF RowsFollow, Rows
  <2>6. Live' \subseteq Live
    BY <2>1, <2>2, <2>3 DEF Live, Rows
  <2>. QED
    BY <1>2, <2>5, <2>6 DEF RowInv
<1>6. CASE ReapAndPrune
  <2>1. mem' = mem /\ up' = up /\ unsaved' = unsaved
    BY <1>6 DEF ReapAndPrune, tracked
  <2>2. \A q \in Runs : disk'[q] = disk[q] \/ disk'[q] = None
    BY <1>0, <1>6 DEF ReapAndPrune, TypeOK
  <2>3. None.status \notin Executing
    BY DEF None, Executing
  <2>. QED
    BY <1>0, <1>2, <2>1, <2>2, <2>3 DEF RowInv, RowsFollow, Live, Rows
<1>7. CASE Crash
  <2>1. None.status \notin Executing
    BY DEF None, Executing
  <2>. QED
    BY <1>2, <1>7, <2>1 DEF Crash, RowInv, RowsFollow, Live, Rows, store
<1>8. CASE Restart
  <2>1. /\ disk' = disk
        /\ \A r \in Runs : /\ mem'[r] = None \/ mem'[r] = disk[r]
                           /\ disk[r].status \in Executing => mem'[r] = disk[r]
    BY <1>0, <1>8, RestartShape DEF KeepsRows
  <2>2. None.status \notin Executing
    BY DEF None, Executing
  <2>. QED
    BY <1>2, <2>1, <2>2 DEF RowInv, RowsFollow, Live, Rows
<1>9. CASE BeginTick \/ EndRetry \/ HeartbeatClaims \/ UNCHANGED vars
  BY <1>0, <1>2, <1>9 DEF BeginTick, EndRetry, HeartbeatClaims, store, tracked, vars,
                          RowInv, RowsFollow, Live, Rows
<1>10. CASE RestartBlank
  BY <1>10 DEF RestartBlank, Fails, KeepsRows
<1>. QED
  BY <1>3, <1>4, <1>5, <1>6, <1>7, <1>8, <1>9, <1>10 DEF Next, Method

----------------------------------------------------------------------------
(* Which runs are remembered, and which saves are outstanding.             *)
LEMMA LifeStep ==
    ASSUME IInv, [Next]_vars
    PROVE  LifeInv'
<1>0. TypeOK /\ Down /\ MemoryIsLive /\ AllSaved
  BY DEF IInv, BaseInv, LifeInv
<1>1. ASSUME UNCHANGED <<mem, unsaved>>, \A q \in Runs : disk'[q] \in {disk[q], None}
      PROVE  LifeInv'
  BY <1>0, <1>1 DEF LifeInv, MemoryIsLive, AllSaved, None, Terminal
<1>2. ASSUME NEW r \in Runs, Outcome(r) PROVE LifeInv'
  <2>1. mem'[r] = None \/ mem'[r].status \in InFlight
    BY <1>2 DEF Outcome, Fate
  <2>2. disk'[r].status \in Terminal => mem'[r] = None
    BY <1>2 DEF Outcome, Fate, None, Terminal
  <2>. QED
    BY <1>0, <1>2, <2>1, <2>2 DEF Outcome, LifeInv, MemoryIsLive, AllSaved
<1>3. CASE \E r \in Runs : Method(r)
  BY <1>2, <1>3, MethodOutcome
<1>4. CASE \E r \in Runs : PromotePending(r)
  BY <1>1, <1>2, <1>4, PromoteOutcome
<1>5. ASSUME NEW r \in Runs, RetryPark(r) PROVE LifeInv'
  <2>1. /\ mem' = mem /\ unsaved' \subseteq unsaved
        /\ \A q \in Runs : disk'[q] = disk[q] \/ (mem[q] # None /\ disk'[q] = mem[q])
    BY <1>0, <1>5 DEF RetryPark, TypeOK
  <2>2. \A q \in Runs : mem[q] # None => mem[q].status \notin Terminal
    BY <1>0 DEF MemoryIsLive, InFlight, Executing, Parked, Terminal
  <2>. QED
    BY <1>0, <2>1, <2>2 DEF LifeInv, MemoryIsLive, AllSaved
<1>6. CASE ReapAndPrune
  <2>1. UNCHANGED <<mem, unsaved>> /\ \A q \in Runs : disk'[q] \in {disk[q], None}
    BY <1>0, <1>6 DEF ReapAndPrune, TypeOK, tracked
  <2>. QED
    BY <1>1, <2>1
<1>7. CASE Crash
  BY <1>0, <1>7 DEF Crash, LifeInv, MemoryIsLive, AllSaved
<1>8. CASE Restart
  <2>1. \A q \in Runs : mem'[q] = None \/ (mem'[q] = disk[q] /\ disk[q].status \in InFlight)
    BY <1>0, <1>8, RestartShape DEF InFlight
  <2>2. \A q \in Runs : disk[q].status \in Terminal => disk[q].status \notin InFlight
    BY DEF InFlight, Executing, Parked, Terminal
  <2>3. disk' = disk /\ unsaved' = unsaved
    BY <1>0, <1>8, RestartShape
  <2>. QED
    BY <1>0, <2>1, <2>2, <2>3 DEF LifeInv, MemoryIsLive, AllSaved
<1>9. CASE BeginTick \/ EndRetry \/ HeartbeatClaims \/ RestartBlank \/ UNCHANGED vars
  BY <1>1, <1>9 DEF BeginTick, EndRetry, HeartbeatClaims, RestartBlank, store, tracked, vars
<1>. QED
  BY <1>3, <1>4, <1>5, <1>6, <1>7, <1>8, <1>9 DEF Next, Method

----------------------------------------------------------------------------
(* The runs in flight.                                                     *)

(* No run joins those in flight.                                           *)
LEMMA FlightShrinks ==
    ASSUME FlightInv, Engaged' \subseteq Engaged, RowsAreKnown'
    PROVE  FlightInv'
<1>1. ASSUME NEW s \in Sops, MaxPending[s] > 0, MaxConcurrent[s] > 0
      PROVE  Cardinality(Engaged' \cap Of(s)) < MaxConcurrent[s] + MaxPending[s]
  <2>1. Engaged \cap Of(s) \in SUBSET Runs /\ Engaged' \cap Of(s) \in SUBSET (Engaged \cap Of(s))
    BY DEF Of
  <2>2. /\ Cardinality(Engaged' \cap Of(s)) <= Cardinality(Engaged \cap Of(s))
        /\ Cardinality(Engaged' \cap Of(s)) \in Nat /\ Cardinality(Engaged \cap Of(s)) \in Nat
    BY <2>1, RunSets
  <2>3. Cardinality(Engaged \cap Of(s)) < MaxConcurrent[s] + MaxPending[s]
    BY <1>1 DEF FlightInv, EngagedHaveRoom
  <2>4. MaxConcurrent[s] \in Nat /\ MaxPending[s] \in Nat
    BY ConstantsOK DEF ConstantsOK
  <2>. QED
    BY <2>2, <2>3, <2>4
<1>2. CountsParks => EngagedAreSerial'
  BY DEF FlightInv, EngagedAreSerial, Of
<1>. QED
  BY <1>1, <1>2 DEF FlightInv, EngagedHaveRoom, Of

(* A run of a SOP in flight owns a claim or is a parked row; and it is one *)
(* in memory.                                                              *)
LEMMA EngagedAreCounted ==
    ASSUME up, MemoryIsLive, RowsAreKnown, ExecutingHoldsClaim, ParkSurvivesCrash, NEW s
    PROVE  /\ Engaged \cap Of(s) = ExecutingNow(s) \cup ParkedIn(mem, s)
           /\ Engaged \cap Of(s) \subseteq HeldFor(s, claim) \cup ParkedIn(disk, s)
           /\ ExecutingNow(s) \subseteq HeldFor(s, claim)
           /\ AllSaved /\ "save" \notin Faults => ParkedIn(mem, s) \subseteq ParkedIn(disk, s)
<1>1. Engaged = Rows(mem, InFlight)
  BY DEF Engaged, RowsAreKnown
<1>2. Rows(mem, InFlight) = Rows(mem, Executing) \cup Rows(mem, Parked)
  BY DEF Rows, InFlight
<1>3. Rows(mem, Executing) \subseteq Held(claim)
  BY DEF ExecutingHoldsClaim
<1>4. Rows(mem, Parked) \subseteq Held(claim) \cup Rows(disk, Parked)
  BY DEF ParkSurvivesCrash, Rows, Held
<1>5. unsaved = {} => Rows(mem, Parked) \subseteq Rows(disk, Parked)
  BY DEF ParkSurvivesCrash, Rows
<1>. QED
  BY <1>1, <1>2, <1>3, <1>4, <1>5 DEF ExecutingNow, ParkedIn, HeldFor, AllSaved

(* A start is admitted while there is room, and under Hold and Coalesce    *)
(* only when nothing is in flight.                                         *)
LEMMA StartFindsRoom ==
    ASSUME TypeOK, up, MemoryIsLive, AllSaved, RowsAreKnown, ExecutingHoldsClaim,
           ParkSurvivesCrash, NEW r \in Runs, StartRun(r)
    PROVE  LET s == SopOf[r]
           IN  /\ MaxPending[s] > 0 =>
                     Cardinality(Engaged \cap Of(s)) + 1 < MaxConcurrent[s] + MaxPending[s]
               /\ CountsParks /\ Policy[s] \in {"Hold", "Coalesce"} => Engaged \cap Of(s) = {}
<1>. DEFINE s == SopOf[r]
            E == Engaged \cap Of(s)
            H == HeldFor(s, claim)
<1>1. PICK exec \in ExecCounts(s), pending \in PendingCounts(s, disk) : Admits(s, exec, pending)
  BY DEF StartRun
<1>2. /\ CanClaim(r, claim)
      /\ s \in Sops /\ MaxConcurrent[s] \in Nat /\ MaxPending[s] \in Nat
  BY ConstantsOK DEF StartRun, ConstantsOK
<1>3. /\ E = ExecutingNow(s) \cup ParkedIn(mem, s)
      /\ E \subseteq H \cup ParkedIn(disk, s)
      /\ ExecutingNow(s) \subseteq H
      /\ "save" \notin Faults => ParkedIn(mem, s) \subseteq ParkedIn(disk, s)
  BY EngagedAreCounted
<1>4. \A t : ParkedIn(t, s) \in SUBSET Runs /\ IsFiniteSet(ParkedIn(t, s))
             /\ Cardinality(ParkedIn(t, s)) \in Nat
  <2>1. \A t : ParkedIn(t, s) \in SUBSET Runs
    BY DEF ParkedIn, Rows
  <2>. QED
    BY <2>1, RunSets
<1>5. /\ H \in SUBSET Runs /\ IsFiniteSet(H) /\ Cardinality(H) \in Nat
      /\ E \in SUBSET Runs /\ Cardinality(E) \in Nat
      /\ ExecutingNow(s) \in SUBSET Runs /\ IsFiniteSet(ExecutingNow(s))
      /\ Cardinality(ExecutingNow(s)) \in Nat
  <2>1. H \in SUBSET Runs /\ E \in SUBSET Runs /\ ExecutingNow(s) \in SUBSET Runs
    BY DEF HeldFor, Held, Engaged, Rows, ExecutingNow
  <2>. QED
    BY <2>1, RunSets
<1>6. pending = Cardinality(ParkedIn(disk, s)) \/
         (Fails("read") /\ pending = Cardinality(ParkedIn(mem, s)))
  BY <1>1 DEF PendingCounts
<1>7. exec[1] = Cardinality(H) \/ (Fails("read") /\ exec[1] = Cardinality(ExecutingNow(s)))
  BY <1>1 DEF ExecCounts
<1>8. pending \in Nat /\ exec[1] \in Nat
  BY <1>4, <1>5, <1>6, <1>7
<1>. HIDE DEF s, E, H
<1>9. ASSUME MaxPending[s] > 0
      PROVE  Cardinality(E) + 1 < MaxConcurrent[s] + MaxPending[s]
  <2>1. PICK t \in {mem, disk} : pending = Cardinality(ParkedIn(t, s)) /\ E \subseteq H \cup ParkedIn(t, s)
    BY <1>3, <1>6
  <2>2. pending < MaxPending[s]
    BY <1>1, <1>2, <1>8, <1>9 DEF Admits, PoolFull
  <2>3. Cardinality(H) < MaxConcurrent[s]
    BY <1>2 DEF CanClaim, s, H
  <2>4. Cardinality(H \cup ParkedIn(t, s)) <= Cardinality(H) + Cardinality(ParkedIn(t, s))
    <3>1. /\ Cardinality(H \cup ParkedIn(t, s)) =
                Cardinality(H) + Cardinality(ParkedIn(t, s)) - Cardinality(H \cap ParkedIn(t, s))
      BY <1>4, <1>5, FS_Union
    <3>2. Cardinality(H \cap ParkedIn(t, s)) \in Nat
      BY <1>5, FS_Intersection, FS_CardinalityType
    <3>. QED
      BY <1>4, <1>5, <3>1, <3>2
  <2>5. /\ Cardinality(E) <= Cardinality(H \cup ParkedIn(t, s))
        /\ Cardinality(H \cup ParkedIn(t, s)) \in Nat
    <3>1. H \cup ParkedIn(t, s) \in SUBSET Runs /\ E \in SUBSET (H \cup ParkedIn(t, s))
      BY <1>4, <1>5, <2>1
    <3>. QED
      BY <3>1, RunSets
  <2>. QED
    BY <1>2, <1>4, <1>5, <2>1, <2>2, <2>3, <2>4, <2>5
<1>10. ASSUME CountsParks, Policy[s] \in {"Hold", "Coalesce"}
       PROVE  E = {}
  <2>1. exec[1] = 0 /\ pending = 0
    BY <1>1, <1>8, <1>10 DEF Admits
  <2>2. ExecutingNow(s) = {} /\ (~Fails("read") => H = {})
    BY <1>3, <1>5, <1>7, <2>1, FS_EmptySet
  <2>3. CASE ~Fails("read")
    <3>1. ParkedIn(disk, s) = {}
      BY <1>4, <1>6, <2>1, <2>3, FS_EmptySet
    <3>. QED
      BY <1>3, <2>2, <2>3, <3>1
  <2>4. CASE "save" \notin Faults
    <3>1. ParkedIn(mem, s) = {}
      BY <1>3, <1>4, <1>6, <2>1, <2>4, FS_EmptySet
    <3>. QED
      BY <1>3, <2>2, <3>1
  <2>. QED
    BY <1>10, <2>3, <2>4 DEF CountsParks, Fails
<1>. QED
  BY <1>9, <1>10 DEF s, E

(* A run of the SOP joins when it is started.                              *)
LEMMA FlightGrows ==
    ASSUME TypeOK, FlightInv, RowsAreKnown', NEW r \in Runs, Engaged' \subseteq Engaged \cup {r},
           LET s == SopOf[r]
           IN  /\ MaxPending[s] > 0 =>
                     Cardinality(Engaged \cap Of(s)) + 1 < MaxConcurrent[s] + MaxPending[s]
               /\ CountsParks /\ Policy[s] \in {"Hold", "Coalesce"} => Engaged \cap Of(s) = {}
    PROVE  FlightInv'
<1>1. Engaged \in SUBSET Runs /\ Engaged' \in SUBSET Runs
  BY DEF Engaged, Rows
<1>2. ASSUME NEW s \in Sops, MaxPending[s] > 0, MaxConcurrent[s] > 0
      PROVE  Cardinality(Engaged' \cap Of(s)) < MaxConcurrent[s] + MaxPending[s]
  <2>. DEFINE E == Engaged \cap Of(s)
              F == Engaged' \cap Of(s)
  <2>1. E \in SUBSET Runs /\ Cardinality(E) \in Nat
        /\ MaxConcurrent[s] \in Nat /\ MaxPending[s] \in Nat
    <3>1. E \in SUBSET Runs
      BY <1>1
    <3>. QED
      BY <3>1, RunSets, ConstantsOK DEF ConstantsOK
  <2>2. CASE s = SopOf[r]
    <3>1. F \in SUBSET (E \cup {r}) /\ E \cup {r} \in SUBSET Runs
      BY <1>1
    <3>2. Cardinality(F) <= Cardinality(E \cup {r}) /\ Cardinality(F) \in Nat
          /\ Cardinality(E \cup {r}) \in Nat
      BY <3>1, RunSets
    <3>3. Cardinality(E \cup {r}) <= Cardinality(E) + 1
      BY <2>1, RunSets
    <3>4. Cardinality(E) + 1 < MaxConcurrent[s] + MaxPending[s]
      BY <1>2, <2>2
    <3>. HIDE DEF E, F
    <3>5. Cardinality(F) < MaxConcurrent[s] + MaxPending[s]
      BY <2>1, <3>2, <3>3, <3>4
    <3>. QED
      BY <3>5 DEF F
  <2>3. CASE s # SopOf[r]
    <3>1. F \in SUBSET E
      BY <1>1, <2>3 DEF Of
    <3>2. Cardinality(F) <= Cardinality(E) /\ Cardinality(F) \in Nat
      BY <2>1, <3>1, RunSets
    <3>3. Cardinality(E) < MaxConcurrent[s] + MaxPending[s]
      BY <1>2 DEF FlightInv, EngagedHaveRoom
    <3>. HIDE DEF E, F
    <3>4. Cardinality(F) < MaxConcurrent[s] + MaxPending[s]
      BY <2>1, <3>2, <3>3
    <3>. QED
      BY <3>4 DEF F
  <2>. QED
    BY <2>2, <2>3
<1>3. ASSUME CountsParks, NEW s \in Sops, Policy[s] \in {"Hold", "Coalesce"},
             NEW p \in Engaged' \cap Of(s), NEW q \in Engaged' \cap Of(s)
      PROVE  p = q
  <2>1. CASE s = SopOf[r]
    BY <1>3, <2>1
  <2>2. CASE s # SopOf[r]
    <3>1. p \in Engaged \cap Of(s) /\ q \in Engaged \cap Of(s)
      BY <1>3, <2>2 DEF Of
    <3>. QED
      BY <1>3, <3>1 DEF FlightInv, EngagedAreSerial
  <2>. QED
    BY <2>1, <2>2
<1>. QED
  BY <1>2, <1>3 DEF FlightInv, EngagedHaveRoom, EngagedAreSerial, Of

LEMMA FlightStep ==
    ASSUME IInv, KeepsRows, [Next]_vars
    PROVE  FlightInv'
<1>0. /\ TypeOK /\ Down /\ TodoBlocked /\ MemoryIsLive /\ AllSaved
      /\ ExecutingHoldsClaim /\ ParkSurvivesCrash /\ FlightInv /\ RowsAreKnown
  BY DEF IInv, BaseInv, LifeInv, ClaimInv, FlightInv, KeepsRows, KeepsClaims
<1>1. ASSUME NEW r \in Runs, Outcome(r), up
      PROVE  RowsAreKnown' /\ Engaged' \subseteq Engaged \cup {r}
  <2>1. disk'[r].status \in InFlight => mem'[r].status \in InFlight
    <3>1. None.status \notin InFlight /\ InFlight \cap Terminal = {}
      BY DEF None, InFlight, Executing, Parked, Terminal
    <3>. QED
      BY <1>1, <3>1 DEF Outcome, Fate
  <2>2. \A q \in Runs \ {r} : mem'[q] = mem[q] /\ disk'[q] = disk[q]
    BY <1>1 DEF Outcome
  <2>. QED
    BY <1>0, <1>1, <2>1, <2>2 DEF RowsAreKnown, Engaged, Rows
<1>2. ASSUME NEW r \in Runs, Outcome(r), up, r \in Engaged PROVE FlightInv'
  BY <1>0, <1>1, <1>2, FlightShrinks
<1>3. ASSUME NEW r \in Runs, Method(r) PROVE FlightInv'
  <2>1. Outcome(r) /\ up
    BY <1>3, MethodOutcome
  <2>2. CASE StartRun(r)
    BY <1>0, <1>1, <2>1, <2>2, StartFindsRoom, FlightGrows
  <2>3. CASE ~StartRun(r)
    <3>1. mem[r].status \in InFlight
      BY <1>3, <2>3 DEF Method, AdvanceStep, EndRun, ApproveGate, DenyGate, ApproveCheckpoint,
             DenyCheckpoint, RejectCheckpoint, ReviseCheckpoint, InFlight, Parked
    <3>. QED
      BY <1>2, <2>1, <3>1 DEF Engaged, Rows
  <2>. QED
    BY <2>2, <2>3
<1>4. ASSUME UNCHANGED <<mem, disk, up>> PROVE FlightInv'
  BY <1>0, <1>4, FlightShrinks DEF RowsAreKnown, Engaged, Rows
<1>5. ASSUME NEW r \in Runs, PromotePending(r) PROVE FlightInv'
  <2>1. up /\ r \in Engaged /\ up' = up
    BY <1>0, <1>5, PromoteOutcome DEF Down, Engaged, Rows, InFlight, Executing
  <2>. QED
    BY <1>2, <1>4, <1>5, <2>1, PromoteOutcome
<1>6. ASSUME NEW r \in Runs, RetryPark(r) PROVE FlightInv'
  <2>1. /\ mem' = mem /\ up' = up
        /\ \A q \in Runs : disk'[q] = disk[q] \/ disk'[q] = mem[q]
    BY <1>0, <1>6 DEF RetryPark, TypeOK
  <2>2. RowsAreKnown' /\ Engaged' \subseteq Engaged
    BY <1>0, <2>1 DEF RowsAreKnown, Engaged, Rows
  <2>. QED
    BY <1>0, <2>2, FlightShrinks
<1>7. CASE ReapAndPrune
  <2>1. /\ mem' = mem /\ up' = up
        /\ \A q \in Runs : disk'[q] = disk[q] \/ disk'[q] = None
    BY <1>0, <1>7 DEF ReapAndPrune, TypeOK
  <2>2. None.status \notin InFlight
    BY DEF None, InFlight, Executing, Parked
  <2>3. RowsAreKnown' /\ Engaged' \subseteq Engaged
    BY <1>0, <2>1, <2>2 DEF RowsAreKnown, Engaged, Rows
  <2>. QED
    BY <1>0, <2>3, FlightShrinks
<1>8. CASE Crash
  <2>1. ~up' /\ disk' = disk /\ \A q \in Runs : mem'[q] = None
    BY <1>8 DEF Crash, store
  <2>2. None.status \notin InFlight
    BY DEF None, InFlight, Executing, Parked
  <2>3. RowsAreKnown' /\ Engaged' \subseteq Engaged
    BY <2>1, <2>2 DEF RowsAreKnown, Engaged, Rows
  <2>. QED
    BY <1>0, <2>3, FlightShrinks
<1>9. CASE Restart
  <2>1. /\ disk' = disk
        /\ \A q \in Runs : /\ mem'[q] = None \/ mem'[q] = disk[q]
                           /\ disk[q].status \in Executing => mem'[q] = disk[q]
    BY <1>0, <1>9, RestartShape DEF KeepsRows
  <2>2. \A q \in Runs : disk[q].status \in Parked => mem'[q] = disk[q]
    BY <1>0, <1>9, RestartKeepsParks
  <2>3. None.status \notin InFlight
    BY DEF None, InFlight, Executing, Parked
  <2>4. RowsAreKnown' /\ Engaged' \subseteq Engaged
    BY <2>1, <2>2, <2>3 DEF RowsAreKnown, Engaged, Rows, InFlight
  <2>. QED
    BY <1>0, <2>4, FlightShrinks
<1>10. CASE BeginTick \/ EndRetry \/ HeartbeatClaims \/ UNCHANGED vars
  BY <1>4, <1>10 DEF BeginTick, EndRetry, HeartbeatClaims, store, vars
<1>11. CASE RestartBlank
  BY <1>11 DEF RestartBlank, Fails, KeepsRows
<1>. QED
  BY <1>3, <1>5, <1>6, <1>7, <1>8, <1>9, <1>10, <1>11 DEF Next, Method

----------------------------------------------------------------------------
LEMMA InitHolds == Init => IInv
<1>. SUFFICES ASSUME Init PROVE IInv
  OBVIOUS
<1>1. /\ \A r \in Runs : mem[r] = None /\ disk[r] = None
      /\ None.status = "none" /\ None \in Snapshots
  BY NoneIsSnapshot DEF Init, None
<1>2. BaseInv
  BY <1>1 DEF Init, BaseInv, TypeOK, Down, TodoBlocked
<1>3. Rows(mem, Executing) = {} /\ Rows(disk, Executing) = {}
  BY <1>1 DEF Rows, Executing
<1>4. Rows(mem, Parked) = {} /\ Rows(disk, Parked) = {}
  BY <1>1 DEF Rows, Parked
<1>5. PoolWithinBound
  <2>1. \A s \in Sops : ParkedIn(disk, s) = {} /\ MaxPending[s] \in Nat
    BY <1>4, ConstantsOK DEF ParkedIn, ConstantsOK
  <2>. QED
    BY <2>1, FS_EmptySet DEF PoolWithinBound
<1>6. ClaimInv
  BY <1>3, <1>4 DEF Init, ClaimInv, ExecutingHoldsClaim, ParkSurvivesCrash, LeasesKept
<1>7. RowInv
  <2>1. Live = {} /\ \A s \in Sops : Live \cap Of(s) = {}
    BY <1>3 DEF Live
  <2>2. MaxTotal \in Nat /\ \A s \in Sops : MaxConcurrent[s] \in Nat
    BY ConstantsOK DEF ConstantsOK
  <2>3. LiveWithinCaps
    BY <2>1, <2>2, FS_EmptySet DEF LiveWithinCaps
  <2>. QED
    BY <1>3, <2>3 DEF RowInv, RowsFollow
<1>8. GatesHold
  BY <1>1, NoneIsOK DEF GatesHold
<1>9. LifeInv
  BY <1>1 DEF Init, LifeInv, MemoryIsLive, AllSaved, Terminal
<1>10. FlightInv
  <2>1. Rows(mem, InFlight) = {} /\ Rows(disk, InFlight) = {}
    BY <1>3, <1>4 DEF Rows, InFlight
  <2>2. Engaged = {} /\ \A s \in Sops : Engaged \cap Of(s) = {}
    BY <2>1 DEF Engaged
  <2>3. \A s \in Sops : MaxConcurrent[s] \in Nat /\ MaxPending[s] \in Nat
    BY ConstantsOK DEF ConstantsOK
  <2>. QED
    BY <2>1, <2>2, <2>3, FS_EmptySet DEF FlightInv, RowsAreKnown, EngagedHaveRoom, EngagedAreSerial
<1>. QED
  BY <1>2, <1>5, <1>6, <1>7, <1>8, <1>9, <1>10 DEF IInv

LEMMA StepHolds == IInv /\ [Next]_vars => IInv'
<1>. SUFFICES ASSUME IInv, [Next]_vars PROVE IInv'
  OBVIOUS
<1>. QED
  BY BaseStep, LifeStep, PoolStep, ClaimStep, RowStep, FlightStep, GateStep
     DEF IInv, KeepsClaims, KeepsRows, KeepsGates

(* The inductive invariant of the engine and its store, whatever fails.    *)
THEOREM Invariant == Spec => []IInv
BY InitHolds, StepHolds, PTL DEF Spec

(* The engine's memory, the store and the tick keep their types.           *)
THEOREM TypeCorrect == Spec => []TypeOK
<1>1. IInv => TypeOK
  BY DEF IInv, BaseInv
<1>. QED
  BY <1>1, Invariant, PTL

(* No SOP ever has more parked rows than max_pending_approvals, whichever  *)
(* store calls fail: each park is checked by the save itself.              *)
THEOREM PoolIsBounded == Spec => []PoolWithinBound
<1>1. IInv => PoolWithinBound
  BY DEF IInv
<1>. QED
  BY <1>1, Invariant, PTL

(* An executing run owns its claim, through parks, resumes, denials, the   *)
(* reaper and restarts, if terminal writes and heartbeats do not fail.     *)
THEOREM ClaimsAreHeld == ASSUME KeepsClaims PROVE Spec => []ExecutingHoldsClaim
<1>1. IInv => ExecutingHoldsClaim
  BY DEF IInv, ClaimInv
<1>. QED
  BY <1>1, Invariant, PTL

(* A parked run survives a crash, though saves and releases may fail.      *)
THEOREM ParksSurvive == ASSUME KeepsClaims PROVE Spec => []ParkSurvivesCrash
<1>1. IInv => ParkSurvivesCrash
  BY DEF IInv, ClaimInv
<1>. QED
  BY <1>1, Invariant, PTL

(* A restart brings back no executing run whose slot was given away, if    *)
(* every row is restored.                                                  *)
THEOREM RestartsAddNoRun == ASSUME KeepsRows PROVE Spec => []RestartAddsNoRun
<1>1. IInv => RestartAddsNoRun
  <2>. SUFFICES ASSUME IInv, up PROVE Rows(disk, Executing) \subseteq Held(claim)
    BY DEF RestartAddsNoRun
  <2>1. ClaimInv /\ RowInv
    BY DEF IInv, KeepsRows, KeepsClaims
  <2>. QED
    BY <2>1, LiveHoldClaims DEF ClaimInv, RowInv, Live
<1>. QED
  BY <1>1, Invariant, PTL

(* max_concurrent and max_concurrent_total bound the executing runs, under *)
(* every interleaving of starts, decisions, crashes and restarts.          *)
THEOREM CapsAreKept == ASSUME KeepsRows PROVE Spec => []ExecutingWithinCaps
<1>1. IInv => ExecutingWithinCaps
  <2>. SUFFICES ASSUME IInv PROVE ExecutingWithinCaps
    OBVIOUS
  <2>1. LiveWithinCaps /\ Live \in SUBSET Runs
    BY DEF IInv, RowInv, Live, Rows
  <2>2. MaxTotal \in Nat /\ \A s \in Sops : MaxConcurrent[s] \in Nat
    BY ConstantsOK DEF ConstantsOK
  <2>3. Cardinality(Rows(mem, Executing)) <= MaxTotal
    <3>1. Rows(mem, Executing) \in SUBSET Live
      BY DEF Live
    <3>2. /\ Cardinality(Rows(mem, Executing)) <= Cardinality(Live)
          /\ Cardinality(Rows(mem, Executing)) \in Nat /\ Cardinality(Live) \in Nat
      BY <2>1, <3>1, RunSets
    <3>. QED
      BY <2>1, <2>2, <3>2 DEF LiveWithinCaps
  <2>4. ASSUME NEW s \in Sops PROVE Cardinality(ExecutingNow(s)) <= MaxConcurrent[s]
    <3>1. ExecutingNow(s) \in SUBSET (Live \cap Of(s)) /\ Live \cap Of(s) \in SUBSET Runs
      BY <2>1 DEF ExecutingNow, Live
    <3>2. /\ Cardinality(ExecutingNow(s)) <= Cardinality(Live \cap Of(s))
          /\ Cardinality(ExecutingNow(s)) \in Nat /\ Cardinality(Live \cap Of(s)) \in Nat
      BY <3>1, RunSets
    <3>3. Cardinality(Live \cap Of(s)) <= MaxConcurrent[s]
      BY <2>1 DEF LiveWithinCaps
    <3>. QED
      BY <2>2, <3>2, <3>3
  <2>. QED
    BY <2>3, <2>4 DEF ExecutingWithinCaps
<1>. QED
  BY <1>1, Invariant, PTL

(* No run executes a gated step whose gate is undecided, if terminal       *)
(* writes and state files do not fail.                                     *)
THEOREM GatesComeFirst == ASSUME KeepsGates PROVE Spec => []GateBeforeRunning
<1>1. IInv => GateBeforeRunning
  BY DEF IInv, GatesHold, GateOK, GateBeforeRunning, Rows
<1>. QED
  BY <1>1, Invariant, PTL

(* ... and no run leaves a gated step that nobody decided.                 *)
THEOREM GatesAreNotSkipped == ASSUME KeepsGates PROVE Spec => GatedStepNotSkipped
<1>1. ASSUME IInv, [Next]_vars, NEW r \in Rows(mem, Executing), GatedAt(r, mem[r].step), MovesOn(r)
      PROVE  mem[r].gate # "open"
  <2>1. r \in Runs /\ mem[r] \in Snapshots /\ mem[r].status \in Executing
    BY <1>1 DEF IInv, BaseInv, TypeOK, Rows
  <2>2. mem'[r].step # mem[r].step /\ mem'[r] # None
    BY <1>1 DEF MovesOn
  <2>3. CASE mem[r].status = "Running"
    BY <1>1, <2>1, <2>3 DEF IInv, GatesHold, GateOK
  <2>4. CASE mem[r].status = "Pending"
    <3>1. up
      BY <1>1, <2>1, <2>4 DEF IInv, BaseInv, Down, None
    <3>2. ASSUME NEW q \in Runs, Method(q) PROVE FALSE
      <4>1. q = r
        BY <1>1, <2>1, <2>2, <3>2, MethodOutcome DEF Outcome
      <4>2. ~AdvanceStep(r) /\ ~EndRun(r)
        <5>1. ~AdvanceStep(r)
          BY <1>1, <2>4 DEF AdvanceStep
        <5>2. ~EndRun(r)
          BY <1>1, <2>1, <2>2 DEF EndRun, Finish, Fails, KeepsGates, IInv, BaseInv, TypeOK
        <5>. QED
          BY <5>1, <5>2
      <4>3. ~StartRun(r)
        BY <2>4 DEF StartRun, None
      <4>. QED
        BY <2>4, <3>2, <4>1, <4>2, <4>3
           DEF Method, ApproveGate, DenyGate, ApproveCheckpoint, DenyCheckpoint, RejectCheckpoint,
               ReviseCheckpoint
    <3>3. ASSUME NEW q \in Runs, PromotePending(q) PROVE FALSE
      <4>1. q = r
        BY <1>1, <2>1, <2>2, <3>3, PromoteOutcome DEF Outcome
      <4>. DEFINE s == [mem[r] EXCEPT !.status = ParkStatus(r), !.gate = "open"]
      <4>2. Park(r, s, disk, claim)
        BY <2>2, <3>3, <4>1 DEF PromotePending
      <4>3. \E st : mem'[r] = [s EXCEPT !.status = st] \/ mem'[r] = s
                       \/ mem'[r] = [s EXCEPT !.status = st, !.seen = @ \cup {s.step}]
        BY <1>1, <2>1, <4>2 DEF Park, Defer, Carry, IInv, BaseInv, TypeOK
      <4>4. mem'[r].step = mem[r].step
        BY <2>1, <4>3 DEF Snapshots
      <4>. QED
        BY <2>2, <4>4
    <3>4. ASSUME NEW q \in Runs, RetryPark(q) PROVE FALSE
      BY <2>2, <3>4 DEF RetryPark
    <3>5. CASE Crash
      BY <2>1, <2>2, <3>5 DEF Crash
    <3>6. CASE BeginTick \/ EndRetry \/ HeartbeatClaims \/ ReapAndPrune \/ UNCHANGED vars
      BY <2>2, <3>6 DEF BeginTick, EndRetry, HeartbeatClaims, ReapAndPrune, vars
    <3>7. CASE Restart \/ RestartBlank
      BY <3>1, <3>7 DEF Restart, RestartBlank
    <3>. QED
      BY <1>1, <3>2, <3>3, <3>4, <3>5, <3>6, <3>7 DEF Next, Method
  <2>. QED
    BY <2>1, <2>3, <2>4 DEF Executing
<1>2. IInv /\ [Next]_vars =>
        [\A r \in Rows(mem, Executing) :
            GatedAt(r, mem[r].step) /\ MovesOn(r) => mem[r].gate # "open"]_vars
  BY <1>1
<1>. QED
  BY <1>2, Invariant, PTL DEF Spec, GatedStepNotSkipped

(* Runs parked and runs held back at a full pool are always fewer than the *)
(* slots and the places in the pool together, though saves, releases and   *)
(* reads may fail: inside one SOP they cannot starve one another.          *)
THEOREM RoomRemains == ASSUME KeepsRows PROVE Spec => []RoomInOwnSop
<1>1. IInv => RoomInOwnSop
  <2>. SUFFICES ASSUME IInv, NEW s \in Sops, MaxPending[s] > 0, MaxConcurrent[s] > 0
                PROVE  Cardinality(Rows(mem, InFlight) \cap Of(s)) < MaxConcurrent[s] + MaxPending[s]
    BY DEF RoomInOwnSop, InFlight
  <2>1. /\ Rows(mem, InFlight) \cap Of(s) \in SUBSET (Engaged \cap Of(s))
        /\ Engaged \cap Of(s) \in SUBSET Runs
    BY DEF Engaged, Of
  <2>2. /\ Cardinality(Rows(mem, InFlight) \cap Of(s)) <= Cardinality(Engaged \cap Of(s))
        /\ Cardinality(Rows(mem, InFlight) \cap Of(s)) \in Nat
        /\ Cardinality(Engaged \cap Of(s)) \in Nat
    BY <2>1, RunSets
  <2>3. Cardinality(Engaged \cap Of(s)) < MaxConcurrent[s] + MaxPending[s]
    BY DEF IInv, FlightInv, EngagedHaveRoom
  <2>4. MaxConcurrent[s] \in Nat /\ MaxPending[s] \in Nat
    BY ConstantsOK DEF ConstantsOK
  <2>. QED
    BY <2>2, <2>3, <2>4
<1>. QED
  BY <1>1, Invariant, PTL

(* Hold and Coalesce let one run of the SOP be in flight at a time, parked *)
(* runs included, unless both reads and saves fail: then a start counts    *)
(* its own executing runs only and misses a park that is still unsaved.    *)
THEOREM HoldIsKept == ASSUME KeepsRows, CountsParks PROVE Spec => []HoldIsSerial
<1>1. IInv => HoldIsSerial
  <2>. SUFFICES ASSUME IInv, NEW s \in Sops, Policy[s] \in {"Hold", "Coalesce"}
                PROVE  Cardinality(Rows(mem, InFlight) \cap Of(s)) <= 1
    BY DEF HoldIsSerial, InFlight
  <2>. DEFINE F == Rows(mem, InFlight) \cap Of(s)
  <2>1. \A q, r \in F : q = r
    BY DEF IInv, FlightInv, EngagedAreSerial, Engaged
  <2>2. CASE F = {}
    BY <2>2, FS_EmptySet
  <2>3. ASSUME NEW r \in F PROVE Cardinality(F) <= 1
    <3>1. F = {r}
      BY <2>1
    <3>. QED
      BY <3>1, FS_Singleton
  <2>. QED
    BY <2>2, <2>3
<1>. QED
  BY <1>1, Invariant, PTL

(* Whatever fails, a step either leaves the rows of finished runs alone or *)
(* prunes them.                                                            *)
THEOREM FinishedStay == Spec => FinishedStaysFinished
<1>1. ASSUME IInv, [Next]_vars, NEW r \in Runs, disk[r].status \in Terminal
      PROVE  disk'[r] \in {disk[r], None}
  <2>1. TypeOK /\ mem[r] = None
    BY <1>1 DEF IInv, BaseInv, LifeInv, MemoryIsLive
  <2>2. ASSUME NEW q \in Runs, Outcome(q) PROVE disk'[r] = disk[r]
    BY <1>1, <2>2 DEF Outcome, Fate
  <2>3. CASE \E q \in Runs : Method(q)
    BY <1>1, <2>2, <2>3, MethodOutcome
  <2>4. CASE \E q \in Runs : PromotePending(q)
    BY <1>1, <2>2, <2>4, PromoteOutcome
  <2>5. CASE \E q \in Runs : RetryPark(q)
    BY <2>1, <2>5 DEF RetryPark, TypeOK
  <2>6. CASE ReapAndPrune
    BY <2>1, <2>6 DEF ReapAndPrune, TypeOK
  <2>7. CASE Crash \/ Restart \/ RestartBlank
    BY <2>7 DEF Crash, Restart, RestartBlank, store
  <2>8. CASE BeginTick \/ EndRetry \/ HeartbeatClaims \/ UNCHANGED vars
    BY <2>8 DEF BeginTick, EndRetry, HeartbeatClaims, store, vars
  <2>. QED
    BY <1>1, <2>3, <2>4, <2>5, <2>6, <2>7, <2>8 DEF Next, Method
<1>2. IInv /\ [Next]_vars =>
        [\A r \in Runs : disk[r].status \in Terminal => disk'[r] \in {disk[r], None}]_vars
  BY <1>1
<1>. QED
  BY <1>2, Invariant, PTL DEF Spec, FinishedStaysFinished

(* Whatever fails, the engine drops a run from its memory only by dying or *)
(* with the run's outcome in the store.                                    *)
THEOREM NothingIsForgotten == Spec => NoRunForgotten
<1>1. ASSUME IInv, [Next]_vars, NEW r \in Runs, mem[r] # None, mem'[r] = None, up'
      PROVE  disk'[r].status \in Terminal
  <2>1. TypeOK /\ up
    BY <1>1 DEF IInv, BaseInv, Down
  <2>2. ASSUME NEW q \in Runs, Outcome(q) PROVE disk'[r].status \in Terminal
    <3>1. q = r
      BY <1>1, <2>2 DEF Outcome
    <3>2. None.status \notin InFlight
      BY DEF None, InFlight, Executing, Parked
    <3>. QED
      BY <1>1, <2>2, <3>1, <3>2 DEF Outcome, Fate
  <2>3. CASE \E q \in Runs : Method(q)
    BY <1>1, <2>2, <2>3, MethodOutcome
  <2>4. CASE \E q \in Runs : PromotePending(q)
    BY <1>1, <2>2, <2>4, PromoteOutcome
  <2>5. CASE \E q \in Runs : RetryPark(q)
    BY <1>1, <2>5 DEF RetryPark
  <2>6. CASE Crash \/ Restart \/ RestartBlank
    BY <1>1, <2>1, <2>6 DEF Crash, Restart, RestartBlank
  <2>7. CASE BeginTick \/ EndRetry \/ HeartbeatClaims \/ ReapAndPrune \/ UNCHANGED vars
    BY <1>1, <2>7 DEF BeginTick, EndRetry, HeartbeatClaims, ReapAndPrune, vars
  <2>. QED
    BY <1>1, <2>3, <2>4, <2>5, <2>6, <2>7 DEF Next, Method
<1>2. IInv /\ [Next]_vars =>
        [\A r \in Runs : (mem[r] # None /\ mem'[r] = None /\ up')
            => disk'[r].status \in Terminal]_vars
  BY <1>1
<1>. QED
  BY <1>2, Invariant, PTL DEF Spec, NoRunForgotten

(* SopSlots counts as SopEngine does.                                      *)
LEMMA SlotsCount == \A S : Slots!Cardinality(S) = Cardinality(S)
BY DEF Slots!Cardinality, Cardinality

(* The engine rations its slots, if no terminal write, heartbeat, restored *)
(* claim or boot load fails: every other fault, crash and restart included *)
(* only ever takes runs out of execution.                                  *)
THEOREM ImplementsSlots == ASSUME KeepsRows PROVE Spec => IsSlotPool
<1>1. Init => Slots!Init
  <2>1. Init => \A r \in Runs : mem[r].status \notin Executing /\ disk[r].status \notin Executing
    BY DEF Init, None, Executing
  <2>. QED
    BY <2>1 DEF Slots!Init, Live, Rows
<1>2. IInv /\ [Next]_vars => [Slots!Next]_Live
  <2>. SUFFICES ASSUME IInv, [Next]_vars PROVE [Slots!Next]_Live
    OBVIOUS
  <2>0. /\ TypeOK /\ Down /\ TodoBlocked /\ KeepsClaims
        /\ ExecutingHoldsClaim /\ ParkSurvivesCrash /\ RowsFollow
    BY DEF IInv, BaseInv, ClaimInv, RowInv, KeepsRows, KeepsClaims
  <2>1. ASSUME Live' \subseteq Live PROVE Slots!Next
    <3>1. Live' = Live \ (Live \ Live')
      BY <2>1
    <3>. QED
      BY <3>1 DEF Slots!Next, Slots!Leave
  <2>2. ASSUME NEW r \in Runs, Outcome(r), up, r \in Live' => r \in Live \/ CanClaim(r, claim)
        PROVE  Slots!Next
    <3>1. \A q \in Runs \ {r} : q \in Live' <=> q \in Live
      BY <2>2 DEF Outcome, Live, Rows
    <3>2. Live \subseteq Runs /\ Live' \subseteq Runs
      BY DEF Live, Rows
    <3>3. CASE r \in Live' /\ r \notin Live
      <4>. DEFINE mine == {q \in Live : SopOf[q] = SopOf[r]}
      <4>1. /\ Live \in SUBSET Held(claim)
            /\ mine \in SUBSET HeldFor(SopOf[r], claim)
            /\ Held(claim) \in SUBSET Runs /\ HeldFor(SopOf[r], claim) \in SUBSET Runs
        BY <2>0, <2>2, <3>2, LiveHoldClaims DEF Held, HeldFor, Of
      <4>2. CanClaim(r, claim)
        BY <2>2, <3>3
      <4>3. MaxTotal \in Nat /\ MaxConcurrent[SopOf[r]] \in Nat
        BY ConstantsOK DEF ConstantsOK
      <4>4. Slots!Cardinality(Live) < MaxTotal
        <5>1. /\ Cardinality(Live) <= Cardinality(Held(claim))
              /\ Cardinality(Live) \in Nat /\ Cardinality(Held(claim)) \in Nat
          BY <4>1, RunSets
        <5>. QED
          BY <4>2, <4>3, <5>1, SlotsCount DEF CanClaim
      <4>5. Slots!Cardinality(mine) < MaxConcurrent[SopOf[r]]
        <5>1. /\ Cardinality(mine) <= Cardinality(HeldFor(SopOf[r], claim))
              /\ Cardinality(mine) \in Nat /\ Cardinality(HeldFor(SopOf[r], claim)) \in Nat
          BY <4>1, RunSets
        <5>. HIDE DEF mine
        <5>. QED
          BY <4>2, <4>3, <5>1, SlotsCount DEF CanClaim
      <4>6. Live' = Live \cup {r}
        BY <3>1, <3>2, <3>3
      <4>. QED
        BY <3>3, <4>4, <4>5, <4>6 DEF Slots!Next, Slots!Enter
    <3>4. CASE ~(r \in Live' /\ r \notin Live)
      BY <2>1, <3>1, <3>2, <3>4
    <3>. QED
      BY <3>3, <3>4
  <2>3. ASSUME NEW r \in Runs, Method(r) PROVE Slots!Next
    BY <2>0, <2>2, <2>3, MethodOutcome, MethodClaims
  <2>4. ASSUME NEW r \in Runs, PromotePending(r) PROVE Slots!Next
    <3>1. up /\ r \in Live
      BY <2>0, <2>4, PromoteOutcome DEF Down, Live, Rows, Executing
    <3>2. CASE UNCHANGED <<mem, disk>>
      BY <2>1, <3>2 DEF Live, Rows
    <3>. QED
      BY <2>2, <2>4, <3>1, <3>2, PromoteOutcome
  <2>5. ASSUME NEW r \in Runs, RetryPark(r) PROVE Slots!Next
    <3>1. mem' = mem /\ \A q \in Runs : disk'[q] = disk[q] \/ disk'[q] = mem[q]
      BY <2>0, <2>5 DEF RetryPark, TypeOK
    <3>. QED
      BY <2>1, <3>1 DEF Live, Rows
  <2>6. None.status \notin Executing
    BY DEF None, Executing
  <2>7. CASE ReapAndPrune
    <3>1. mem' = mem /\ \A q \in Runs : disk'[q] = disk[q] \/ disk'[q] = None
      BY <2>0, <2>7 DEF ReapAndPrune, TypeOK
    <3>. QED
      BY <2>1, <2>6, <3>1 DEF Live, Rows
  <2>8. CASE Crash
    BY <2>1, <2>6, <2>8 DEF Crash, Live, Rows, store
  <2>9. CASE Restart
    <3>1. disk' = disk /\ \A r \in Runs : mem'[r] = None \/ mem'[r] = disk[r]
      BY <2>0, <2>9, RestartShape
    <3>. QED
      BY <2>1, <2>6, <3>1 DEF Live, Rows
  <2>10. CASE BeginTick \/ EndRetry \/ HeartbeatClaims \/ UNCHANGED vars
    BY <2>10 DEF BeginTick, EndRetry, HeartbeatClaims, store, vars, Live, Rows
  <2>11. CASE RestartBlank
    BY <2>11 DEF RestartBlank, Fails, KeepsRows
  <2>. QED
    BY <2>3, <2>4, <2>5, <2>7, <2>8, <2>9, <2>10, <2>11 DEF Next, Method
<1>. QED
  BY <1>1, <1>2, Invariant, PTL DEF Spec, IsSlotPool, Slots!Spec
=============================================================================
