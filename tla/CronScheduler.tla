---------------------------- MODULE CronScheduler ----------------------------
(***************************************************************************)
(* Scheduled jobs: the table of jobs (cron/store.rs), the one scheduler    *)
(* that reads, claims, runs and records them (cron/scheduler.rs), and the  *)
(* users who add, edit and remove jobs at any moment.                      *)
(*                                                                         *)
(* Time is the order in which jobs fall due: `line` holds the jobs whose   *)
(* next_run has passed, oldest first.  A recurring job leaves it when it   *)
(* is given its next time.  An edit keeps the next_run it has read and     *)
(* writes it back, whatever became of the row and of that time meanwhile.  *)
(* Commands, prompts, delivery of the output and the history of runs are   *)
(* left out, as are runs started by hand, which take no lock and change    *)
(* neither next_run nor enabled.                                           *)
(***************************************************************************)
EXTENDS Naturals, SequencesExt

CONSTANTS
    Jobs,
    NoJob,         \* no row, no edit
    Declared,      \* jobs of the configuration, all of them one-shots, enabled
    Orphans,       \* jobs that belong to no agent
    MaxTasks,      \* scheduler.max_tasks
    MaxConcurrent, \* scheduler.max_concurrent
    Patches,       \* what users edit
    Faults,        \* what may fail
    MaxFaults,     \* bound: faults and restarts
    MaxEdits       \* bound: edits

Entries == [once : BOOLEAN, edited : BOOLEAN, enabled : BOOLEAN, locked : BOOLEAN]
Schedules == {"once", "recurring"}

ASSUME CronConstants ==
    /\ Declared \subseteq Jobs /\ IsFiniteSet(Declared)
    /\ Orphans \subseteq Jobs \ Declared
    /\ MaxTasks \in Nat \ {0} /\ MaxConcurrent \in Nat \ {0}
    /\ Patches \subseteq Schedules \cup {"pause", "resume", "name"}
    /\ Faults \subseteq {"sync", "unlock", "read", "skip", "claim", "release", "history", "db", "crash"}
    /\ MaxFaults \in Nat /\ MaxEdits \in Nat
    /\ NoJob \notin Entries

VARIABLES
    catch_up, \* scheduler.catch_up_on_startup
    row,      \* the table: per job its schedule, enabled and locked_at
    line,     \* jobs whose next_run has passed, in its order
    past,     \* declared jobs whose declared time has passed
    sched,    \* what the scheduler does next
    picked,   \* jobs read as due, with the schedule read, to claim or to skip
    batch,    \* jobs claimed and not begun
    flight,   \* jobs being run
    edit,     \* an edit between reading the row and writing it
    budget,   \* faults and edits left
    done,     \* ghost: jobs whose current occurrence has been executed
    late,     \* ghost: jobs that were overdue when the scheduler started, to be skipped
    leaked    \* ghost: jobs whose lock could not be taken off

vars == <<catch_up, row, line, past, sched, picked, batch, flight, edit, budget,
          done, late, leaked>>
work   == <<picked, batch, flight>>
ghosts == <<done, late, leaked>>

(* edited: the schedule is a user's, not the declared one.                 *)
Row(once) == [once |-> once, edited |-> FALSE, enabled |-> TRUE, locked |-> FALSE]
Exists(j) == row[j] # NoJob
IsDue(j) == j \in Range(line)

(* Whoever comes first in s comes first in t.                              *)
KeepsOrder(s, t) ==
    \A i, k \in DOMAIN s : i < k =>
        \E a, b \in DOMAIN t : a < b /\ t[a] = s[i] /\ t[b] = s[k]

(* The jobs of a set that are in line, in its order (a set of one).        *)
InLine(jobs) == {s \in SetToSeqs(Range(line) \cap jobs) : KeepsOrder(s, line)}
Without(jobs) == InLine(Jobs \ jobs)

(* The orders in which jobs of an older next_run join those in line.       *)
Joined(kept, jobs) == {s \in SetToSeqs(Range(kept) \cup jobs) : KeepsOrder(kept, s)}

Fault(what) == /\ what \in Faults /\ budget.faults > 0
               /\ budget' = [budget EXCEPT !.faults = @ - 1]
NoFault == UNCHANGED budget

Init ==
    /\ catch_up \in BOOLEAN
    /\ row \in [Jobs -> {NoJob, Row(TRUE), Row(FALSE)}]
    /\ \A j \in Declared : row[j] = NoJob
    /\ \A j \in Orphans : row[j] = Row(FALSE)
    /\ line = <<>> /\ past \in SUBSET Declared
    /\ sched = "sync"
    /\ picked = <<>> /\ batch = <<>> /\ flight = {}
    /\ edit = NoJob
    /\ budget = [faults |-> MaxFaults, edits |-> MaxEdits]
    /\ done = {} /\ late = {} /\ leaked = {}

(* The next_run of a job comes.                                            *)
FallDue(j) ==
    /\ Exists(j) /\ ~IsDue(j)
    /\ line' = Append(line, j)
    /\ past' = IF j \in Declared /\ ~row[j].edited THEN past \cup {j} ELSE past
    /\ done' = done \ {j} /\ late' = late \ {j}
    /\ UNCHANGED <<catch_up, row, sched, work, edit, budget, leaked>>

(* The time of a declaration comes that is not that of the row.            *)
DeclaredTimeComes(j) ==
    /\ j \in Declared \ past
    /\ Exists(j) => row[j].edited
    /\ past' = past \cup {j}
    /\ UNCHANGED <<catch_up, row, line, sched, work, edit, budget, ghosts>>

-----------------------------------------------------------------------------
(* What is written to rows.                                                *)

(* The next_run of some rows is about to change: what an edit has read is  *)
(* from now on another time, past or not.                                  *)
Moved(jobs) ==
    IF edit # NoJob /\ edit.job \in jobs /\ edit.next = "row"
    THEN [edit EXCEPT !.next = IF IsDue(edit.job) THEN "past" ELSE "future"]
    ELSE edit

(* Mutant: a one-shot that has run stays enabled.                          *)
DisableNothing(j) == UNCHANGED <<row, line, edit>>

(* RunCompletionAction; skip_missed_run does the first two as well.        *)
Reschedule(j) == line' \in Without({j}) /\ edit' = Moved({j}) /\ UNCHANGED row
Disable(j) == row' = [row EXCEPT ![j].enabled = FALSE] /\ UNCHANGED <<line, edit>>
Delete(j) == /\ row' = [row EXCEPT ![j] = NoJob]
             /\ line' \in Without({j}) /\ edit' = Moved({j})

-----------------------------------------------------------------------------
(* The scheduler starts: it brings the table in line with the              *)
(* configuration, takes off the locks of the process before it, and runs   *)
(* or skips what is overdue.                                               *)

(* sync_declarative_jobs writes one declaration after the other and stops  *)
(* at the first that fails.  It enables the job; its next_run stays unless *)
(* the row is missing or its schedule is not the declared one.             *)
Sync ==
    /\ sched = "sync" /\ sched' = "unlock"
    /\ \E written \in SUBSET Declared :
         LET fresh == {j \in written : ~Exists(j) \/ row[j].edited} IN
         /\ IF written = Declared THEN NoFault ELSE Fault("sync")
         /\ row' = [j \in Jobs |->
                      IF j \in written
                      THEN [Row(TRUE) EXCEPT !.locked = Exists(j) /\ row[j].locked]
                      ELSE row[j]]
         /\ \E kept \in Without(fresh) : line' \in Joined(kept, fresh \cap past)
         /\ edit' = Moved(fresh)
         /\ done' = done \ written
    /\ UNCHANGED <<catch_up, past, work, late, leaked>>

ClearStaleLocks ==
    /\ sched = "unlock" /\ sched' = "start"
    /\ \/ /\ NoFault
          /\ row' = [j \in Jobs |-> IF Exists(j) THEN [row[j] EXCEPT !.locked = FALSE]
                                    ELSE NoJob]
          /\ leaked' = {}
       \/ /\ Fault("unlock") /\ UNCHANGED row
          /\ leaked' = leaked \cup {j \in Jobs : Exists(j) /\ row[j].locked}
    /\ UNCHANGED <<catch_up, line, past, work, edit, done, late>>

Ready == {j \in Range(line) : row[j].enabled /\ ~row[j].locked}

(* Mutant: the latest first.                                               *)
EligibleNewest == {Reverse(s) : s \in InLine(Ready)}

(* enabled = 1 AND next_run <= now AND locked_at IS NULL ORDER BY next_run *)
Eligible == InLine(Ready)
Read(jobs) == [i \in DOMAIN jobs |-> [job |-> jobs[i], once |-> row[jobs[i]].once]]

(* What is overdue at the start is caught up with or skipped; if it cannot *)
(* be read the polls find it.                                              *)
ReadOverdue ==
    /\ sched = "start"
    /\ \/ /\ NoFault
          /\ \E jobs \in Eligible : picked' = Read(jobs)
          /\ sched' = IF Ready = {} THEN "poll" ELSE IF catch_up THEN "claim" ELSE "skip"
          /\ late' = IF catch_up THEN {} ELSE Range(line)
       \/ Fault("read") /\ UNCHANGED picked /\ sched' = "poll" /\ late' = {}
    /\ UNCHANGED <<catch_up, row, line, past, batch, flight, edit, done, leaked>>

(* Mutant: only one-shots are skipped.                                     *)
SkipMissedOnce ==
    /\ sched = "skip"
    /\ picked' = Tail(picked)
    /\ LET j == Head(picked).job IN
       \/ /\ NoFault /\ UNCHANGED late
          /\ IF Exists(j) /\ Head(picked).once THEN Disable(j) ELSE UNCHANGED <<row, line, edit>>
       \/ Fault("skip") /\ late' = late \ {j} /\ UNCHANGED <<row, line, edit>>
    /\ sched' = IF picked' = <<>> THEN "poll" ELSE sched
    /\ UNCHANGED <<catch_up, past, batch, flight, done, leaked>>

(* skip_missed_run, by the schedule that was read: a one-shot is disabled, *)
(* a recurring job waits for its next time.                                *)
SkipMissed ==
    /\ sched = "skip"
    /\ picked' = Tail(picked)
    /\ LET j == Head(picked).job IN
       \/ /\ NoFault /\ UNCHANGED late
          /\ IF ~Exists(j) THEN UNCHANGED <<row, line, edit>>
             ELSE IF Head(picked).once THEN Disable(j) ELSE Reschedule(j)
       \/ Fault("skip") /\ late' = late \ {j} /\ UNCHANGED <<row, line, edit>>
    /\ sched' = IF picked' = <<>> THEN "poll" ELSE sched
    /\ UNCHANGED <<catch_up, past, batch, flight, done, leaked>>

-----------------------------------------------------------------------------
(* A poll: read at most max_tasks jobs, claim them one by one, then run    *)
(* them, at most max_concurrent at a time, until the last has ended.       *)

DueJobs ==
    /\ sched = "poll" /\ Ready # {}
    /\ \E jobs \in Eligible : \E n \in 1..Len(jobs) :
          /\ n = MaxTasks \/ (n = Len(jobs) /\ n < MaxTasks)
          /\ picked' = Read(SubSeq(jobs, 1, n))
    /\ sched' = "claim"
    /\ UNCHANGED <<catch_up, row, line, past, batch, flight, edit, budget, ghosts>>

(* The claim looks at the lock and at nothing else.                        *)
ClaimJob ==
    /\ sched = "claim"
    /\ picked' = Tail(picked)
    /\ LET j == Head(picked).job IN
       \/ /\ NoFault /\ Exists(j) /\ ~row[j].locked
          /\ row' = [row EXCEPT ![j].locked = TRUE]
          /\ batch' = Append(batch, Head(picked))
       \/ /\ IF Exists(j) => row[j].locked THEN NoFault ELSE Fault("claim")
          /\ UNCHANGED <<row, batch>>
    /\ sched' = IF picked' = <<>> THEN "work" ELSE sched
    /\ UNCHANGED <<catch_up, line, past, flight, edit, ghosts>>

(* release_job takes the lock off if the row is still there.               *)
ReleaseJob(j) ==
    IF ~Exists(j) THEN NoFault /\ UNCHANGED <<row, leaked>>
    ELSE \/ NoFault /\ row' = [row EXCEPT ![j].locked = FALSE] /\ UNCHANGED leaked
         \/ Fault("release") /\ leaked' = leaked \cup {j} /\ UNCHANGED row

CanBegin == /\ sched = "work" /\ batch # <<>>
            /\ Cardinality(flight) < MaxConcurrent

(* A job that belongs to no agent is let go and stays due.                 *)
SkipOrphan ==
    /\ CanBegin /\ Head(batch).job \in Orphans
    /\ batch' = Tail(batch)
    /\ ReleaseJob(Head(batch).job)
    /\ UNCHANGED <<catch_up, line, past, sched, picked, flight, edit, done, late>>

Begin ==
    /\ CanBegin /\ Head(batch).job \notin Orphans
    /\ batch' = Tail(batch)
    /\ flight' = flight \cup {[job |-> Head(batch).job, once |-> Head(batch).once, at |-> "run"]}
    /\ UNCHANGED <<catch_up, row, line, past, sched, picked, edit, budget, ghosts>>

Execute(f) ==
    /\ f.at = "run"
    /\ \E at \in {"ok", "failed"} : flight' = (flight \ {f}) \cup {[f EXCEPT !.at = at]}
    /\ done' = done \cup {f.job}
    /\ UNCHANGED <<catch_up, row, line, past, sched, picked, batch, edit, budget, late, leaked>>

(* Result and state are written in one transaction.  If that fails the     *)
(* state is written alone, and a job that was to be deleted is disabled.   *)
(* The schedule is the one that was read with the job.                     *)
PersistJobResult(f) ==
    /\ f.at \in {"ok", "failed"}
    /\ flight' = (flight \ {f}) \cup {[f EXCEPT !.at = "recorded"]}
    /\ \/ /\ NoFault /\ Exists(f.job) /\ UNCHANGED done
          /\ \/ ~f.once /\ Reschedule(f.job)
             \/ f.once /\ Disable(f.job)
             \/ f.once /\ f.at = "ok" /\ Delete(f.job)
       \/ /\ Fault("history") /\ Exists(f.job) /\ UNCHANGED done
          /\ IF f.once THEN Disable(f.job) ELSE Reschedule(f.job)
       \/ /\ IF Exists(f.job) THEN Fault("db") ELSE NoFault
          /\ done' = done \ {f.job}
          /\ UNCHANGED <<row, line, edit>>
    /\ UNCHANGED <<catch_up, past, sched, picked, batch, late, leaked>>

Release(f) ==
    /\ f.at = "recorded"
    /\ flight' = flight \ {f}
    /\ ReleaseJob(f.job)
    /\ UNCHANGED <<catch_up, line, past, sched, picked, batch, edit, done, late>>

EndBatch ==
    /\ sched = "work" /\ batch = <<>> /\ flight = {}
    /\ sched' = "poll"
    /\ UNCHANGED <<catch_up, row, line, past, work, edit, budget, ghosts>>

Crash ==
    /\ sched # "down" /\ Fault("crash")
    /\ sched' = "down"
    /\ picked' = <<>> /\ batch' = <<>> /\ flight' = {}
    /\ done' = done \ {f.job : f \in {g \in flight : g.at # "recorded"}}
    /\ UNCHANGED <<catch_up, row, line, past, edit, late, leaked>>

Restart ==
    /\ sched = "down" /\ sched' = "sync"
    /\ UNCHANGED <<catch_up, row, line, past, work, edit, budget, ghosts>>

-----------------------------------------------------------------------------
(* Users.  A new job has an id of its own: nothing is left of an old one.  *)

Spend == budget.edits > 0 /\ budget' = [budget EXCEPT !.edits = @ - 1]
InUse == {e.job : e \in Range(picked) \cup Range(batch) \cup flight}

AddJob(j) ==
    /\ ~Exists(j) /\ j \notin Declared \cup InUse
    /\ edit # NoJob => edit.job # j
    /\ Spend
    /\ \E once \in BOOLEAN : row' = [row EXCEPT ![j] = Row(once)]
    /\ done' = done \ {j} /\ late' = late \ {j}
    /\ leaked' = leaked \ {j}
    /\ UNCHANGED <<catch_up, line, past, sched, work, edit>>

RemoveJob(j) ==
    /\ Exists(j) /\ Spend
    /\ Delete(j)
    /\ UNCHANGED <<catch_up, past, sched, work, ghosts>>

(* update_job reads the row and later writes it as a whole, next_run and   *)
(* enabled included, except for the lock.                                  *)
ReadForUpdate(j, patch) ==
    /\ edit = NoJob /\ Exists(j) /\ Spend
    /\ edit' = [job |-> j, patch |-> patch, once |-> row[j].once, edited |-> row[j].edited,
                enabled |-> row[j].enabled, next |-> "row"]
    /\ UNCHANGED <<catch_up, row, line, past, sched, work, ghosts>>

(* A new schedule gets a next_run of its own.  Otherwise the one that was  *)
(* read is put back: if the row has moved on since, to an older time.      *)
WriteNextRun ==
    \/ /\ edit.patch \in Schedules \/ edit.next = "future"
       /\ line' \in Without({edit.job})
    \/ /\ edit.patch \notin Schedules /\ edit.next # "row"
       /\ \E kept \in Without({edit.job}) : line' \in Joined(kept, {edit.job})
    \/ /\ edit.patch \notin Schedules /\ edit.next = "row"
       /\ UNCHANGED line

(* A job that is enabled again, or due again, may run again.               *)
WriteUpdate ==
    /\ edit # NoJob
    /\ edit' = NoJob
    /\ LET j == edit.job
           revived == \/ row'[j].enabled /\ ~row[j].enabled
                      \/ j \in Range(line') /\ ~IsDue(j)
       IN IF ~Exists(j) THEN UNCHANGED <<row, line, done, late>>
          ELSE /\ row' = [row EXCEPT
                            ![j].once = CASE edit.patch = "once" -> TRUE
                                          [] edit.patch = "recurring" -> FALSE
                                          [] OTHER -> edit.once,
                            ![j].edited = edit.edited
                                            \/ (edit.patch \in Schedules /\ j \in Declared),
                            ![j].enabled = IF edit.patch = "pause" THEN FALSE
                                           ELSE edit.enabled \/ edit.patch = "resume"]
               /\ WriteNextRun
               /\ done' = IF revived THEN done \ {j} ELSE done
               /\ late' = IF revived THEN late \ {j} ELSE late
    /\ UNCHANGED <<catch_up, past, sched, work, budget, leaked>>

Scheduling ==
    \/ Sync \/ ClearStaleLocks \/ ReadOverdue \/ SkipMissed
    \/ DueJobs \/ ClaimJob \/ SkipOrphan \/ Begin
    \/ \E f \in flight : Execute(f) \/ PersistJobResult(f) \/ Release(f)
    \/ EndBatch

Next ==
    \/ Scheduling \/ Crash \/ Restart
    \/ \E j \in Jobs : FallDue(j) \/ DeclaredTimeComes(j) \/ AddJob(j) \/ RemoveJob(j)
    \/ \E j \in Jobs, patch \in Patches : ReadForUpdate(j, patch)
    \/ WriteUpdate

Spec == Init /\ [][Next]_vars

(* The scheduler's task is polled, every job ends, and the daemon's        *)
(* supervisor starts a scheduler that died again.  The scheduler bounds    *)
(* commands by a timeout; that the turn of an agent ends is assumed.       *)
FairSpec == Spec /\ WF_vars(Scheduling) /\ WF_vars(Restart)

-----------------------------------------------------------------------------
Items == [job : Jobs, once : BOOLEAN]

TypeOK ==
    /\ catch_up \in BOOLEAN
    /\ \A j \in Jobs : Exists(j) => row[j] \in Entries
    /\ line \in Seq(Jobs) /\ \A j \in Range(line) : Exists(j)
    /\ past \subseteq Declared
    /\ sched \in {"down", "sync", "unlock", "start", "skip", "poll", "claim", "work"}
    /\ picked \in Seq(Items) /\ batch \in Seq(Items)
    /\ flight \subseteq [job : Jobs, once : BOOLEAN, at : {"run", "ok", "failed", "recorded"}]
    /\ Cardinality(flight) <= MaxConcurrent
    /\ edit = NoJob \/ edit \in [job : Jobs, patch : Patches, once : BOOLEAN, edited : BOOLEAN,
                                 enabled : BOOLEAN, next : {"row", "past", "future"}]
    /\ budget \in [faults : 0..MaxFaults, edits : 0..MaxEdits]
    /\ done \cup late \cup leaked \subseteq Jobs

(* One occurrence of a job is executed once.  `done` loses a job only when *)
(* its next occurrence begins, the row is another's, or the run may be     *)
(* repeated: a crash before the result is recorded, a result that no write *)
(* could record, a start that declares the job anew, and an edit that      *)
(* enables the job again or puts back the next_run it had read before.     *)
OncePerOccurrence ==
    [][ \A f \in flight' \ flight : f.at = "run" => f.job \notin done ]_vars

(* With catch-up turned off, what was overdue when the scheduler started,  *)
(* jobs whose run the restart has interrupted included, does not run late, *)
(* only at its next time.  `late` loses a job before that only when its    *)
(* skip, or the reading of all that is overdue, fails, and by an edit that *)
(* enables it again or puts back the next_run it had read before the skip. *)
OverdueIsSkipped ==
    [][ \A f \in flight' \ flight : f.at = "run" => f.job \notin late ]_vars

(* A job that is due is run in the end, however often others fall due and  *)
(* although jobs without an agent stay in line.                            *)
Waiting(j) == /\ IsDue(j) /\ row[j].enabled
              /\ j \notin Orphans \cup leaked
Running(j) == \E f \in flight : f.job = j
DueJobsRun == \A j \in Jobs : Waiting(j) ~> (Running(j) \/ ~Waiting(j))
=============================================================================
