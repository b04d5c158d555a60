-------------------------- MODULE CronSchedulerProof --------------------------
(***************************************************************************)
(* Proofs about CronScheduler, for any jobs, limits, edits and faults.     *)
(*                                                                         *)
(* The argument runs along the life of a job between the claim and the     *)
(* end: a job in the hands of the scheduler is there once and its row is   *)
(* locked, so a job whose occurrence has been executed is either waiting   *)
(* for its result to be written or spent, and is not claimed again.        *)
(***************************************************************************)
EXTENDS CronScheduler, FiniteSetTheorems, SequenceTheorems, TLAPS

Tables == [Jobs -> Entries \cup {NoJob}]

(* Where the scheduler has jobs in its hands.                              *)
HandsFollowStage ==
    /\ sched \in {"claim", "skip"} <=> picked # <<>>
    /\ sched \notin {"claim", "work"} => batch = <<>>
    /\ sched # "work" => flight = {}

(* A claimed job is in one place, and its row, if there is one, is locked. *)
InBatch == {e.job : e \in Range(batch)}
InFlight == {f.job : f \in flight}
Claimed == InBatch \cup InFlight
ClaimedOnce ==
    /\ \A i, k \in DOMAIN batch : batch[i].job = batch[k].job => i = k
    /\ \A f, g \in flight : f.job = g.job => f = g
    /\ InBatch \cap InFlight = {}
ClaimedAreLocked == \A j \in Claimed : Exists(j) => row[j].locked

(* Nothing is left to do for a job before its next time.                   *)
Spent(j) == ~Exists(j) \/ ~IsDue(j) \/ ~row[j].enabled

(* The jobs that are about to run; what is read at the start may be there  *)
(* to be skipped.                                                          *)
ToClaim == IF sched = "skip" THEN {} ELSE Range(picked)
Ahead == {e.job : e \in ToClaim \cup Range(batch)}
            \cup {f.job : f \in {g \in flight : g.at = "run"}}

DoneIsOver ==
    /\ Ahead \cap done = {}
    /\ \A j \in done : Spent(j) \/ \E f \in flight : f.job = j /\ f.at \in {"ok", "failed"}

(* What was overdue at the start is spent, or nobody can claim it, or it   *)
(* is about to be skipped.                                                 *)
ToSkip == {e.job : e \in IF sched = "skip" THEN Range(picked) ELSE {}}
Left(j) == Spent(j) \/ (row[j].locked /\ j \notin Claimed) \/ j \in ToSkip
LateIsOver ==
    sched \in {"skip", "poll", "claim", "work"} =>
        /\ Ahead \cap late = {}
        /\ \A j \in late : Left(j)

IInv == /\ TypeOK /\ row \in Tables /\ IsFiniteSet(flight)
        /\ HandsFollowStage /\ ClaimedOnce /\ ClaimedAreLocked
        /\ DoneIsOver /\ LateIsOver
----------------------------------------------------------------------------
(* Sequences and what they hold.                                           *)
LEMMA HeadAndTail ==
    ASSUME NEW S, NEW s \in Seq(S), s # <<>>
    PROVE  /\ Head(s) \in Range(s) /\ Head(s) \in S /\ Head(s) = s[1] /\ 1 \in DOMAIN s
           /\ Tail(s) \in Seq(S) /\ Range(Tail(s)) \subseteq Range(s)
           /\ \A i \in DOMAIN Tail(s) : i + 1 \in DOMAIN s /\ Tail(s)[i] = s[i + 1] /\ i \in Nat \ {0}
BY DEF Range

LEMMA TailIs ==
    ASSUME NEW S, NEW s \in Seq(S), s # <<>>
    PROVE  /\ Range(s) = {Head(s)} \cup Range(Tail(s))
           /\ \A e \in Range(Tail(s)) : \E i \in DOMAIN s : i # 1 /\ s[i] = e
<1>1. /\ Len(s) \in Nat \ {0} /\ DOMAIN s = 1..Len(s)
      /\ DOMAIN Tail(s) = 1..(Len(s) - 1)
      /\ \A i \in 1..(Len(s) - 1) : Tail(s)[i] = s[i + 1]
  BY EmptySeq, LenProperties, HeadTailProperties
<1>2. Head(s) = s[1]
  BY HeadTailProperties
<1>3. \A e \in Range(Tail(s)) : \E i \in DOMAIN s : i # 1 /\ s[i] = e
  BY <1>1 DEF Range
<1>4. \A i \in DOMAIN s : i = 1 \/ (i - 1 \in DOMAIN Tail(s) /\ s[i] = Tail(s)[i - 1])
  BY <1>1
<1>5. Range(s) \subseteq {Head(s)} \cup Range(Tail(s))
  BY <1>2, <1>4 DEF Range
<1>6. {Head(s)} \cup Range(Tail(s)) \subseteq Range(s)
  BY <1>1, <1>2, <1>3 DEF Range
<1>. QED
  BY <1>3, <1>5, <1>6

LEMMA Appended ==
    ASSUME NEW S, NEW s \in Seq(S), NEW e \in S
    PROVE  /\ Append(s, e) \in Seq(S) /\ Append(s, e) # <<>>
           /\ Range(Append(s, e)) = Range(s) \cup {e}
<1>1. /\ Append(s, e) \in Seq(S) /\ Append(s, e) # <<>>
      /\ Len(Append(s, e)) = Len(s) + 1
      /\ \A i \in 1..Len(s) : Append(s, e)[i] = s[i]
      /\ Append(s, e)[Len(s) + 1] = e
  BY AppendProperties
<1>2. DOMAIN Append(s, e) = 1..(Len(s) + 1) /\ DOMAIN s = 1..Len(s) /\ Len(s) \in Nat
  BY <1>1, LenProperties
<1>3. Range(Append(s, e)) \subseteq Range(s) \cup {e}
  BY <1>1, <1>2 DEF Range
<1>4. Range(s) \cup {e} \subseteq Range(Append(s, e))
  BY <1>1, <1>2 DEF Range
<1>. QED
  BY <1>1, <1>3, <1>4

LEMMA RangeIs ==
    ASSUME NEW S, NEW s \in Seq(S)
    PROVE  Range(s) \subseteq S /\ IsFiniteSet(Range(s)) /\ (Range(s) = {} <=> s = <<>>)
<1>1. DOMAIN s = 1..Len(s) /\ Len(s) \in Nat /\ \A i \in DOMAIN s : s[i] \in S
  BY LenProperties
<1>2. Range(s) \subseteq S
  BY <1>1 DEF Range
<1>3. Range(s) = {} <=> s = <<>>
  <2>1. CASE s = <<>>
    BY <2>1 DEF Range
  <2>2. CASE s # <<>>
    <3>1. Len(s) \in Nat \ {0}
      BY <2>2, EmptySeq
    <3>2. 1 \in DOMAIN s
      BY <1>1, <3>1
    <3>3. s[1] \in Range(s)
      BY <3>2 DEF Range
    <3>. QED
      BY <2>2, <3>3
  <2>. QED
    BY <2>1, <2>2
<1>4. IsFiniteSet(1..Len(s))
  BY <1>1, FS_Interval
<1>5. s \in Surjection(1..Len(s), Range(s))
  <2>1. s \in [1..Len(s) -> Range(s)]
    BY <1>1, LenProperties DEF Range
  <2>2. \A t \in Range(s) : \E i \in 1..Len(s) : s[i] = t
    BY <1>1 DEF Range
  <2>. QED
    BY <2>1, <2>2 DEF Surjection
<1>6. IsFiniteSet(Range(s))
  BY <1>4, <1>5, FS_Surjection
<1>. QED
  BY <1>2, <1>3, <1>6

(* The orders of a finite set.                                             *)
LEMMA Orders ==
    ASSUME NEW S, IsFiniteSet(S), NEW s \in SetToSeqs(S)
    PROVE  s \in Seq(S) /\ Range(s) = S
<1>1. Cardinality(S) \in Nat
  BY FS_CardinalityType
<1>. DEFINE D == 1..Cardinality(S)
<1>2. s \in [D -> S] /\ \A i, k \in D : i # k => s[i] # s[k]
  BY DEF SetToSeqs
<1>3. s \in Seq(S)
  BY <1>1, <1>2
<1>4. IsFiniteSet(D) /\ Cardinality(D) = Cardinality(S)
  BY <1>1, FS_Interval
<1>5. s \in Injection(D, S)
  BY <1>2 DEF Injection, IsInjective
<1>6. s \in Surjection(D, S)
  BY <1>4, <1>5, FS_Injection
<1>. QED
  BY <1>2, <1>3, <1>6 DEF Surjection, Range

LEMMA InLineIs ==
    ASSUME line \in Seq(Jobs), NEW jobs, NEW s \in InLine(jobs)
    PROVE  /\ s \in Seq(Range(line) \cap jobs) /\ s \in Seq(Jobs)
           /\ Range(s) = Range(line) \cap jobs
<1>1. Range(line) \subseteq Jobs /\ IsFiniteSet(Range(line))
  BY RangeIs
<1>2. IsFiniteSet(Range(line) \cap jobs)
  BY <1>1, FS_Subset
<1>3. s \in SetToSeqs(Range(line) \cap jobs)
  BY DEF InLine
<1>4. s \in Seq(Range(line) \cap jobs) /\ Range(s) = Range(line) \cap jobs
  BY <1>2, <1>3, Orders
<1>5. s \in Seq(Jobs)
  BY <1>1, <1>4
<1>. QED
  BY <1>4, <1>5

LEMMA WithoutIs ==
    ASSUME line \in Seq(Jobs), NEW jobs, NEW s \in Without(jobs)
    PROVE  s \in Seq(Jobs) /\ Range(s) \subseteq Range(line) \ jobs
<1>1. s \in InLine(Jobs \ jobs)
  BY DEF Without
<1>2. s \in Seq(Jobs) /\ Range(s) = Range(line) \cap (Jobs \ jobs)
  BY <1>1, InLineIs
<1>. QED
  BY <1>2

LEMMA JoinedIs ==
    ASSUME NEW kept \in Seq(Jobs), NEW jobs \in SUBSET Jobs, IsFiniteSet(jobs),
           NEW s \in Joined(kept, jobs)
    PROVE  s \in Seq(Jobs) /\ Range(s) \subseteq Range(kept) \cup jobs
<1>1. Range(kept) \subseteq Jobs /\ IsFiniteSet(Range(kept))
  BY RangeIs
<1>2. IsFiniteSet(Range(kept) \cup jobs)
  BY <1>1, FS_Union
<1>3. s \in SetToSeqs(Range(kept) \cup jobs)
  BY DEF Joined
<1>4. s \in Seq(Range(kept) \cup jobs) /\ Range(s) \subseteq Range(kept) \cup jobs
  BY <1>2, <1>3, Orders
<1>. QED
  BY <1>1, <1>4

(* What the scheduler reads are jobs that are due, enabled and unlocked.   *)
LEMMA ReadIs ==
    ASSUME TypeOK, NEW s \in Seq(Ready)
    PROVE  /\ Read(s) \in Seq(Items) /\ (Read(s) = <<>> <=> s = <<>>)
           /\ {e.job : e \in Range(Read(s))} = Range(s) /\ Range(s) \subseteq Ready
<1>1. DOMAIN s = 1..Len(s) /\ Len(s) \in Nat /\ \A i \in DOMAIN s : s[i] \in Ready
  BY LenProperties
<1>2. \A j \in Ready : j \in Jobs /\ row[j].once \in BOOLEAN
  <2>1. Range(line) \subseteq Jobs
    BY RangeIs DEF TypeOK
  <2>. QED
    BY <2>1 DEF TypeOK, Ready, Entries
<1>3. /\ DOMAIN Read(s) = 1..Len(s)
      /\ \A i \in 1..Len(s) : Read(s)[i] \in Items /\ Read(s)[i].job = s[i]
  BY <1>1, <1>2 DEF Read, Items
<1>4. Read(s) \in [1..Len(s) -> Items]
  BY <1>1, <1>3 DEF Read
<1>5. Read(s) \in Seq(Items) /\ Len(Read(s)) = Len(s)
  BY <1>1, <1>4
<1>6. Read(s) = <<>> <=> s = <<>>
  BY <1>5, EmptySeq, <1>1
<1>7. {e.job : e \in Range(Read(s))} = Range(s) /\ Range(s) \subseteq Ready
  BY <1>1, <1>3 DEF Range
<1>. QED
  BY <1>5, <1>6, <1>7

LEMMA EligibleIs ==
    ASSUME TypeOK, NEW jobs \in Eligible
    PROVE  /\ jobs \in Seq(Ready) /\ Range(jobs) = Ready /\ (jobs = <<>> <=> Ready = {})
           /\ \A n \in 1..Len(jobs) : SubSeq(jobs, 1, n) \in Seq(Ready) /\ SubSeq(jobs, 1, n) # <<>>
<1>1. Range(line) \cap Ready = Ready
  BY DEF Ready
<1>2. jobs \in Seq(Ready) /\ Range(jobs) = Ready
  BY <1>1, InLineIs DEF TypeOK, Eligible
<1>3. jobs = <<>> <=> Ready = {}
  BY <1>2, RangeIs
<1>4. ASSUME NEW n \in 1..Len(jobs)
      PROVE  SubSeq(jobs, 1, n) \in Seq(Ready) /\ SubSeq(jobs, 1, n) # <<>>
  <2>1. Len(jobs) \in Nat /\ \A i \in 1..n : jobs[i] \in Ready
    BY <1>2, LenProperties, ElementOfSeq
  <2>2. SubSeq(jobs, 1, n) \in Seq(Ready) /\ Len(SubSeq(jobs, 1, n)) = n
    BY <2>1, SubSeqProperties
  <2>. QED
    BY <2>1, <2>2, EmptySeq
<1>. QED
  BY <1>2, <1>3, <1>4
----------------------------------------------------------------------------
(* The types.                                                              *)
TableOK == /\ row \in Tables /\ line \in Seq(Jobs)
           /\ \A j \in Range(line) : Exists(j)

LEMMA EntriesAre ==
    /\ \A once \in BOOLEAN : Row(once) \in Entries
    /\ \A v \in BOOLEAN : [Row(TRUE) EXCEPT !.locked = v] \in Entries
    /\ \A e \in Entries, v \in BOOLEAN : /\ [e EXCEPT !.locked = v] \in Entries
                                        /\ [e EXCEPT !.enabled = v] \in Entries
                                        /\ e # NoJob
BY CronConstants DEF CronConstants, Entries, Row

(* What a start writes.                                                    *)
LEMMA SyncIs ==
    ASSUME TypeOK, row \in Tables, Sync
    PROVE  \E written \in SUBSET Declared :
              /\ \A j \in Jobs \ written : row'[j] = row[j]
              /\ \A j \in written : j \in Jobs /\ row'[j] \in Entries
              /\ row' \in Tables /\ line' \in Seq(Jobs)
              /\ Range(line') \subseteq Range(line) \cup written
              /\ done' = done \ written
<1>1. PICK written \in SUBSET Declared :
        LET fresh == {j \in written : ~Exists(j) \/ row[j].edited} IN
        /\ row' = [j \in Jobs |->
                     IF j \in written
                     THEN [Row(TRUE) EXCEPT !.locked = Exists(j) /\ row[j].locked]
                     ELSE row[j]]
        /\ \E kept \in Without(fresh) : line' \in Joined(kept, fresh \cap past)
        /\ done' = done \ written
  BY DEF Sync
<1>. DEFINE fresh == {j \in written : ~Exists(j) \/ row[j].edited}
<1>2. written \subseteq Jobs /\ line \in Seq(Jobs)
  BY CronConstants DEF CronConstants, TypeOK
<1>3. \A j \in Jobs : row[j] \in Entries \cup {NoJob}
  BY DEF Tables
<1>4. \A j \in written : (Exists(j) /\ row[j].locked) \in BOOLEAN
  OBVIOUS
<1>5. \A j \in written : row'[j] \in Entries
  BY <1>1, <1>2, <1>4, EntriesAre
<1>6. row' \in Tables
  BY <1>1, <1>3, <1>5 DEF Tables
<1>7. PICK kept \in Without(fresh) : line' \in Joined(kept, fresh \cap past)
  BY <1>1
<1>8. kept \in Seq(Jobs) /\ Range(kept) \subseteq Range(line)
  BY <1>2, WithoutIs
<1>9. fresh \cap past \in SUBSET Jobs /\ IsFiniteSet(fresh \cap past)
  BY <1>2, CronConstants, FS_Subset DEF CronConstants
<1>10. line' \in Seq(Jobs) /\ Range(line') \subseteq Range(line) \cup written
  BY <1>7, <1>8, <1>9, JoinedIs
<1>. QED
  BY <1>1, <1>2, <1>5, <1>6, <1>10

(* What an edit writes.                                                    *)
LEMMA WriteIs ==
    ASSUME TypeOK, row \in Tables, WriteUpdate
    PROVE  /\ edit.job \in Jobs
           /\ row' \in Tables /\ line' \in Seq(Jobs)
           /\ \A j \in Jobs : j # edit.job \/ ~Exists(j) => row'[j] = row[j]
           /\ Exists(edit.job) => row'[edit.job] \in Entries
                                    /\ row'[edit.job].locked = row[edit.job].locked
           /\ Range(line') \subseteq Range(line) \cup IF Exists(edit.job) THEN {edit.job} ELSE {}
           /\ Exists(edit.job) /\ edit.job \in done' \cup late' =>
                  /\ row'[edit.job].enabled => row[edit.job].enabled
                  /\ edit.job \in Range(line') => IsDue(edit.job)
<1>. DEFINE i == edit.job
            o == CASE edit.patch = "once" -> TRUE
                   [] edit.patch = "recurring" -> FALSE
                   [] OTHER -> edit.once
            d == edit.edited \/ (edit.patch \in Schedules /\ i \in Declared)
            v == IF edit.patch = "pause" THEN FALSE ELSE edit.enabled \/ edit.patch = "resume"
<1>1. i \in Jobs /\ o \in BOOLEAN /\ d \in BOOLEAN /\ v \in BOOLEAN /\ line \in Seq(Jobs)
  BY DEF WriteUpdate, TypeOK
<1>2. CASE ~Exists(i)
  BY <1>1, <1>2 DEF WriteUpdate
<1>3. CASE Exists(i)
  <2>1. /\ row' = [row EXCEPT ![i].once = o, ![i].edited = d, ![i].enabled = v]
        /\ WriteNextRun
    BY <1>3 DEF WriteUpdate
  <2>2. i \in done' \cup late' =>
            /\ row'[i].enabled => row[i].enabled
            /\ i \in Range(line') => IsDue(i)
    BY <1>3 DEF WriteUpdate
  <2>3. line' \in Seq(Jobs) /\ Range(line') \subseteq Range(line) \cup {i}
    <3>1. CASE line' \in Without({i}) \/ line' = line
      BY <1>1, <3>1, WithoutIs
    <3>2. CASE \E kept \in Without({i}) : line' \in Joined(kept, {i})
      <4>1. PICK kept \in Without({i}) : line' \in Joined(kept, {i})
        BY <3>2
      <4>2. kept \in Seq(Jobs) /\ Range(kept) \subseteq Range(line) /\ IsFiniteSet({i})
        BY <1>1, WithoutIs, FS_Singleton
      <4>. QED
        BY <1>1, <4>1, <4>2, JoinedIs
    <3>. QED
      BY <2>1, <3>1, <3>2 DEF WriteNextRun
  <2>. HIDE DEF i, o, d, v
  <2>4. row[i] \in Entries
    BY <1>1, <1>3 DEF Tables, Exists
  <2>5. /\ row'[i] = [row[i] EXCEPT !.once = o, !.edited = d, !.enabled = v]
        /\ \A j \in Jobs : j # i => row'[j] = row[j]
        /\ DOMAIN row' = Jobs
    BY <1>1, <2>1, <2>4 DEF Tables, Entries
  <2>6. row'[i] \in Entries /\ row'[i].locked = row[i].locked
    BY <1>1, <2>4, <2>5 DEF Entries
  <2>7. row' \in Tables
    BY <1>1, <2>1, <2>4, <2>6 DEF Tables, Entries
  <2>8. i = edit.job
    BY DEF i
  <2>. QED
    BY <1>1, <1>3, <2>2, <2>3, <2>5, <2>6, <2>7, <2>8
<1>. QED
  BY <1>2, <1>3

(* The scheduler's hands when it claims or skips.                          *)
LEMMA HeadIs ==
    ASSUME TypeOK, HandsFollowStage, sched \in {"claim", "skip"}
    PROVE  /\ picked # <<>> /\ Head(picked) \in Items /\ Head(picked).job \in Jobs
           /\ Tail(picked) \in Seq(Items)
           /\ Range(picked) = {Head(picked)} \cup Range(Tail(picked))
<1>1. picked # <<>> /\ picked \in Seq(Items)
  BY DEF HandsFollowStage, TypeOK
<1>2. Head(picked) \in Items /\ Tail(picked) \in Seq(Items)
  BY <1>1, HeadAndTail
<1>. QED
  BY <1>1, <1>2, TailIs DEF Items

LEMMA TableStep ==
    ASSUME IInv, [Next]_vars
    PROVE  TableOK'
<1>0. TableOK /\ TypeOK
  BY DEF IInv, TypeOK, TableOK
<1>1. ASSUME row' = row, line' \in Seq(Jobs), Range(line') \subseteq Range(line) PROVE TableOK'
  BY <1>0, <1>1 DEF TableOK, Exists
<1>2. ASSUME row' \in Tables, UNCHANGED line, \A j \in Jobs : Exists(j) => Exists(j)' PROVE TableOK'
  BY <1>0, <1>2, RangeIs DEF TableOK
<1>3. ASSUME NEW j \in Jobs, FallDue(j) PROVE TableOK'
  <2>1. row' = row /\ Exists(j) /\ line' = Append(line, j)
    BY <1>3 DEF FallDue
  <2>2. line' \in Seq(Jobs) /\ Range(line') = Range(line) \cup {j}
    BY <1>0, <2>1, Appended DEF TableOK
  <2>. QED
    BY <1>0, <2>1, <2>2 DEF TableOK, Exists
<1>4. ASSUME Sync PROVE TableOK'
  <2>1. PICK written \in SUBSET Declared :
              /\ \A j \in Jobs \ written : row'[j] = row[j]
              /\ \A j \in written : j \in Jobs /\ row'[j] \in Entries
              /\ row' \in Tables /\ line' \in Seq(Jobs)
              /\ Range(line') \subseteq Range(line) \cup written
    BY <1>0, <1>4, SyncIs DEF TableOK
  <2>2. Range(line) \subseteq Jobs
    BY <1>0, RangeIs DEF TableOK
  <2>3. \A j \in written : Exists(j)'
    BY <2>1, EntriesAre DEF Exists
  <2>4. \A j \in Range(line) : Exists(j)'
    BY <1>0, <2>1, <2>2, <2>3 DEF TableOK, Exists
  <2>. QED
    BY <2>1, <2>3, <2>4 DEF TableOK
<1>5. ASSUME row' = [j \in Jobs |-> IF Exists(j) THEN [row[j] EXCEPT !.locked = FALSE] ELSE NoJob],
             UNCHANGED line
      PROVE  TableOK'
  BY <1>0, <1>2, <1>5, CronConstants DEF CronConstants, TableOK, Tables, Entries, Exists
<1>7. ASSUME NEW j \in Jobs, Exists(j), NEW v \in BOOLEAN, UNCHANGED line,
             row' = [row EXCEPT ![j].locked = v] \/ row' = [row EXCEPT ![j].enabled = v]
      PROVE  TableOK'
  BY <1>0, <1>2, <1>7, CronConstants DEF CronConstants, TableOK, Tables, Entries, Exists
<1>8. ASSUME NEW j \in Jobs, Delete(j) PROVE TableOK'
  <2>1. line' \in Seq(Jobs) /\ Range(line') \subseteq Range(line) \ {j}
    BY <1>0, <1>8, WithoutIs DEF TableOK, Delete
  <2>. QED
    BY <1>0, <1>8, <2>1, RangeIs DEF Delete, TableOK, Tables, Entries, Exists
<1>9. ASSUME NEW j, Reschedule(j) PROVE TableOK'
  BY <1>0, <1>1, <1>9, WithoutIs DEF Reschedule, TableOK
<1>10. ASSUME NEW j \in Jobs, NEW once \in BOOLEAN, row' = [row EXCEPT ![j] = Row(once)], UNCHANGED line
       PROVE  TableOK'
  BY <1>0, <1>2, <1>10, EntriesAre DEF TableOK, Tables, Exists
<1>11. ASSUME WriteUpdate PROVE TableOK'
  <2>1. /\ row' \in Tables /\ line' \in Seq(Jobs)
        /\ \A j \in Jobs : j # edit.job \/ ~Exists(j) => row'[j] = row[j]
        /\ Exists(edit.job) => row'[edit.job] \in Entries
        /\ Range(line') \subseteq Range(line) \cup IF Exists(edit.job) THEN {edit.job} ELSE {}
        /\ edit.job \in Jobs
    BY <1>0, <1>11, WriteIs DEF TableOK
  <2>2. \A j \in Jobs : Exists(j) => Exists(j)'
    BY <2>1, EntriesAre DEF Exists
  <2>3. Range(line) \subseteq Jobs
    BY <1>0, RangeIs DEF TableOK
  <2>. QED
    BY <1>0, <2>1, <2>2, <2>3 DEF TableOK
<1>12. CASE ClearStaleLocks
  BY <1>1, <1>5, <1>0, <1>12 DEF ClearStaleLocks, TableOK
<1>13. CASE SkipMissed
  <2>1. Head(picked).job \in Jobs
    BY <1>0, <1>13, HeadIs DEF IInv, SkipMissed
  <2>. QED
    BY <1>0, <1>1, <1>7, <1>9, <1>13, <2>1 DEF SkipMissed, Disable, TableOK
<1>14. CASE ClaimJob
  <2>1. Head(picked).job \in Jobs
    BY <1>0, <1>14, HeadIs DEF IInv, ClaimJob
  <2>. QED
    BY <1>0, <1>1, <1>7, <1>14, <2>1 DEF ClaimJob, TableOK
<1>15. ASSUME NEW j \in Jobs, ReleaseJob(j), UNCHANGED line PROVE TableOK'
  BY <1>0, <1>1, <1>7, <1>15 DEF ReleaseJob, TableOK
<1>16. CASE SkipOrphan
  <2>1. Head(batch) \in Items
    BY <1>0, <1>16, HeadAndTail DEF TypeOK, SkipOrphan, CanBegin
  <2>. QED
    BY <1>15, <1>16, <2>1 DEF SkipOrphan, Items
<1>17. ASSUME NEW f \in flight, PersistJobResult(f) PROVE TableOK'
  <2>1. f.job \in Jobs
    BY <1>0, <1>17 DEF TypeOK
  <2>. QED
    BY <1>0, <1>1, <1>7, <1>8, <1>9, <1>17, <2>1 DEF PersistJobResult, Disable, TableOK
<1>18. ASSUME NEW f \in flight, Release(f) PROVE TableOK'
  BY <1>0, <1>15, <1>18 DEF Release, TypeOK
<1>19. ASSUME NEW j \in Jobs, AddJob(j) \/ RemoveJob(j) PROVE TableOK'
  BY <1>8, <1>10, <1>19 DEF AddJob, RemoveJob
<1>20. CASE UNCHANGED <<row, line>>
  BY <1>0, <1>1, <1>20 DEF TableOK
<1>. QED
  BY <1>3, <1>4, <1>11, <1>12, <1>13, <1>14, <1>16, <1>17, <1>18, <1>19, <1>20
     DEF Next, Scheduling, ReadOverdue, DueJobs, Begin, Execute, EndBatch, Crash, Restart,
         DeclaredTimeComes, ReadForUpdate, vars

Stages == {"down", "sync", "unlock", "start", "skip", "poll", "claim", "work"}
Flights == [job : Jobs, once : BOOLEAN, at : {"run", "ok", "failed", "recorded"}]
HandsOK == /\ picked \in Seq(Items) /\ batch \in Seq(Items)
           /\ flight \subseteq Flights /\ IsFiniteSet(flight)
           /\ Cardinality(flight) <= MaxConcurrent
           /\ HandsFollowStage

(* A job in flight moves on.                                               *)
LEMMA FlightMoves ==
    ASSUME HandsOK, NEW f \in flight, NEW g \in Flights
    PROVE  /\ (flight \ {f}) \cup {g} \subseteq Flights /\ IsFiniteSet((flight \ {f}) \cup {g})
           /\ Cardinality((flight \ {f}) \cup {g}) <= MaxConcurrent
           /\ IsFiniteSet(flight \ {f}) /\ Cardinality(flight \ {f}) <= MaxConcurrent
<1>1. /\ IsFiniteSet(flight \ {f}) /\ Cardinality(flight \ {f}) = Cardinality(flight) - 1
      /\ Cardinality(flight) \in Nat /\ Cardinality(flight \ {f}) \in Nat
  BY FS_RemoveElement, FS_CardinalityType DEF HandsOK
<1>2. /\ IsFiniteSet((flight \ {f}) \cup {g})
      /\ Cardinality((flight \ {f}) \cup {g}) \in
            {Cardinality(flight \ {f}), Cardinality(flight \ {f}) + 1}
  BY <1>1, FS_AddElement
<1>3. MaxConcurrent \in Nat /\ Cardinality(flight) <= MaxConcurrent /\ flight \subseteq Flights
  BY CronConstants DEF CronConstants, HandsOK
<1>. QED
  BY <1>1, <1>2, <1>3

LEMMA HandsStep ==
    ASSUME IInv, [Next]_vars
    PROVE  HandsOK' /\ sched' \in Stages
<1>0. /\ TypeOK /\ HandsOK /\ HandsFollowStage
      /\ sched \in Stages
      /\ picked \in Seq(Items) /\ batch \in Seq(Items)
  BY DEF IInv, TypeOK, HandsOK, Flights, Stages
<1>1. CASE UNCHANGED <<sched, picked, batch, flight>>
  BY <1>0, <1>1 DEF HandsOK, HandsFollowStage
<1>2. CASE Sync \/ ClearStaleLocks \/ EndBatch \/ Restart
  <2>1. /\ UNCHANGED <<picked, batch, flight>>
        /\ sched \notin {"claim", "skip", "work"} \/ (batch = <<>> /\ flight = {} /\ sched = "work")
        /\ sched' \in {"sync", "unlock", "start", "poll"}
    BY <1>2 DEF Sync, ClearStaleLocks, EndBatch, Restart, work
  <2>. QED
    BY <1>0, <2>1 DEF HandsOK, HandsFollowStage, Stages
<1>3. CASE ReadOverdue
  <2>1. sched = "start" /\ UNCHANGED <<batch, flight>>
    BY <1>3 DEF ReadOverdue
  <2>2. CASE UNCHANGED picked /\ sched' = "poll"
    BY <1>0, <2>1, <2>2 DEF HandsOK, HandsFollowStage, Stages
  <2>3. CASE /\ \E jobs \in Eligible : picked' = Read(jobs)
             /\ sched' = IF Ready = {} THEN "poll" ELSE IF catch_up THEN "claim" ELSE "skip"
    <3>1. picked' \in Seq(Items) /\ (picked' = <<>> <=> Ready = {})
      BY <1>0, <2>3, EligibleIs, ReadIs
    <3>. QED
      BY <1>0, <2>1, <2>3, <3>1 DEF HandsOK, HandsFollowStage, Stages
  <2>. QED
    BY <1>3, <2>2, <2>3 DEF ReadOverdue
<1>10. CASE SkipMissed
  <2>1. /\ sched = "skip" /\ UNCHANGED <<batch, flight>> /\ picked' = Tail(picked)
        /\ sched' = IF picked' = <<>> THEN "poll" ELSE sched
    BY <1>10 DEF SkipMissed
  <2>2. picked' \in Seq(Items)
    BY <1>0, <2>1, HeadIs
  <2>. QED
    BY <1>0, <2>1, <2>2 DEF HandsOK, HandsFollowStage, Stages
<1>4. CASE DueJobs
  <2>1. PICK jobs \in Eligible : \E n \in 1..Len(jobs) : picked' = Read(SubSeq(jobs, 1, n))
    BY <1>4 DEF DueJobs
  <2>2. sched = "poll" /\ sched' = "claim" /\ UNCHANGED <<batch, flight>>
    BY <1>4 DEF DueJobs
  <2>3. PICK n \in 1..Len(jobs) : picked' = Read(SubSeq(jobs, 1, n))
    BY <2>1
  <2>4. SubSeq(jobs, 1, n) \in Seq(Ready) /\ SubSeq(jobs, 1, n) # <<>>
    BY <1>0, EligibleIs
  <2>5. picked' \in Seq(Items) /\ picked' # <<>>
    BY <1>0, <2>3, <2>4, ReadIs
  <2>. QED
    BY <1>0, <2>2, <2>5 DEF HandsOK, HandsFollowStage, Stages
<1>5. CASE ClaimJob
  <2>1. picked # <<>> /\ flight = {} /\ flight' = flight
    BY <1>0, <1>5 DEF ClaimJob, HandsFollowStage
  <2>2. Head(picked) \in Items /\ picked' \in Seq(Items)
    BY <1>0, <1>5, <2>1, HeadAndTail DEF ClaimJob
  <2>3. batch' \in Seq(Items)
    <3>1. batch' = Append(batch, Head(picked)) \/ batch' = batch
      BY <1>5 DEF ClaimJob
    <3>2. Append(batch, Head(picked)) \in Seq(Items)
      BY <1>0, <2>2, Appended
    <3>. QED
      BY <1>0, <3>1, <3>2
  <2>4. sched = "claim" /\ sched' = IF picked' = <<>> THEN "work" ELSE sched
    BY <1>5 DEF ClaimJob
  <2>. QED
    BY <1>0, <2>1, <2>2, <2>3, <2>4 DEF HandsOK, HandsFollowStage, Stages
<1>6. CASE SkipOrphan
  <2>1. /\ batch # <<>> /\ sched = "work" /\ batch' = Tail(batch)
        /\ UNCHANGED <<sched, picked, flight>>
    BY <1>6 DEF SkipOrphan, CanBegin
  <2>2. batch' \in Seq(Items)
    BY <1>0, <2>1, HeadAndTail
  <2>. QED
    BY <1>0, <2>1, <2>2 DEF HandsOK, HandsFollowStage
<1>7. CASE Begin
  <2>. DEFINE g == [job |-> Head(batch).job, once |-> Head(batch).once, at |-> "run"]
  <2>1. /\ batch # <<>> /\ sched = "work" /\ batch' = Tail(batch)
        /\ UNCHANGED <<sched, picked>> /\ flight' = flight \cup {g}
        /\ Cardinality(flight) < MaxConcurrent
    BY <1>7 DEF Begin, CanBegin
  <2>2. batch' \in Seq(Items) /\ Head(batch) \in Items
    BY <1>0, <2>1, HeadAndTail
  <2>3. g \in Flights
    BY <2>2 DEF Flights, Items
  <2>. HIDE DEF g
  <2>4. /\ IsFiniteSet(flight) /\ Cardinality(flight) \in Nat /\ MaxConcurrent \in Nat
    BY <1>0, FS_CardinalityType, CronConstants DEF CronConstants, HandsOK
  <2>5. IsFiniteSet(flight') /\ Cardinality(flight') <= Cardinality(flight) + 1
        /\ Cardinality(flight') \in Nat
    <3>1. /\ IsFiniteSet(flight \cup {g})
          /\ Cardinality(flight \cup {g}) \in {Cardinality(flight), Cardinality(flight) + 1}
      BY <2>4, FS_AddElement
    <3>. QED
      BY <2>1, <2>4, <3>1
  <2>6. HandsFollowStage'
    BY <1>0, <2>1 DEF HandsFollowStage
  <2>. QED
    BY <1>0, <2>1, <2>2, <2>3, <2>4, <2>5, <2>6 DEF HandsOK
<1>8. ASSUME NEW f \in flight, Execute(f) \/ PersistJobResult(f) \/ Release(f)
      PROVE  HandsOK' /\ sched' \in Stages
  <2>1. f \in Flights /\ UNCHANGED <<sched, picked, batch>>
    BY <1>0, <1>8 DEF Execute, PersistJobResult, Release, HandsOK
  <2>2. PICK at \in {"ok", "failed", "recorded"} :
           flight' = (flight \ {f}) \cup {[f EXCEPT !.at = at]} \/ flight' = flight \ {f}
    BY <1>8 DEF Execute, PersistJobResult, Release
  <2>3. [f EXCEPT !.at = at] \in Flights
    BY <2>1 DEF Flights
  <2>4. /\ flight' \subseteq Flights /\ IsFiniteSet(flight')
        /\ Cardinality(flight') <= MaxConcurrent
    BY <1>0, <2>2, <2>3, FlightMoves DEF HandsOK
  <2>5. sched = "work"
    BY <1>0 DEF HandsFollowStage
  <2>. QED
    BY <1>0, <2>1, <2>4, <2>5 DEF HandsOK, HandsFollowStage
<1>9. CASE Crash
  <2>1. Cardinality({}) = 0 /\ IsFiniteSet({}) /\ MaxConcurrent \in Nat
    BY FS_EmptySet, CronConstants DEF CronConstants
  <2>. QED
    BY <1>9, <2>1 DEF Crash, HandsOK, HandsFollowStage, Stages
<1>. QED
  BY <1>1, <1>2, <1>3, <1>4, <1>5, <1>6, <1>7, <1>8, <1>9, <1>10
     DEF Next, Scheduling, FallDue, DeclaredTimeComes, AddJob, RemoveJob, ReadForUpdate, WriteUpdate, work, vars

Edits == [job : Jobs, patch : Patches, once : BOOLEAN, edited : BOOLEAN,
          enabled : BOOLEAN, next : {"row", "past", "future"}]

LEMMA MovedIs ==
    ASSUME TypeOK, NEW jobs
    PROVE  Moved(jobs) = NoJob \/ Moved(jobs) \in Edits
BY DEF TypeOK, Moved, Edits

LEMMA TypeStep ==
    ASSUME IInv, [Next]_vars
    PROVE  TypeOK' /\ row' \in Tables /\ IsFiniteSet(flight') /\ HandsFollowStage'
<1>0. TypeOK
  BY DEF IInv
<1>1. TableOK' /\ HandsOK' /\ sched' \in Stages
  BY TableStep, HandsStep
<1>2. catch_up' \in BOOLEAN /\ past' \subseteq Declared
  BY <1>0 DEF TypeOK, Next, Scheduling, FallDue, DeclaredTimeComes, Sync, ClearStaleLocks, ReadOverdue, SkipMissed,
              DueJobs, ClaimJob, SkipOrphan, Begin, Execute, PersistJobResult, Release, EndBatch,
              Crash, Restart, AddJob, RemoveJob, ReadForUpdate, WriteUpdate, vars
<1>3. \A what : Fault(what) => budget' \in [faults : 0..MaxFaults, edits : 0..MaxEdits]
  BY <1>0, CronConstants DEF TypeOK, Fault, CronConstants
<1>4. Spend => budget' \in [faults : 0..MaxFaults, edits : 0..MaxEdits]
  <2>1. MaxEdits \in Nat /\ budget \in [faults : 0..MaxFaults, edits : 0..MaxEdits]
    BY <1>0, CronConstants DEF TypeOK, CronConstants
  <2>. QED
    BY <2>1 DEF Spend
<1>5. budget' \in [faults : 0..MaxFaults, edits : 0..MaxEdits]
  BY <1>0, <1>3, <1>4
     DEF TypeOK, Next, Scheduling, FallDue, DeclaredTimeComes, Sync, ClearStaleLocks, ReadOverdue, SkipMissed,
         DueJobs, ClaimJob, SkipOrphan, Begin, Execute, PersistJobResult, Release, ReleaseJob,
         EndBatch, Crash, Restart, AddJob, RemoveJob, ReadForUpdate, WriteUpdate, vars, NoFault
<1>6. edit' = NoJob \/ edit' \in Edits
  <2>1. ASSUME NEW j \in Jobs, NEW patch \in Patches, ReadForUpdate(j, patch)
        PROVE  edit' \in Edits
    <3>1. row[j] \in Entries
      BY <1>0, <2>1 DEF ReadForUpdate, TypeOK
    <3>. QED
      BY <2>1, <3>1 DEF ReadForUpdate, Entries, Edits
  <2>2. CASE UNCHANGED edit
    BY <1>0, <2>2 DEF TypeOK, Edits
  <2>3. CASE WriteUpdate
    BY <2>3 DEF WriteUpdate
  <2>4. ASSUME NEW jobs, edit' = Moved(jobs) PROVE edit' = NoJob \/ edit' \in Edits
    BY <1>0, <2>4, MovedIs
  <2>5. CASE Sync
    BY <2>4, <2>5 DEF Sync
  <2>6. CASE SkipMissed
    BY <2>2, <2>4, <2>6 DEF SkipMissed, Disable, Reschedule
  <2>7. ASSUME NEW f \in flight, PersistJobResult(f) PROVE edit' = NoJob \/ edit' \in Edits
    BY <2>2, <2>4, <2>7 DEF PersistJobResult, Disable, Reschedule, Delete
  <2>8. ASSUME NEW j \in Jobs, RemoveJob(j) PROVE edit' = NoJob \/ edit' \in Edits
    BY <2>4, <2>8 DEF RemoveJob, Delete
  <2>. QED
    BY <2>1, <2>2, <2>3, <2>5, <2>6, <2>7, <2>8
       DEF Next, Scheduling, FallDue, DeclaredTimeComes, ClearStaleLocks, ReadOverdue, DueJobs,
           ClaimJob, SkipOrphan, Begin, Execute, Release, EndBatch, Crash, Restart, AddJob, vars
<1>7. done' \cup late' \cup leaked' \subseteq Jobs
  <2>1. /\ done \cup late \cup leaked \subseteq Jobs
        /\ Range(line) \subseteq Jobs
        /\ \A f \in flight : f.job \in Jobs
    BY <1>0, RangeIs DEF TypeOK
  <2>2. ASSUME NEW j \in Jobs, ReleaseJob(j) PROVE leaked' \subseteq leaked \cup {j}
    BY <2>2 DEF ReleaseJob
  <2>3. CASE SkipOrphan
    <3>1. batch # <<>> /\ batch \in Seq(Items)
      BY <1>0, <2>3 DEF TypeOK, SkipOrphan, CanBegin
    <3>2. Head(batch) \in Items
      BY <3>1, HeadAndTail
    <3>3. Head(batch).job \in Jobs
      BY <3>2 DEF Items
    <3>. QED
      BY <2>1, <2>2, <2>3, <3>3 DEF SkipOrphan
  <2>4. ASSUME NEW f \in flight, Execute(f) \/ PersistJobResult(f) \/ Release(f)
        PROVE  done' \cup late' \cup leaked' \subseteq Jobs
    BY <2>1, <2>2, <2>4 DEF Execute, PersistJobResult, Release
  <2>5. CASE SkipMissed \/ ReadOverdue \/ WriteUpdate
    BY <2>1, <2>5 DEF SkipMissed, ReadOverdue, WriteUpdate
  <2>6. CASE Sync \/ ClearStaleLocks \/ Crash
    BY <2>1, <2>6 DEF Sync, ClearStaleLocks, Crash
  <2>7. ASSUME NEW j \in Jobs, FallDue(j) \/ AddJob(j)
        PROVE  done' \cup late' \cup leaked' \subseteq Jobs
    BY <2>1, <2>7 DEF FallDue, AddJob
  <2>8. CASE UNCHANGED ghosts
    BY <2>1, <2>8 DEF ghosts
  <2>. QED
    BY <2>3, <2>4, <2>5, <2>6, <2>7, <2>8
       DEF Next, Scheduling, DeclaredTimeComes, DueJobs, ClaimJob, Begin, EndBatch, Restart,
           RemoveJob, ReadForUpdate, vars, ghosts
<1>8. \A j \in Jobs : Exists(j)' => row'[j] \in Entries
  BY <1>1 DEF TableOK, Tables, Exists
<1>. QED
  BY <1>1, <1>2, <1>5, <1>6, <1>7, <1>8 
     DEF TypeOK, TableOK, HandsOK, Flights, Edits, Stages
----------------------------------------------------------------------------
(* Claims and locks.                                                       *)
Holds == ClaimedOnce /\ ClaimedAreLocked

(* What claims have of a shorter batch.                                    *)
LEMMA NextInBatch ==
    ASSUME TypeOK, Holds, batch # <<>>
    PROVE  /\ InBatch = {Head(batch).job} \cup {e.job : e \in Range(Tail(batch))}
           /\ Head(batch).job \notin {e.job : e \in Range(Tail(batch))}
           /\ \A i, k \in DOMAIN Tail(batch) : Tail(batch)[i].job = Tail(batch)[k].job => i = k
<1>1. batch \in Seq(Items)
  BY DEF TypeOK
<1>2. /\ Range(batch) = {Head(batch)} \cup Range(Tail(batch))
      /\ \A e \in Range(Tail(batch)) : \E i \in DOMAIN batch : i # 1 /\ batch[i] = e
      /\ Head(batch) = batch[1] /\ 1 \in DOMAIN batch
      /\ \A i \in DOMAIN Tail(batch) : i + 1 \in DOMAIN batch /\ Tail(batch)[i] = batch[i + 1]
                                          /\ i \in Nat \ {0}
  BY <1>1, TailIs, HeadAndTail
<1>3. \A i, k \in DOMAIN batch : batch[i].job = batch[k].job => i = k
  BY DEF Holds, ClaimedOnce
<1>4. Head(batch).job \notin {e.job : e \in Range(Tail(batch))}
  BY <1>2, <1>3
<1>5. \A i, k \in DOMAIN Tail(batch) : Tail(batch)[i].job = Tail(batch)[k].job => i = k
  BY <1>2, <1>3
<1>. QED
  BY <1>2, <1>4, <1>5 DEF InBatch

LEMMA LocksStep ==
    ASSUME IInv, [Next]_vars
    PROVE  ClaimedOnce' /\ ClaimedAreLocked'
<1>0. /\ TypeOK /\ Holds /\ row \in Tables /\ HandsFollowStage
      /\ Claimed \subseteq Jobs /\ \A f \in flight : f.job \in Claimed /\ f.job \in Jobs
  <2>1. Range(batch) \subseteq Items
    BY RangeIs DEF IInv, TypeOK
  <2>. QED
    BY <2>1 DEF IInv, Holds, Claimed, InBatch, InFlight, TypeOK, Items
<1>. SUFFICES Holds'
  BY DEF Holds
<1>. DEFINE Kept(jobs) == \A j \in jobs : Exists(j)' => Exists(j) /\ row'[j].locked = row[j].locked
<1>1. ASSUME UNCHANGED <<batch, flight>>, Kept(Claimed) PROVE Holds'
  BY <1>0, <1>1 DEF Holds, ClaimedOnce, ClaimedAreLocked, Claimed, InBatch, InFlight
<1>2. ASSUME batch' = <<>>, flight' = {} PROVE Holds'
  BY <1>2 DEF Holds, ClaimedOnce, ClaimedAreLocked, Claimed, InBatch, InFlight, Range
<1>3. ASSUME NEW f \in flight, NEW g, g.job = f.job, flight' = (flight \ {f}) \cup {g},
             UNCHANGED batch, Kept(Claimed)
      PROVE  Holds'
  <2>1. InFlight' = InFlight /\ InBatch' = InBatch
    BY <1>3 DEF InFlight, InBatch
  <2>2. \A a, b \in flight' : a.job = b.job => a = b
    BY <1>0, <1>3 DEF Holds, ClaimedOnce
  <2>. QED
    BY <1>0, <1>3, <2>1, <2>2 DEF Holds, ClaimedOnce, ClaimedAreLocked, Claimed
<1>4. ASSUME NEW f \in flight, flight' = flight \ {f}, UNCHANGED batch, Kept(Claimed \ {f.job})
      PROVE  Holds'
  <2>1. InFlight' = InFlight \ {f.job} /\ InBatch' = InBatch /\ f.job \notin InBatch
    BY <1>0, <1>4 DEF InFlight, InBatch, Holds, ClaimedOnce
  <2>2. \A a, b \in flight' : a.job = b.job => a = b
    BY <1>0, <1>4 DEF Holds, ClaimedOnce
  <2>. QED
    BY <1>0, <1>4, <2>1, <2>2 DEF Holds, ClaimedOnce, ClaimedAreLocked, Claimed
<1>5. ASSUME NEW j \in Jobs, UNCHANGED <<batch, flight>>, row' = [row EXCEPT ![j] = NoJob]
      PROVE  Holds'
  BY <1>0, <1>1, <1>5 DEF Exists, Tables
<1>6. ASSUME NEW j \in Jobs, Exists(j), NEW v, row' = [row EXCEPT ![j].enabled = v]
      PROVE  Kept(Jobs)
  BY <1>0, <1>6 DEF Exists, Tables, Entries
<1>7. ASSUME NEW j \in Jobs, row' = row \/ row' = [row EXCEPT ![j].locked = FALSE]
      PROVE  Kept(Jobs \ {j})
  BY <1>0, <1>7 DEF Exists, Tables, Entries
<1>8. CASE Sync \/ ClearStaleLocks \/ SkipMissed
  BY <1>0, <1>2, <1>8 DEF Sync, ClearStaleLocks, SkipMissed, HandsFollowStage, work
<1>9. CASE ClaimJob
  <2>. DEFINE e == Head(picked)
  <2>1. flight = {} /\ flight' = {} /\ e \in Items
    BY <1>0, <1>9, HeadAndTail DEF ClaimJob, HandsFollowStage, TypeOK
  <2>2. CASE UNCHANGED <<row, batch>>
    BY <1>1, <2>1, <2>2 DEF Exists
  <2>3. CASE /\ Exists(e.job) /\ ~row[e.job].locked /\ row' = [row EXCEPT ![e.job].locked = TRUE]
             /\ batch' = Append(batch, e)
    <3>. HIDE DEF e
    <3>1. batch \in Seq(Items) /\ e.job \in Jobs
      BY <1>0, <2>1 DEF TypeOK, Items
    <3>2. e.job \notin Claimed
      BY <1>0, <2>3 DEF Holds, ClaimedAreLocked
    <3>3. /\ Range(batch') = Range(batch) \cup {e}
          /\ Len(batch) \in Nat /\ DOMAIN batch = 1..Len(batch)
          /\ DOMAIN batch' = 1..(Len(batch) + 1) /\ batch'[Len(batch) + 1] = e
          /\ \A i \in 1..Len(batch) : batch'[i] = batch[i]
      BY <2>1, <2>3, <3>1, Appended, AppendProperties, LenProperties
    <3>4. \A i \in 1..Len(batch) : batch[i].job # e.job
      BY <3>2, <3>3 DEF Claimed, InBatch, Range
    <3>5. \A i, k \in DOMAIN batch' : batch'[i].job = batch'[k].job => i = k
      BY <1>0, <3>3, <3>4 DEF Holds, ClaimedOnce
    <3>6. InBatch' = InBatch \cup {e.job} /\ InFlight' = {} /\ InFlight = {}
      BY <2>1, <3>3 DEF InBatch, InFlight
    <3>7. ClaimedAreLocked'
      BY <1>0, <2>3, <3>1, <3>6 DEF Holds, ClaimedAreLocked, Claimed, Exists, Tables, Entries
    <3>. QED
      BY <2>1, <3>5, <3>6, <3>7 DEF Holds, ClaimedOnce
  <2>. QED
    BY <1>9, <2>2, <2>3 DEF ClaimJob
<1>10. CASE SkipOrphan
  <2>1. /\ batch # <<>> /\ batch' = Tail(batch) /\ ReleaseJob(Head(batch).job)
        /\ UNCHANGED flight
    BY <1>10 DEF SkipOrphan, CanBegin
  <2>2. /\ InBatch = {Head(batch).job} \cup InBatch' /\ Head(batch).job \notin InBatch'
        /\ \A i, k \in DOMAIN batch' : batch'[i].job = batch'[k].job => i = k
    BY <1>0, <2>1, NextInBatch DEF InBatch
  <2>3. Head(batch).job \in Jobs /\ Head(batch).job \notin InFlight /\ InFlight' = InFlight
    BY <1>0, <2>1, <2>2 DEF Holds, ClaimedOnce, InFlight, Claimed
  <2>4. Kept(Jobs \ {Head(batch).job})
    BY <1>7, <2>1, <2>3 DEF ReleaseJob
  <2>. QED
    BY <1>0, <2>1, <2>2, <2>3, <2>4 DEF Holds, ClaimedOnce, ClaimedAreLocked, Claimed
<1>11. CASE Begin
  <2>. DEFINE g == [job |-> Head(batch).job, once |-> Head(batch).once, at |-> "run"]
  <2>1. batch # <<>> /\ batch' = Tail(batch) /\ UNCHANGED row /\ flight' = flight \cup {g}
    BY <1>11 DEF Begin, CanBegin
  <2>2. /\ InBatch = {g.job} \cup InBatch' /\ g.job \notin InBatch'
        /\ \A i, k \in DOMAIN batch' : batch'[i].job = batch'[k].job => i = k
    BY <1>0, <2>1, NextInBatch DEF InBatch
  <2>. HIDE DEF g
  <2>3. InFlight' = InFlight \cup {g.job} /\ g.job \notin InFlight
    BY <1>0, <2>1, <2>2 DEF Holds, ClaimedOnce, InFlight
  <2>4. \A a, b \in flight' : a.job = b.job => a = b
    BY <1>0, <2>1, <2>3 DEF Holds, ClaimedOnce, InFlight
  <2>. QED
    BY <1>0, <2>1, <2>2, <2>3, <2>4 DEF Holds, ClaimedOnce, ClaimedAreLocked, Claimed, Exists
<1>12. ASSUME NEW f \in flight, Execute(f) PROVE Holds'
  <2>1. PICK at \in {"ok", "failed"} : flight' = (flight \ {f}) \cup {[f EXCEPT !.at = at]}
    BY <1>12 DEF Execute
  <2>2. [f EXCEPT !.at = at].job = f.job
    BY <1>0 DEF TypeOK
  <2>. QED
    BY <1>3, <1>12, <2>1, <2>2 DEF Execute, Exists
<1>13. ASSUME NEW f \in flight, PersistJobResult(f) PROVE Holds'
  <2>1. flight' = (flight \ {f}) \cup {[f EXCEPT !.at = "recorded"]} /\ UNCHANGED batch
    BY <1>13 DEF PersistJobResult
  <2>2. [f EXCEPT !.at = "recorded"].job = f.job
    BY <1>0 DEF TypeOK
  <2>3. row' = row => Kept(Jobs)
    BY DEF Exists
  <2>4. row' = [row EXCEPT ![f.job] = NoJob] => Kept(Jobs)
    BY <1>0 DEF Exists, Tables
  <2>5. Kept(Jobs)
    BY <1>0, <1>6, <1>13, <2>3, <2>4 DEF PersistJobResult, Disable, Reschedule, Delete
  <2>. QED
    BY <1>0, <1>3, <2>1, <2>2, <2>5
<1>14. ASSUME NEW f \in flight, Release(f) PROVE Holds'
  <2>1. Kept(Jobs \ {f.job}) /\ flight' = flight \ {f} /\ UNCHANGED batch
    BY <1>0, <1>7, <1>14 DEF Release, ReleaseJob
  <2>. QED
    BY <1>0, <1>4, <2>1
<1>15. CASE Crash
  BY <1>2, <1>15 DEF Crash
<1>16. ASSUME NEW j \in Jobs, AddJob(j) PROVE Holds'
  <2>1. j \notin Claimed /\ UNCHANGED <<batch, flight>>
    BY <1>16 DEF AddJob, InUse, Claimed, InBatch, InFlight, work
  <2>2. \A i \in Jobs \ {j} : row'[i] = row[i]
    BY <1>0, <1>16 DEF AddJob, Tables
  <2>. QED
    BY <1>0, <1>1, <2>1, <2>2 DEF Exists
<1>17. ASSUME NEW j \in Jobs, RemoveJob(j) PROVE Holds'
  BY <1>5, <1>17 DEF RemoveJob, Delete, work
<1>18. CASE WriteUpdate
  <2>1. Kept(Jobs)
    BY <1>0, <1>18, WriteIs DEF Exists
  <2>. QED
    BY <1>0, <1>1, <1>18, <2>1 DEF WriteUpdate, work
<1>19. CASE UNCHANGED <<row, batch, flight>>
  BY <1>1, <1>19 DEF Exists
<1>. QED
  BY <1>8, <1>9, <1>10, <1>11, <1>12, <1>13, <1>14, <1>15, <1>16, <1>17, <1>18, <1>19
     DEF Next, Scheduling, FallDue, DeclaredTimeComes, ReadOverdue, DueJobs, EndBatch, Restart,
         ReadForUpdate, work, vars
----------------------------------------------------------------------------
(* What is over, and what is about to run.                                 *)

(* A result that was written leaves its job spent.                         *)
LEMMA ResultSpends ==
    ASSUME IInv, NEW f \in flight, PersistJobResult(f), f.job \in done'
    PROVE  f.job \in Jobs /\ Spent(f.job)'
<1>0. TypeOK /\ row \in Tables /\ f.job \in Jobs /\ line \in Seq(Jobs)
  BY DEF IInv, TypeOK
<1>1. Exists(f.job) /\ (Reschedule(f.job) \/ Disable(f.job) \/ Delete(f.job))
  BY DEF PersistJobResult
<1>2. CASE Reschedule(f.job)
  BY <1>0, <1>2, WithoutIs DEF Reschedule, Spent, IsDue
<1>3. CASE Disable(f.job)
  BY <1>0, <1>1, <1>3 DEF Disable, Spent, IsDue, Exists, Tables, Entries
<1>4. CASE Delete(f.job)
  BY <1>0, <1>4, WithoutIs DEF Delete, Spent, IsDue, Exists, Tables
<1>. QED
  BY <1>0, <1>1, <1>2, <1>3, <1>4

(* A spent job stays spent until a new occurrence of it begins.            *)
LEMMA SpentStays ==
    ASSUME IInv, [Next]_vars, NEW j \in Jobs, Spent(j),
           j \in done' \/ (j \in late' /\ sched # "sync")
    PROVE  Spent(j)'
<1>0. TypeOK /\ row \in Tables /\ line \in Seq(Jobs)
  BY DEF IInv, TypeOK
<1>1. ASSUME row'[j] = row[j] \/ row'[j] = NoJob, IsDue(j)' => IsDue(j) PROVE Spent(j)'
  BY <1>1 DEF Spent, Exists
<1>2. ASSUME NEW i \in Jobs, row' = row \/ row' = [row EXCEPT ![i] = NoJob],
             line' = line \/ (\E S : line' \in Without(S))
      PROVE  Spent(j)'
  <2>1. IsDue(j)' => IsDue(j)
    BY <1>0, <1>2, WithoutIs DEF IsDue
  <2>2. row'[j] = row[j] \/ row'[j] = NoJob
    BY <1>0, <1>2 DEF Tables
  <2>. QED
    BY <1>1, <2>1, <2>2
<1>3. ASSUME Exists(j)' => Exists(j) /\ (row'[j].enabled => row[j].enabled), IsDue(j)' => IsDue(j)
      PROVE  Spent(j)'
  BY <1>3 DEF Spent
<1>4. ASSUME NEW i \in Jobs, row' = row \/ (Exists(i) /\ \E v : row' = [row EXCEPT ![i].locked = v]),
             UNCHANGED line
      PROVE  Spent(j)'
  BY <1>0, <1>3, <1>4 DEF Exists, IsDue, Tables, Entries
<1>5. ASSUME NEW i \in Jobs, FallDue(i) PROVE Spent(j)'
  <2>1. i # j /\ row' = row /\ line' = Append(line, i)
    BY <1>5 DEF FallDue
  <2>2. Range(Append(line, i)) = Range(line) \cup {i}
    BY <1>0, Appended
  <2>. QED
    BY <1>1, <2>1, <2>2 DEF IsDue
<1>6. CASE Sync
  <2>1. j \in done'
    BY <1>6 DEF Sync
  <2>. QED
    BY <1>0, <1>1, <1>6, <2>1, SyncIs DEF IsDue
<1>7. CASE ClearStaleLocks
  BY <1>0, <1>3, <1>7 DEF ClearStaleLocks, Exists, IsDue, Tables, Entries
<1>17. ASSUME NEW i \in Jobs, Exists(i), Disable(i) PROVE Spent(j)'
  <2>1. row'[j] = row[j] \/ (Exists(j) /\ ~row'[j].enabled)
    BY <1>0, <1>17 DEF Disable, Tables, Exists, Entries
  <2>. QED
    BY <1>3, <1>17, <2>1 DEF Disable, Exists, IsDue
<1>8. CASE SkipMissed
  <2>1. Head(picked).job \in Jobs
    BY <1>0, <1>8, HeadIs DEF IInv, SkipMissed
  <2>. QED
    BY <1>2, <1>8, <1>17, <2>1 DEF SkipMissed, Reschedule
<1>9. CASE ClaimJob
  <2>1. Head(picked).job \in Jobs
    BY <1>0, <1>9, HeadIs DEF IInv, ClaimJob
  <2>. QED
    BY <1>4, <1>9, <2>1 DEF ClaimJob
<1>10. CASE SkipOrphan
  <2>1. batch # <<>> /\ batch \in Seq(Items)
    BY <1>0, <1>10 DEF SkipOrphan, CanBegin, TypeOK
  <2>2. Head(batch) \in Items
    BY <2>1, HeadAndTail
  <2>3. Head(batch).job \in Jobs
    BY <2>2 DEF Items
  <2>. QED
    BY <1>4, <1>10, <2>3 DEF SkipOrphan, ReleaseJob
<1>11. ASSUME NEW f \in flight, PersistJobResult(f) PROVE Spent(j)'
  <2>1. f.job \in Jobs
    BY <1>0 DEF TypeOK
  <2>. QED
    BY <1>2, <1>11, <1>17, <2>1 DEF PersistJobResult, Reschedule, Delete
<1>12. ASSUME NEW f \in flight, Release(f) PROVE Spent(j)'
  BY <1>0, <1>4, <1>12 DEF Release, ReleaseJob, TypeOK
<1>13. ASSUME NEW i \in Jobs, AddJob(i) PROVE Spent(j)'
  <2>1. i # j /\ row'[j] = row[j] /\ UNCHANGED line
    BY <1>0, <1>13 DEF AddJob, Tables
  <2>. QED
    BY <1>1, <2>1 DEF IsDue
<1>14. ASSUME NEW i \in Jobs, RemoveJob(i) PROVE Spent(j)'
  BY <1>2, <1>14 DEF RemoveJob, Delete
<1>15. CASE WriteUpdate
  <2>1. CASE j = edit.job /\ Exists(j)
    <3>1. j \in done' \cup late'
      OBVIOUS
    <3>2. (row'[j].enabled => row[j].enabled) /\ (IsDue(j)' => IsDue(j))
      BY <1>0, <1>15, <2>1, <3>1, WriteIs DEF IsDue
    <3>. QED
      BY <1>3, <2>1, <3>2
  <2>2. CASE j # edit.job \/ ~Exists(j)
    <3>1. row'[j] = row[j]
      BY <1>0, <1>15, <2>2, WriteIs
    <3>2. Exists(j) => (IsDue(j)' => IsDue(j))
      BY <1>0, <1>15, <2>2, WriteIs DEF IsDue
    <3>. QED
      BY <3>1, <3>2 DEF Spent, Exists
  <2>. QED
    BY <2>1, <2>2
<1>16. CASE UNCHANGED <<row, line>>
  BY <1>1, <1>16 DEF IsDue
<1>. QED
  BY <1>5, <1>6, <1>7, <1>8, <1>9, <1>10, <1>11, <1>12, <1>13, <1>14, <1>15, <1>16
     DEF Next, Scheduling, ReadOverdue, DueJobs, Begin, Execute, EndBatch, Crash, Restart,
         DeclaredTimeComes, ReadForUpdate, vars

(* Whoever is about to run was so before, or has just been read as due; a  *)
(* job that begins to run is one of the former.                            *)
LEMMA AheadStep ==
    ASSUME IInv, [Next]_vars
    PROVE  /\ \/ Ahead' \subseteq Ahead
              \/ /\ ReadOverdue \/ DueJobs
                 /\ Ahead' \subseteq Ready /\ flight = {} /\ UNCHANGED <<batch, flight>>
           /\ \A f \in flight : Execute(f) => f.job \notin Ahead'
           /\ \A f \in flight' \ flight : f.at = "run" => f.job \in Ahead /\ UNCHANGED ghosts
<1>0. TypeOK /\ HandsFollowStage /\ ClaimedOnce
  BY DEF IInv
<1>1. ASSUME NEW f \in flight, Execute(f)
      PROVE  /\ Ahead' \subseteq Ahead /\ f.job \notin Ahead'
             /\ \A g \in flight' \ flight : g.at # "run"
  <2>1. PICK at \in {"ok", "failed"} : flight' = (flight \ {f}) \cup {[f EXCEPT !.at = at]}
    BY <1>1 DEF Execute
  <2>2. UNCHANGED <<sched, picked, batch>> /\ f.at = "run"
    BY <1>1 DEF Execute
  <2>3. [f EXCEPT !.at = at].at = at /\ at # "run"
    BY <1>0, <2>1 DEF TypeOK
  <2>4. {g \in flight' : g.at = "run"} \subseteq {g \in flight : g.at = "run"} \ {f}
    BY <2>1, <2>3
  <2>5. picked = <<>>
    BY <1>0 DEF HandsFollowStage
  <2>6. f.job \notin InBatch
    BY <1>0 DEF ClaimedOnce, InFlight
  <2>7. \A g \in flight \ {f} : g.job # f.job
    BY <1>0 DEF ClaimedOnce
  <2>8. Ahead' \subseteq Ahead
    BY <2>2, <2>4 DEF Ahead, ToClaim
  <2>9. f.job \notin Ahead'
    <3>1. ToClaim' = {}
      BY <2>2, <2>5 DEF ToClaim, Range
    <3>. QED
      BY <2>2, <2>4, <2>6, <2>7, <3>1 DEF Ahead, InBatch
  <2>. QED
    BY <2>1, <2>3, <2>8, <2>9
<1>2. CASE ReadOverdue \/ DueJobs
  <2>1. sched \in {"start", "poll"} /\ UNCHANGED <<batch, flight>>
    BY <1>2 DEF ReadOverdue, DueJobs
  <2>2. batch = <<>> /\ flight = {} /\ picked = <<>>
    BY <1>0, <2>1 DEF HandsFollowStage
  <2>3. picked' = picked \/ \E s \in Seq(Ready) : picked' = Read(s)
    BY <1>0, <1>2, EligibleIs DEF ReadOverdue, DueJobs
  <2>4. \A e \in Range(picked') : e.job \in Ready
    <3>1. CASE picked' = picked
      BY <2>2, <3>1 DEF Range
    <3>2. CASE picked' # picked
      BY <1>0, <2>3, <3>2, ReadIs
    <3>. QED
      BY <3>1, <3>2
  <2>5. Ahead' \subseteq Ready
    BY <2>1, <2>2, <2>4 DEF Ahead, ToClaim, Range
  <2>. QED
    BY <1>2, <2>1, <2>2, <2>5
<1>3. ASSUME UNCHANGED <<picked, batch, flight>>, sched' = sched \/ picked = <<>> PROVE Ahead' = Ahead
  BY <1>3 DEF Ahead, ToClaim, Range
<1>4. CASE Sync \/ ClearStaleLocks \/ EndBatch \/ Restart \/ WriteUpdate
           \/ \E j \in Jobs : FallDue(j) \/ DeclaredTimeComes(j) \/ AddJob(j) \/ RemoveJob(j)
                               \/ \E patch \in Patches : ReadForUpdate(j, patch)
  <2>1. UNCHANGED <<picked, batch, flight>>
    BY <1>4 DEF Sync, ClearStaleLocks, EndBatch, Restart, WriteUpdate, FallDue,
                DeclaredTimeComes, AddJob, RemoveJob, ReadForUpdate, work
  <2>2. sched' = sched \/ sched \in {"down", "sync", "unlock", "work"}
    BY <1>4 DEF Sync, ClearStaleLocks, EndBatch, Restart, WriteUpdate, FallDue,
                DeclaredTimeComes, AddJob, RemoveJob, ReadForUpdate, work
  <2>3. sched' = sched \/ picked = <<>>
    BY <1>0, <2>2 DEF HandsFollowStage
  <2>. QED
    BY <1>1, <1>3, <2>1, <2>3
<1>10. CASE SkipMissed
  <2>1. /\ sched = "skip" /\ UNCHANGED <<batch, flight>> /\ picked' = Tail(picked)
        /\ sched' = IF picked' = <<>> THEN "poll" ELSE sched
    BY <1>10 DEF SkipMissed
  <2>2. ToClaim' = {}
    BY <2>1 DEF ToClaim, Range
  <2>3. Ahead' \subseteq Ahead
    BY <2>1, <2>2 DEF Ahead
  <2>. QED
    BY <1>1, <2>1, <2>3
<1>5. CASE ClaimJob
  <2>1. /\ sched = "claim" /\ sched' # "skip" /\ batch \in Seq(Items) /\ flight = {}
        /\ UNCHANGED flight /\ picked' = Tail(picked)
        /\ batch' = batch \/ batch' = Append(batch, Head(picked))
    BY <1>0, <1>5 DEF HandsFollowStage, ClaimJob, TypeOK
  <2>2. Range(picked) = {Head(picked)} \cup Range(Tail(picked)) /\ Head(picked) \in Items
    BY <1>0, <2>1, HeadIs
  <2>3. Range(Append(batch, Head(picked))) = Range(batch) \cup {Head(picked)}
    BY <2>1, <2>2, Appended
  <2>4. Ahead' \subseteq Ahead
    BY <2>1, <2>2, <2>3 DEF Ahead, ToClaim
  <2>. QED
    BY <2>1, <2>4
<1>6. CASE SkipOrphan \/ Begin
  <2>1. batch # <<>> /\ batch \in Seq(Items) /\ batch' = Tail(batch) /\ UNCHANGED <<sched, picked>>
    BY <1>0, <1>6 DEF SkipOrphan, Begin, CanBegin, TypeOK
  <2>2. Range(batch) = {Head(batch)} \cup Range(Tail(batch))
    BY <2>1, TailIs
  <2>3. CASE SkipOrphan
    <3>1. UNCHANGED flight
      BY <2>3 DEF SkipOrphan
    <3>2. Ahead' \subseteq Ahead
      BY <2>1, <2>2, <3>1 DEF Ahead, ToClaim
    <3>. QED
      BY <1>1, <3>1, <3>2
  <2>4. CASE Begin
    <3>. DEFINE g == [job |-> Head(batch).job, once |-> Head(batch).once, at |-> "run"]
    <3>1. flight' = flight \cup {g} /\ UNCHANGED ghosts
      BY <2>4 DEF Begin, ghosts
    <3>2. g.job = Head(batch).job
      OBVIOUS
    <3>. HIDE DEF g
    <3>3. Ahead' \subseteq Ahead /\ g.job \in Ahead
      BY <2>1, <2>2, <3>1, <3>2 DEF Ahead, ToClaim
    <3>. QED
      BY <1>1, <3>1, <3>3
  <2>. QED
    BY <1>6, <2>3, <2>4
<1>7. CASE \E f \in flight : PersistJobResult(f) \/ Release(f)
  <2>1. PICK f \in flight : PersistJobResult(f) \/ Release(f)
    BY <1>7
  <2>2. /\ UNCHANGED <<sched, picked, batch>> /\ f.at # "run"
        /\ flight' = flight \ {f} \/ flight' = (flight \ {f}) \cup {[f EXCEPT !.at = "recorded"]}
    BY <2>1 DEF PersistJobResult, Release
  <2>3. [f EXCEPT !.at = "recorded"].at = "recorded"
    BY <1>0 DEF TypeOK
  <2>4. {g \in flight' : g.at = "run"} \subseteq {g \in flight : g.at = "run"}
    BY <2>2, <2>3
  <2>5. Ahead' \subseteq Ahead
    BY <2>2, <2>4 DEF Ahead, ToClaim
  <2>6. \A g \in flight : Execute(g) => g.job \notin Ahead'
    BY <1>1
  <2>. QED
    BY <2>4, <2>5, <2>6
<1>8. CASE Crash
  BY <1>8 DEF Crash, Ahead, ToClaim, Range
<1>9. CASE UNCHANGED vars
  <2>1. UNCHANGED <<sched, picked, batch, flight>>
    BY <1>9 DEF vars
  <2>. QED
    BY <1>3, <1>1, <2>1
<1>. QED
  BY <1>2, <1>4, <1>5, <1>6, <1>1, <1>7, <1>8, <1>9, <1>10 DEF Next, Scheduling

LEMMA DoneStep ==
    ASSUME IInv, [Next]_vars
    PROVE  DoneIsOver'
<1>0. TypeOK /\ DoneIsOver /\ ClaimedOnce
  BY DEF IInv
<1>1. \A j \in done' : j \in done \/ \E f \in flight : Execute(f) /\ f.job = j
  BY DEF Next, Scheduling, FallDue, DeclaredTimeComes, Sync, ClearStaleLocks, ReadOverdue, SkipMissed,
         DueJobs, ClaimJob, SkipOrphan, Begin, Execute, PersistJobResult, Release, EndBatch,
         Crash, Restart, AddJob, RemoveJob, ReadForUpdate, WriteUpdate, vars, ghosts
<1>2. Ahead' \cap done' = {}
  <2>. SUFFICES ASSUME NEW j \in done', j \in Ahead'
                PROVE  FALSE
    OBVIOUS
  <2>1. j \in done
    BY <1>1, AheadStep
  <2>2. j \notin Ahead
    BY <1>0, <2>1 DEF DoneIsOver
  <2>3. j \in Ready /\ flight = {}
    BY <2>2, AheadStep
  <2>4. Spent(j)
    BY <1>0, <2>1, <2>3 DEF DoneIsOver
  <2>. QED
    BY <1>0, <2>3, <2>4 DEF Spent, Ready, IsDue, TypeOK
<1>3. ASSUME NEW j \in done'
      PROVE  Spent(j)' \/ \E f \in flight' : f.job = j /\ f.at \in {"ok", "failed"}
  <2>1. ASSUME NEW f \in flight, Execute(f), f.job = j
        PROVE  \E g \in flight' : g.job = j /\ g.at \in {"ok", "failed"}
    <3>1. PICK at \in {"ok", "failed"} : flight' = (flight \ {f}) \cup {[f EXCEPT !.at = at]}
      BY <2>1 DEF Execute
    <3>2. [f EXCEPT !.at = at].job = j /\ [f EXCEPT !.at = at].at = at
      BY <1>0, <2>1 DEF TypeOK
    <3>. QED
      BY <3>1, <3>2
  <2>2. CASE j \in done /\ Spent(j)
    <3>1. j \in Jobs
      BY <1>0, <2>2 DEF TypeOK
    <3>. QED
      BY <2>2, <3>1, SpentStays
  <2>3. ASSUME NEW f \in flight, f.job = j, f.at \in {"ok", "failed"}
        PROVE  f \in flight' \/ Spent(j)'
    <3>1. CASE PersistJobResult(f)
      BY <1>3, <2>3, <3>1, ResultSpends
    <3>2. ASSUME NEW g \in flight, Execute(g) \/ PersistJobResult(g) \/ Release(g), g # f
          PROVE  f \in flight'
      BY <3>2 DEF Execute, PersistJobResult, Release
    <3>3. ~Crash
      BY <1>3, <2>3 DEF Crash
    <3>4. CASE flight \subseteq flight'
      BY <3>4
    <3>. QED
      BY <2>3, <3>1, <3>2, <3>3, <3>4
         DEF Next, Scheduling, FallDue, DeclaredTimeComes, Sync, ClearStaleLocks, ReadOverdue, SkipMissed,
             DeclaredTimeComes, DueJobs, ClaimJob, SkipOrphan, Begin, EndBatch, Restart, AddJob, RemoveJob,
             ReadForUpdate, WriteUpdate, Execute, Release, vars, work
  <2>. QED
    BY <1>0, <1>1, <2>1, <2>2, <2>3 DEF DoneIsOver
<1>. QED
  BY <1>2, <1>3 DEF DoneIsOver

(* While jobs are polled, nobody takes off a lock that is not claimed.     *)
LEMMA LockStays ==
    ASSUME IInv, [Next]_vars, sched \in {"skip", "poll", "claim", "work"}, sched' # "down",
           NEW j \in Jobs, Exists(j), row[j].locked, j \notin Claimed
    PROVE  Exists(j)' => row'[j].locked /\ j \notin Claimed'
<1>0. TypeOK /\ row \in Tables /\ row[j] \in Entries /\ HandsFollowStage
  BY DEF IInv, Tables, Exists
<1>1. ASSUME \/ row' = row
             \/ \E i \in Jobs : \E v : \/ row' = [row EXCEPT ![i].enabled = v]
                                       \/ i # j /\ row' = [row EXCEPT ![i].locked = v]
                                       \/ i # j /\ row' = [row EXCEPT ![i] = v]
                                       \/ row' = [row EXCEPT ![i] = NoJob]
      PROVE  Exists(j)' => row'[j].locked
  BY <1>0, <1>1 DEF Exists, Tables, Entries
<1>2. ASSUME UNCHANGED batch,
             \A f \in flight' : \E g \in flight : f.job = g.job
      PROVE  j \notin Claimed'
  BY <1>2 DEF Claimed, InBatch, InFlight
<1>3. ASSUME UNCHANGED <<batch, flight>> PROVE j \notin Claimed'
  BY <1>3 DEF Claimed, InBatch, InFlight
<1>4. CASE ClaimJob
  <2>1. batch \in Seq(Items) /\ flight' = flight
    BY <1>0, <1>4 DEF ClaimJob, TypeOK
  <2>2. Head(picked) \in Items
    BY <1>0, <1>4, HeadIs DEF ClaimJob
  <2>3. Head(picked).job \in Jobs
    BY <2>2 DEF Items
  <2>4. CASE UNCHANGED <<row, batch>>
    BY <1>1, <1>3, <2>1, <2>4
  <2>5. CASE /\ ~row[Head(picked).job].locked /\ batch' = Append(batch, Head(picked))
             /\ row' = [row EXCEPT ![Head(picked).job].locked = TRUE]
    <3>1. Head(picked).job # j
      BY <2>5
    <3>2. Range(batch') = Range(batch) \cup {Head(picked)}
      BY <2>1, <2>2, <2>5, Appended
    <3>3. j \notin Claimed'
      BY <2>1, <3>1, <3>2 DEF Claimed, InBatch, InFlight
    <3>. QED
      BY <1>1, <2>3, <2>5, <3>1, <3>3
  <2>. QED
    BY <1>4, <2>4, <2>5 DEF ClaimJob
<1>5. CASE SkipOrphan \/ Begin
  <2>1. batch # <<>> /\ batch \in Seq(Items) /\ batch' = Tail(batch)
    BY <1>0, <1>5 DEF SkipOrphan, Begin, CanBegin, TypeOK
  <2>2. Range(batch) = {Head(batch)} \cup Range(Tail(batch)) /\ Head(batch) \in Items
    BY <2>1, TailIs, HeadAndTail
  <2>3. Head(batch).job # j /\ Head(batch).job \in Jobs /\ j \notin InBatch' /\ j \notin InFlight
    BY <2>1, <2>2 DEF Claimed, InBatch, Items
  <2>4. CASE SkipOrphan
    <3>1. UNCHANGED flight /\ (row' = row \/ row' = [row EXCEPT ![Head(batch).job].locked = FALSE])
      BY <2>4 DEF SkipOrphan, ReleaseJob
    <3>2. j \notin Claimed'
      BY <2>3, <3>1 DEF Claimed, InFlight
    <3>. QED
      BY <1>1, <2>3, <3>1, <3>2
  <2>5. CASE Begin
    <3>1. UNCHANGED row /\ \A f \in flight' : f \in flight \/ f.job = Head(batch).job
      BY <2>5 DEF Begin
    <3>2. j \notin Claimed'
      BY <2>3, <3>1 DEF Claimed, InFlight
    <3>. QED
      BY <1>1, <3>1, <3>2
  <2>. QED
    BY <1>5, <2>4, <2>5
<1>6. ASSUME NEW f \in flight, Execute(f) \/ PersistJobResult(f) \/ Release(f)
      PROVE  Exists(j)' => row'[j].locked /\ j \notin Claimed'
  <2>1. f.job \in Jobs /\ f.job # j
    BY <1>0 DEF TypeOK, Claimed, InFlight
  <2>2. PICK at : flight' = (flight \ {f}) \cup {[f EXCEPT !.at = at]} \/ flight' = flight \ {f}
    BY <1>6 DEF Execute, PersistJobResult, Release
  <2>3. [f EXCEPT !.at = at].job = f.job
    BY <1>0 DEF TypeOK
  <2>4. UNCHANGED batch
    BY <1>6 DEF Execute, PersistJobResult, Release
  <2>5. j \notin Claimed'
    BY <1>2, <2>2, <2>3, <2>4
  <2>6. \/ row' = row \/ row' = [row EXCEPT ![f.job].enabled = FALSE]
        \/ row' = [row EXCEPT ![f.job] = NoJob] \/ row' = [row EXCEPT ![f.job].locked = FALSE]
    BY <1>6 DEF Execute, PersistJobResult, Release, ReleaseJob, Reschedule, Disable, Delete
  <2>. QED
    BY <1>1, <2>1, <2>5, <2>6
<1>7. ASSUME NEW i \in Jobs, AddJob(i) \/ RemoveJob(i)
      PROVE  Exists(j)' => row'[j].locked /\ j \notin Claimed'
  <2>1. UNCHANGED <<batch, flight>>
    BY <1>7 DEF AddJob, RemoveJob, work
  <2>2. \/ i # j /\ \E once \in BOOLEAN : row' = [row EXCEPT ![i] = Row(once)]
        \/ row' = [row EXCEPT ![i] = NoJob]
    BY <1>7 DEF AddJob, RemoveJob, Delete
  <2>. QED
    BY <1>1, <1>3, <2>1, <2>2
<1>8. CASE WriteUpdate
  <2>1. row'[j] = row[j] \/ (edit.job = j /\ row'[j].locked = row[j].locked)
    BY <1>0, <1>8, WriteIs
  <2>2. UNCHANGED <<batch, flight>>
    BY <1>8 DEF WriteUpdate, work
  <2>. QED
    BY <1>3, <2>1, <2>2
<1>10. CASE SkipMissed
  <2>1. Head(picked).job \in Jobs /\ UNCHANGED <<batch, flight>>
    BY <1>0, <1>10, HeadIs DEF SkipMissed
  <2>2. row' = row \/ row' = [row EXCEPT ![Head(picked).job].enabled = FALSE]
    BY <1>10 DEF SkipMissed, Disable, Reschedule
  <2>. QED
    BY <1>1, <1>3, <2>1, <2>2
<1>9. CASE UNCHANGED <<row, batch, flight>>
  BY <1>1, <1>3, <1>9
<1>. QED
  BY <1>4, <1>5, <1>6, <1>7, <1>8, <1>9, <1>10
     DEF Next, Scheduling, FallDue, DeclaredTimeComes, Sync, ClearStaleLocks, ReadOverdue,
         DueJobs, EndBatch, Crash, Restart, ReadForUpdate, work, vars

LEMMA LateStep ==
    ASSUME IInv, [Next]_vars
    PROVE  LateIsOver'
<1>0. TypeOK /\ LateIsOver /\ HandsFollowStage /\ row \in Tables
  BY DEF IInv
<1>. SUFFICES ASSUME sched' \in {"skip", "poll", "claim", "work"}
              PROVE  Ahead' \cap late' = {} /\ \A j \in late' : Left(j)'
  BY DEF LateIsOver
<1>1. CASE ReadOverdue
  <2>1. CASE late' = {}
    BY <2>1
  <2>2. CASE late' # {}
    <3>1. /\ late' = Range(line) /\ sched = "start" /\ sched' = IF Ready = {} THEN "poll" ELSE "skip"
          /\ \E s \in Eligible : picked' = Read(s)
          /\ UNCHANGED <<row, line, batch, flight>>
      BY <1>1, <2>2 DEF ReadOverdue
    <3>2. PICK s \in Eligible : picked' = Read(s)
      BY <3>1
    <3>3. /\ {e.job : e \in Range(picked')} = Ready /\ (picked' = <<>> <=> Ready = {})
      BY <1>0, <3>2, EligibleIs, ReadIs
    <3>4. batch' = <<>> /\ flight' = {}
      BY <1>0, <3>1 DEF HandsFollowStage
    <3>5. Ahead' = {} /\ Claimed' = {}
      BY <3>1, <3>3, <3>4 DEF Ahead, ToClaim, Claimed, InBatch, InFlight, Range
    <3>6. ASSUME NEW j \in late' PROVE Left(j)'
      <4>1. CASE j \in Ready
        BY <3>1, <3>3, <4>1 DEF Left, ToSkip
      <4>2. CASE j \notin Ready
        BY <3>1, <3>5, <3>6, <4>2 DEF Ready, Left, Spent
      <4>. QED
        BY <4>1, <4>2
    <3>. QED
      BY <3>5, <3>6
  <2>. QED
    BY <2>1, <2>2
<1>2. CASE SkipMissed
  <2>. DEFINE i == Head(picked).job
  <2>1. /\ sched = "skip" /\ picked' = Tail(picked) /\ UNCHANGED <<batch, flight>>
        /\ sched' = IF picked' = <<>> THEN "poll" ELSE sched
        /\ late' \subseteq late
        /\ \/ i \notin late'
           \/ ~Exists(i) /\ UNCHANGED <<row, line>>
           \/ Exists(i) /\ (Disable(i) \/ Reschedule(i))
    BY <1>2 DEF SkipMissed
  <2>2. i \in Jobs /\ Range(picked) = {Head(picked)} \cup Range(picked')
    BY <1>0, <2>1, HeadIs
  <2>3. Ahead' \cap late' = {}
    <3>1. Ahead' \subseteq Ahead
      BY <1>2, AheadStep DEF SkipMissed, ReadOverdue, DueJobs
    <3>. QED
      BY <1>0, <2>1, <3>1 DEF LateIsOver
  <2>. HIDE DEF i
  <2>4. ASSUME NEW j \in late' PROVE Left(j)'
    <3>1. j \in Jobs /\ Left(j)
      BY <1>0, <2>1, <2>4 DEF LateIsOver, TypeOK
    <3>2. CASE j = i
      <4>1. CASE ~Exists(i) /\ UNCHANGED <<row, line>>
        BY <3>2, <4>1 DEF Left, Spent, Exists
      <4>2. CASE Exists(i) /\ Disable(i)
        BY <1>0, <2>2, <3>2, <4>2 DEF Left, Spent, Disable, Exists, Tables, Entries
      <4>3. CASE Reschedule(i)
        BY <1>0, <3>2, <4>3, WithoutIs DEF Left, Spent, Reschedule, IsDue, TypeOK
      <4>. QED
        BY <2>1, <2>4, <3>2, <4>1, <4>2, <4>3
    <3>3. CASE j # i /\ j \in ToSkip
      <4>1. j \in {e.job : e \in Range(picked')}
        BY <2>1, <2>2, <3>3 DEF ToSkip, i
      <4>2. sched' = "skip"
        BY <2>1, <4>1 DEF Range
      <4>. QED
        BY <4>1, <4>2 DEF Left, ToSkip
    <3>4. CASE Spent(j)
      <4>1. Spent(j)'
        BY <2>1, <2>4, <3>1, <3>4, SpentStays
      <4>. QED
        BY <4>1 DEF Left
    <3>5. CASE ~Spent(j) /\ row[j].locked /\ j \notin Claimed
      <4>1. Exists(j)' => row'[j].locked /\ j \notin Claimed'
        BY <2>1, <3>1, <3>5, LockStays DEF Spent
      <4>. QED
        BY <4>1 DEF Left, Spent
    <3>. QED
      BY <3>1, <3>2, <3>3, <3>4, <3>5 DEF Left
  <2>. QED
    BY <2>3, <2>4
<1>3. CASE ~ReadOverdue /\ ~SkipMissed
  <2>1. /\ sched \in {"skip", "poll", "claim", "work"} /\ late' \subseteq late
        /\ sched = "skip" => sched' = "skip" /\ picked' = picked
    <3>1. ~(Sync \/ ClearStaleLocks \/ Crash \/ Restart)
      BY DEF Sync, ClearStaleLocks, Crash, Restart
    <3>2. ASSUME NEW f \in flight, Execute(f) \/ PersistJobResult(f) \/ Release(f)
          PROVE  UNCHANGED <<sched, picked>> /\ late' \subseteq late
      BY <3>2 DEF Execute, PersistJobResult, Release
    <3>3. CASE ClaimJob \/ DueJobs \/ SkipOrphan \/ Begin \/ EndBatch
      BY <3>3 DEF ClaimJob, DueJobs, SkipOrphan, Begin, EndBatch, CanBegin, ghosts
    <3>4. ASSUME NEW j \in Jobs, \/ FallDue(j) \/ DeclaredTimeComes(j) \/ AddJob(j) \/ RemoveJob(j)
                                \/ \E patch \in Patches : ReadForUpdate(j, patch)
          PROVE  UNCHANGED <<sched, picked>> /\ late' \subseteq late
      BY <3>4 DEF FallDue, DeclaredTimeComes, AddJob, RemoveJob, ReadForUpdate, work, ghosts
    <3>5. CASE WriteUpdate
      BY <3>5 DEF WriteUpdate, work
    <3>6. CASE UNCHANGED vars
      BY <3>6 DEF vars
    <3>. QED
      BY <1>3, <3>1, <3>2, <3>3, <3>4, <3>5, <3>6 DEF Next, Scheduling
  <2>2. Ahead \cap late = {} /\ \A j \in late : Left(j)
    BY <1>0, <2>1 DEF LateIsOver
  <2>3. sched # "skip" => Ready \cap late = {}
    BY <1>0, <2>2 DEF Left, Spent, ToSkip, Ready, IsDue, TypeOK
  <2>4. Ahead' \cap late' = {}
    BY <1>3, <2>1, <2>2, <2>3, AheadStep DEF DueJobs
  <2>5. ASSUME NEW j \in late' PROVE Left(j)'
    <3>1. j \in Jobs /\ j \in late /\ Left(j)
      BY <1>0, <2>1, <2>2, <2>5 DEF TypeOK
    <3>2. CASE Spent(j)
      <4>1. Spent(j)'
        BY <2>1, <2>5, <3>1, <3>2, SpentStays
      <4>. QED
        BY <4>1 DEF Left
    <3>3. CASE j \in ToSkip
      BY <2>1, <3>3 DEF Left, ToSkip
    <3>4. CASE ~Spent(j) /\ row[j].locked /\ j \notin Claimed
      <4>1. Exists(j)' => row'[j].locked /\ j \notin Claimed'
        BY <2>1, <3>1, <3>4, LockStays DEF Spent
      <4>. QED
        BY <4>1 DEF Left, Spent
    <3>. QED
      BY <3>1, <3>2, <3>3, <3>4 DEF Left
  <2>. QED
    BY <2>4, <2>5
<1>. QED
  BY <1>1, <1>2, <1>3
----------------------------------------------------------------------------
LEMMA InitHolds == Init => IInv
<1>. SUFFICES ASSUME Init PROVE IInv
  OBVIOUS
<1>1. IsFiniteSet({}) /\ Cardinality({}) = 0 /\ 0 <= MaxConcurrent
  BY FS_EmptySet, CronConstants DEF CronConstants
<1>2. row \in Tables /\ \A j \in Jobs : Exists(j) => row[j] \in Entries
  BY EntriesAre DEF Init, Tables, Exists
<1>3. Range(<<>>) = {} /\ <<>> \in Seq(Jobs) /\ <<>> \in Seq(Items)
  BY DEF Range
<1>4. TypeOK
  BY <1>1, <1>2, <1>3, CronConstants DEF Init, TypeOK, CronConstants
<1>5. HandsFollowStage /\ ClaimedOnce /\ ClaimedAreLocked
  BY <1>3 DEF Init, HandsFollowStage, ClaimedOnce, ClaimedAreLocked, Claimed, InBatch, InFlight
<1>6. DoneIsOver /\ LateIsOver
  BY <1>3 DEF Init, DoneIsOver, LateIsOver
<1>. QED
  BY <1>1, <1>2, <1>4, <1>5, <1>6 DEF IInv, Init

LEMMA Step == IInv /\ [Next]_vars => IInv'
BY TypeStep, LocksStep, DoneStep, LateStep DEF IInv

LEMMA Invariant == Spec => []IInv
BY InitHolds, Step, PTL DEF Spec

(* Every variable stays within its type, at most max_concurrent jobs are   *)
(* in flight, and a job that is due has a row.                             *)
THEOREM TypesHold == Spec => []TypeOK
<1>1. IInv => TypeOK
  BY DEF IInv
<1>. QED
  BY <1>1, Invariant, PTL

(* No job is in the scheduler's hands twice, and while it is there its row *)
(* is locked, so that no poll can claim it again; an edit keeps the lock.  *)
THEOREM ClaimsAreLocks == Spec => [](ClaimedOnce /\ ClaimedAreLocked)
<1>1. IInv => ClaimedOnce /\ ClaimedAreLocked
  BY DEF IInv
<1>. QED
  BY <1>1, Invariant, PTL

(* One occurrence of a job is executed once, for any number of jobs, users *)
(* and faults: the result is recorded before the lock comes off, and the   *)
(* record takes the job out of what is read as due.  A run is repeated     *)
(* only in the cases OncePerOccurrence names.                              *)
THEOREM RunOnce == Spec => OncePerOccurrence
<1>1. IInv /\ [Next]_vars =>
        [ \A f \in flight' \ flight : f.at = "run" => f.job \notin done ]_vars
  BY AheadStep DEF IInv, DoneIsOver
<1>. QED
  BY <1>1, Invariant, PTL DEF Spec, OncePerOccurrence

(* With catch-up turned off, nothing that was overdue when the scheduler   *)
(* started is run before its next time, but for failed skips and the edits *)
(* that OverdueIsSkipped names.                                            *)
THEOREM NothingRunsLate == Spec => OverdueIsSkipped
<1>1. IInv /\ [Next]_vars =>
        [ \A f \in flight' \ flight : f.at = "run" => f.job \notin late ]_vars
  <2>. SUFFICES ASSUME IInv, [Next]_vars, NEW f \in flight' \ flight, f.at = "run"
                PROVE  f.job \notin late
    OBVIOUS
  <2>1. f.job \in Ahead
    BY AheadStep
  <2>2. Ahead # {} => sched \in {"claim", "work"}
    BY DEF IInv, HandsFollowStage, Ahead, ToClaim, Range
  <2>. QED
    BY <2>1, <2>2 DEF IInv, LateIsOver
<1>. QED
  BY <1>1, Invariant, PTL DEF Spec, OverdueIsSkipped
=============================================================================
