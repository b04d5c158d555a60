---------------------------- MODULE SopBrokerProof ----------------------------
(***************************************************************************)
(* Proofs about SopBroker, for any principals, policies and modes, as long *)
(* as the ledger can be read when a gate parks (no fault "history").       *)
(*                                                                         *)
(* What keeps votes and presentations of earlier visits apart is the       *)
(* revision: a gate that has been shown before parks with a greater one    *)
(* than every presentation and every vote there is.  From that, the votes  *)
(* that bear the revision of the gate are those of its present visit.      *)
(***************************************************************************)
EXTENDS SopBroker, FiniteSetTheorems, TLAPS

Records == [at : {"running", "parked", "over"}, rev : Presentations,
            decided : BOOLEAN, saved : BOOLEAN]

(* The run in memory is the one in the store, but for a park that could    *)
(* not be written.                                                         *)
GateFits ==
    /\ gate.rev <= visit /\ row.rev <= visit
    /\ gate.saved => row = gate
    /\ ~gate.saved => /\ gate.at = "parked" /\ row.at = "running"
                      /\ row.decided = gate.decided
                      /\ row.rev <= gate.rev

(* Once the gate has been shown, an unparked run remembers it: NextRevision  *)
(* will be greater.                                                        *)
Remembered ==
    shown # {} => /\ row.at # "parked" => IF kind = "approval" THEN history ELSE row.decided
                  /\ ~gate.saved => row.rev < gate.rev

PromptsFit ==
    /\ \A q \in shown : q.rev <= row.rev
    /\ gate.at = "parked" => \A q \in shown : q.rev = gate.rev => q.visit = visit
    /\ gate.at = "parked" /\ gate.saved => [visit |-> visit, rev |-> gate.rev] \in shown

(* The votes and the ghost that counts them say the same of the gate as it *)
(* stands.                                                                 *)
VotesFit ==
    /\ votes # {} => shown # {}
    /\ \A v \in votes : v.rev <= row.rev /\ v.voter = Voter[v.by] /\ ~Rejected(v.by)
    /\ \A a \in ayes : a.by \in Principals
    /\ gate.at = "parked" =>
         /\ \A v \in votes : v.rev = gate.rev =>
              \E a \in ayes : a.by = v.by /\ a.policy = v.policy /\ a.what = v.what
         /\ \A a \in ayes : \E v \in votes :
              v.rev = gate.rev /\ v.voter = Voter[a.by] /\ v.policy = a.policy /\ v.what = a.what

IInv == TypeOK /\ GateFits /\ Remembered /\ PromptsFit /\ PromptsAreDistinct /\ VotesFit

LegibleLedger == "history" \notin Faults
FiniteVoters == IsFiniteSet({Voter[q] : q \in Principals})

(* A credential is in a group under all its transports or under none.      *)
OneMembership == \A c \in Configs, p, q \in Principals : Voter[p] = Voter[q] =>
    /\ p \in c.members <=> q \in c.members
    /\ p \in Chatters <=> q \in Chatters

-----------------------------------------------------------------------------
(* The kinds of steps.                                                     *)

(* A gate is announced under the revision and visit it has now.            *)
Announced == shown' = shown \cup {[visit |-> visit', rev |-> gate'.rev]}

GateIs(at, rev, decided, saved) ==
    /\ gate'.at = at /\ gate'.rev = rev /\ gate'.decided = decided /\ gate'.saved = saved
    /\ gate' \in Records

Parks ==
    /\ gate.at = "running" /\ visit' = visit + 1 /\ visit' \in Presentations
    /\ \E saved \in BOOLEAN, rev \in {gate.rev, gate.rev + 1} :
         /\ GateIs("parked", rev, gate.decided, saved)
         /\ rev = gate.rev => shown = {}
         /\ IF saved THEN row' = gate' /\ Announced ELSE UNCHANGED <<row, shown>>
    /\ ayes' = {} /\ passed' = Nobody
    /\ UNCHANGED <<kind, conf, votes, history>>

SavesPark ==
    /\ gate.at = "parked" /\ ~gate.saved
    /\ GateIs("parked", gate.rev, gate.decided, TRUE)
    /\ row' = gate' /\ Announced
    /\ UNCHANGED <<kind, conf, votes, history, visit, ayes, passed>>

(* The gate is passed, or denied.                                          *)
Leaves ==
    /\ gate.at = "parked" /\ history' = TRUE
    /\ \E at \in {"running", "over"} : GateIs(at, gate.rev, TRUE, TRUE)
    /\ row' = gate' /\ ayes' = {}
    /\ UNCHANGED <<kind, conf, visit, shown>>

Revises ==
    /\ gate.at = "parked" /\ gate.saved /\ history' = TRUE
    /\ visit' = visit + 1 /\ visit' \in Presentations
    /\ GateIs("parked", gate.rev + 1, gate.decided, TRUE)
    /\ row' = gate' /\ Announced /\ ayes' = {}
    /\ UNCHANGED <<kind, conf>>

(* A vote that does not pass the gate.                                     *)
VoteIs(p, what) ==
    /\ gate.at = "parked" /\ gate.saved /\ MayAct(p) /\ what # "deny"
    /\ votes' = IF Need > 1 THEN RecordVote(p, what) ELSE votes

Counts(p, what) ==
    /\ VoteIs(p, what)
    /\ ayes' = IF Need > 1 THEN ayes \cup {[by |-> p, policy |-> conf.policy, what |-> what]} ELSE ayes
    /\ history' \in BOOLEAN /\ (history => history')
    /\ UNCHANGED <<kind, conf, gate, row, visit, shown, passed>>

TimesOut ==
    /\ kind = "approval" /\ gate.at = "parked" /\ gate.saved /\ history' = TRUE
    /\ \E at \in {"running", "parked", "over"} : GateIs(at, gate.rev, gate.decided, TRUE)
    /\ row' = gate'
    /\ UNCHANGED <<kind, conf, votes, visit, shown, ayes, passed>>

Aside ==
    /\ conf' \in Configs
    /\ UNCHANGED <<kind, gate, row, votes, history, visit, shown, ayes, passed>>

Restarts ==
    /\ gate' = row
    /\ IF row.at = "parked" THEN Announced ELSE UNCHANGED shown
    /\ UNCHANGED <<kind, conf, row, votes, history, visit, ayes, passed>>

DecisionKind(p, what) ==
    \/ Leaves /\ votes' = votes /\ passed'.what = "deny"
    \/ /\ Leaves \/ Revises
       /\ VoteIs(p, what)
       /\ passed' = [visit |-> visit, by |-> p, what |-> what]
       /\ Need > 1 => Cardinality(QualifiedVoters(votes', what)) >= Need
    \/ Counts(p, what)

LEMMA FieldsOf ==
    ASSUME TypeOK
    PROVE  /\ gate \in Records /\ row \in Records /\ row.saved /\ visit \in Nat /\ MaxVisits \in Nat
           /\ gate.rev \in Nat /\ row.rev \in Nat
BY BrokerConstants DEF TypeOK, Records, Presentations, BrokerConstants

LEMMA NextRevisionGrows ==
    ASSUME IInv, gate.at = "running"
    PROVE  /\ NextRevision(TRUE) \in {gate.rev, gate.rev + 1}
           /\ NextRevision(TRUE) = gate.rev => shown = {}
<1>1. gate.rev \in Nat /\ gate.saved /\ row = gate
  BY FieldsOf DEF IInv, GateFits, Records
<1>2. gate.rev + 1 # gate.rev
  BY <1>1
<1>3. ASSUME shown # {}
      PROVE  PresentedBefore(TRUE)
  BY <1>1, <1>3 DEF IInv, Remembered, PresentedBefore
<1>. QED
  BY <1>2, <1>3 DEF NextRevision

LEMMA ParkKind ==
    ASSUME LegibleLedger, IInv, Park
    PROVE  Parks
<1>0. /\ gate \in Records /\ visit \in Nat /\ MaxVisits \in Nat
      /\ gate.rev \in Nat /\ visit < MaxVisits /\ gate.at = "running" /\ gate.rev <= visit
  BY FieldsOf DEF IInv, GateFits, Park
<1>1. PICK saved \in BOOLEAN :
        /\ gate' = [gate EXCEPT !.at = "parked", !.saved = saved, !.rev = NextRevision(TRUE)]
        /\ IF saved THEN row' = gate' /\ Announce(visit', gate'.rev)
                    ELSE UNCHANGED <<row, shown>>
  <2>1. {FALSE : f \in {"history"} \cap Faults} = {}
    BY DEF LegibleLedger
  <2>. QED
    BY <2>1 DEF Park
<1>2. /\ NextRevision(TRUE) \in {gate.rev, gate.rev + 1}
      /\ NextRevision(TRUE) = gate.rev => shown = {}
  BY <1>0, NextRevisionGrows
<1>. DEFINE rev == NextRevision(TRUE)
<1>3. visit' = visit + 1 /\ visit' \in Presentations /\ rev \in Presentations
  <2>1. visit' = visit + 1
    BY DEF Park
  <2>2. visit + 1 \in Presentations /\ {gate.rev, gate.rev + 1} \subseteq Presentations
    BY <1>0 DEF Presentations
  <2>. QED
    BY <1>2, <2>1, <2>2
<1>4. GateIs("parked", rev, gate.decided, saved)
  BY <1>0, <1>1, <1>3 DEF GateIs, Records
<1>5. IF saved THEN row' = gate' /\ Announced ELSE UNCHANGED <<row, shown>>
  BY <1>1 DEF Announce, Announced
<1>6. /\ ayes' = {} /\ passed' = Nobody
      /\ UNCHANGED <<kind, conf, votes, history>>
  BY DEF Park
<1>. HIDE DEF rev
<1>. QED
  BY <1>0, <1>2, <1>3, <1>4, <1>5, <1>6 DEF Parks, rev

LEMMA DecisionKinds ==
    ASSUME IInv, NEW STATE p, p \in Principals, NEW STATE what, what \in Choices, Decide(p, what)
    PROVE  DecisionKind(p, what)
<1>0. /\ gate \in Records /\ visit \in Nat /\ MaxVisits \in Nat
      /\ gate.rev \in Nat /\ gate.rev <= visit /\ history \in BOOLEAN
  BY FieldsOf DEF IInv, GateFits, TypeOK
<1>1. CASE what = "deny"
  <2>1. Deny(p)
    BY <1>1 DEF Decide
  <2>2. PICK at \in {"running", "over"} : gate' = [Running(gate.rev, TRUE) EXCEPT !.at = at]
    BY <2>1 DEF Deny
  <2>3. GateIs(at, gate.rev, TRUE, TRUE)
    BY <1>0, <2>2 DEF Running, GateIs, Records
  <2>4. Leaves /\ votes' = votes
    BY <2>1, <2>3 DEF Deny, Leaves
  <2>5. passed'.what = "deny"
    BY <2>1 DEF Deny
  <2>. QED
    BY <2>4, <2>5 DEF DecisionKind
<1>2. CASE what # "deny"
  <2>1. Favour(p, what)
    BY <1>2 DEF Decide
  <2>2. VoteIs(p, what)
    BY <1>2, <2>1 DEF Favour, VoteIs
  <2>3. CASE /\ Need > 1 => Cardinality(QualifiedVoters(votes', what)) >= Need
             /\ Pass(p, what)
    <3>1. passed' = [visit |-> visit, by |-> p, what |-> what]
      BY <2>3 DEF Pass
    <3>2. CASE what = "revise"
      <4>1. /\ visit < MaxVisits /\ visit' = visit + 1
            /\ gate' = [gate EXCEPT !.rev = @ + 1]
            /\ Announce(visit', gate'.rev)
        BY <2>3, <3>2 DEF Pass
      <4>2. visit' \in Presentations /\ gate.rev + 1 \in Presentations
        BY <1>0, <4>1 DEF Presentations
      <4>3. GateIs("parked", gate.rev + 1, gate.decided, TRUE)
        BY <1>0, <2>2, <4>1, <4>2 DEF GateIs, Records, VoteIs
      <4>4. Revises
        BY <2>1, <2>2, <2>3, <4>1, <4>2, <4>3 DEF Favour, VoteIs, Pass, Revises, Announce, Announced
      <4>. QED
        BY <2>2, <2>3, <3>1, <4>4 DEF DecisionKind
    <3>3. CASE what # "revise"
      <4>1. PICK at \in {"running", "over"} : gate' = [Running(gate.rev, TRUE) EXCEPT !.at = at]
        BY <2>3, <3>3 DEF Pass
      <4>2. GateIs(at, gate.rev, TRUE, TRUE)
        BY <1>0, <4>1 DEF Running, GateIs, Records
      <4>3. Leaves
        BY <2>1, <2>2, <2>3, <3>3, <4>2 DEF Favour, VoteIs, Pass, Leaves
      <4>. QED
        BY <2>2, <2>3, <3>1, <4>3 DEF DecisionKind
    <3>. QED
      BY <3>2, <3>3
  <2>4. CASE /\ history' = (history \/ Need > 1)
             /\ ayes' = IF Need > 1 THEN ayes \cup {[by |-> p, policy |-> conf.policy, what |-> what]}
                                    ELSE ayes
             /\ UNCHANGED <<gate, row, visit, shown, passed>>
    BY <1>0, <2>1, <2>2, <2>4 DEF Favour, Counts, DecisionKind
  <2>. QED
    BY <2>1, <2>3, <2>4 DEF Favour
<1>. QED
  BY <1>1, <1>2

(* A decision comes from a caller or from the answer in hand.              *)
Decides == \E p \in Principals, what \in Choices : Decide(p, what) /\ DecisionKind(p, what)

LEMMA Kinds ==
    ASSUME LegibleLedger, IInv, Next
    PROVE  Parks \/ SavesPark \/ Decides \/ TimesOut \/ Aside \/ Restarts
<1>0. /\ gate \in Records /\ visit \in Nat /\ gate.rev \in Nat /\ TypeOK
  BY FieldsOf DEF IInv
<1>1. CASE RetryPark
  BY <1>0, <1>1 DEF RetryPark, SavesPark, GateIs, Records, Announce, Announced
<1>2. ASSUME NEW p \in Principals, Resolve(p)
      PROVE  Decides
  BY <1>2, DecisionKinds DEF Resolve, Decides
<1>3. CASE ResolveAnswer
  <2>1. answer.by \in Principals /\ answer.what \in Choices
    BY <1>0, <1>3, BrokerConstants DEF TypeOK, ResolveAnswer, BrokerConstants
  <2>2. DecisionKind(answer.by, answer.what)
    BY <1>3, <2>1, DecisionKinds DEF ResolveAnswer
  <2>. QED
    BY <1>3, <2>1, <2>2 DEF ResolveAnswer, Decides
<1>4. ASSUME NEW act \in Timeouts, TimeOut(act)
      PROVE  TimesOut
  <2>1. act \in {"Escalate", "Cancel", "AutoApprove"}
    BY BrokerConstants DEF BrokerConstants
  <2>2. PICK at \in {"running", "parked", "over"} : gate' = [gate EXCEPT !.at = at]
    <3>1. CASE act = "Escalate"
      <4>1. gate' = gate /\ gate.at = "parked"
        BY <1>4, <3>1 DEF TimeOut
      <4>2. gate' = [gate EXCEPT !.at = "parked"]
        BY <1>0, <4>1 DEF Records
      <4>. QED
        BY <4>2
    <3>2. CASE act = "Cancel"
      BY <1>4, <3>2 DEF TimeOut
    <3>3. CASE act = "AutoApprove"
      BY <1>4, <3>3 DEF TimeOut
    <3>. QED
      BY <2>1, <3>1, <3>2, <3>3
  <2>3. GateIs(at, gate.rev, gate.decided, TRUE)
    BY <1>0, <1>4, <2>2 DEF TimeOut, GateIs, Records
  <2>. QED
    BY <1>4, <2>3 DEF TimeOut, TimesOut, ghosts
<1>5. CASE Restart
  BY <1>5 DEF Restart, Restarts, Announce, Announced
<1>6. CASE AnswerRefused \/ (\E c \in Configs : Reload(c))
           \/ (\E p \in Principals, what \in Choices, q \in prompts : CheckReference(p, what, q))
  BY <1>0, <1>6 DEF AnswerRefused, Reload, CheckReference, Aside, ghosts, TypeOK
<1>. QED
  BY <1>1, <1>2, <1>3, <1>4, <1>5, <1>6, ParkKind DEF Next

-----------------------------------------------------------------------------
(* The kinds of steps keep the invariant.  What it says of the gate        *)
(* itself:                                                                 *)
LEMMA GateKept ==
    ASSUME IInv, Parks \/ SavesPark \/ Decides \/ TimesOut \/ Aside \/ Restarts
    PROVE  GateFits' /\ Remembered'
<1>0. /\ gate \in Records /\ row \in Records /\ row.saved /\ visit \in Nat
      /\ gate.rev \in Nat /\ row.rev \in Nat
      /\ GateFits /\ Remembered /\ PromptsFit
      /\ history \in BOOLEAN /\ kind \in {"approval", "checkpoint"}
  BY FieldsOf DEF IInv, TypeOK
<1>1. CASE Parks
  <2>1. PICK saved \in BOOLEAN, rev \in {gate.rev, gate.rev + 1} :
          /\ GateIs("parked", rev, gate.decided, saved)
          /\ rev = gate.rev => shown = {}
          /\ IF saved THEN row' = gate' /\ Announced ELSE UNCHANGED <<row, shown>>
    BY <1>1 DEF Parks
  <2>2. row = gate /\ visit' = visit + 1 /\ gate.at = "running" /\ kind' = kind /\ history' = history
    BY <1>0, <1>1 DEF Parks, GateFits
  <2>3. GateFits'
    BY <1>0, <2>1, <2>2 DEF GateIs, GateFits
  <2>4. Remembered'
    BY <1>0, <2>1, <2>2 DEF GateIs, Remembered
  <2>. QED
    BY <2>3, <2>4
<1>2. CASE SavesPark
  BY <1>0, <1>2 DEF SavesPark, GateIs, GateFits, Remembered
<1>3. CASE Aside
  BY <1>0, <1>3 DEF Aside, GateFits, Remembered
<1>8. CASE Restarts
  BY <1>0, <1>8 DEF Restarts, GateFits, Remembered
<1>4. CASE TimesOut
  BY <1>0, <1>4 DEF TimesOut, GateIs, GateFits, Remembered
<1>5. CASE Leaves
  BY <1>0, <1>5 DEF Leaves, GateIs, GateFits, Remembered
<1>6. CASE Revises
  BY <1>0, <1>6 DEF Revises, GateIs, GateFits, Remembered
<1>7. ASSUME NEW p \in Principals, NEW what \in Choices, Counts(p, what)
      PROVE  GateFits' /\ Remembered'
  BY <1>0, <1>7 DEF Counts, VoteIs, GateFits, Remembered
<1>. QED
  BY <1>1, <1>2, <1>3, <1>4, <1>5, <1>6, <1>7, <1>8 DEF Decides, DecisionKind

(* of the shown, where a new one bears a revision of its own:            *)
LEMMA PromptAdded ==
    ASSUME PromptsAreDistinct, NEW STATE rev, rev \in Nat,
           shown' = shown \cup {[visit |-> visit', rev |-> rev]},
           row' = gate', gate'.rev = rev,
           \A q \in shown : q.rev \in Nat /\ q.rev < rev
    PROVE  PromptsFit' /\ PromptsAreDistinct'
<1>. DEFINE new == [visit |-> visit', rev |-> rev]
<1>1. new.visit = visit' /\ new.rev = rev /\ new \in shown'
  OBVIOUS
<1>2. \A q \in shown' : q = new \/ (q \in shown /\ q.rev < rev /\ q.rev \in Nat)
  OBVIOUS
<1>. HIDE DEF new
<1>3. \A q \in shown' : q.rev <= rev /\ (q.rev = rev => q = new)
  BY <1>1, <1>2
<1>4. PromptsFit'
  BY <1>1, <1>3 DEF PromptsFit
<1>5. PromptsAreDistinct'
  BY <1>1, <1>2, <1>3 DEF PromptsAreDistinct
<1>. QED
  BY <1>4, <1>5

LEMMA PromptsKept ==
    ASSUME IInv, Parks \/ SavesPark \/ Decides \/ TimesOut \/ Aside \/ Restarts
    PROVE  PromptsFit' /\ PromptsAreDistinct'
<1>0. /\ gate \in Records /\ row \in Records /\ row.saved /\ visit \in Nat
      /\ gate.rev \in Nat /\ row.rev \in Nat
      /\ GateFits /\ Remembered /\ PromptsFit /\ PromptsAreDistinct
      /\ \A q \in shown : q.rev \in Nat /\ q.visit \in Nat
  BY FieldsOf DEF IInv, TypeOK, Presentations
<1>1. CASE Parks
  <2>1. PICK saved \in BOOLEAN, rev \in {gate.rev, gate.rev + 1} :
          /\ GateIs("parked", rev, gate.decided, saved)
          /\ rev = gate.rev => shown = {}
          /\ IF saved THEN row' = gate' /\ Announced ELSE UNCHANGED <<row, shown>>
    BY <1>1 DEF Parks
  <2>2. row = gate /\ gate.at = "running"
    BY <1>0, <1>1 DEF Parks, GateFits
  <2>3. rev \in Nat /\ \A q \in shown : q.rev < rev
    BY <1>0, <2>1, <2>2 DEF PromptsFit
  <2>4. CASE saved
    <3>1. shown' = shown \cup {[visit |-> visit', rev |-> rev]} /\ row' = gate' /\ gate'.rev = rev
      BY <2>1, <2>4 DEF Announced, GateIs
    <3>. QED
      BY <1>0, <2>3, <3>1, PromptAdded
  <2>5. CASE ~saved
    BY <1>0, <2>1, <2>2, <2>3, <2>5 DEF GateIs, PromptsFit, PromptsAreDistinct
  <2>. QED
    BY <2>4, <2>5
<1>2. CASE SavesPark
  <2>1. shown' = shown \cup {[visit |-> visit, rev |-> gate.rev]} /\ row' = gate'
        /\ gate'.rev = gate.rev /\ visit' = visit
    BY <1>2 DEF SavesPark, Announced, GateIs
  <2>2. \A q \in shown : q.rev < gate.rev
    BY <1>0, <1>2 DEF SavesPark, PromptsFit, GateFits, Remembered
  <2>. QED
    BY <1>0, <2>1, <2>2, PromptAdded
<1>3. CASE Aside
  BY <1>0, <1>3 DEF Aside, PromptsFit, PromptsAreDistinct
<1>8. CASE Restarts
  <2>1. CASE row.at # "parked"
    BY <1>0, <1>8, <2>1 DEF Restarts, GateFits, PromptsFit, PromptsAreDistinct
  <2>2. CASE row.at = "parked"
    <3>. DEFINE new == [visit |-> visit, rev |-> gate.rev]
    <3>1. row = gate /\ gate' = gate /\ row' = gate /\ visit' = visit /\ shown' = shown \cup {new}
      BY <1>0, <1>8, <2>2 DEF Restarts, GateFits, Announced
    <3>2. new.visit = visit /\ new.rev = gate.rev
      OBVIOUS
    <3>5. new = [visit |-> visit', rev |-> gate'.rev] /\ new \in shown'
      BY <3>1
    <3>. HIDE DEF new
    <3>3. \A q \in shown' : q.rev <= gate.rev /\ (q.rev = gate.rev => q.visit = visit)
      BY <1>0, <2>2, <3>1, <3>2 DEF PromptsFit
    <3>4. PromptsAreDistinct'
      BY <1>0, <3>1, <3>2, <3>3 DEF PromptsAreDistinct
    <3>. QED
      BY <3>1, <3>3, <3>4, <3>5 DEF PromptsFit
  <2>. QED
    BY <2>1, <2>2
<1>4. CASE TimesOut
  BY <1>0, <1>4 DEF TimesOut, GateIs, GateFits, PromptsFit, PromptsAreDistinct
<1>5. CASE Leaves
  BY <1>0, <1>5 DEF Leaves, GateIs, GateFits, PromptsFit, PromptsAreDistinct
<1>6. CASE Revises
  <2>1. shown' = shown \cup {[visit |-> visit', rev |-> gate.rev + 1]} /\ row' = gate'
        /\ gate'.rev = gate.rev + 1 /\ row = gate
    BY <1>0, <1>6 DEF Revises, Announced, GateIs, GateFits
  <2>2. gate.rev + 1 \in Nat /\ \A q \in shown : q.rev < gate.rev + 1
    BY <1>0, <2>1 DEF PromptsFit
  <2>. QED
    BY <1>0, <2>1, <2>2, PromptAdded
<1>7. ASSUME NEW p \in Principals, NEW what \in Choices, Counts(p, what)
      PROVE  PromptsFit' /\ PromptsAreDistinct'
  BY <1>0, <1>7 DEF Counts, VoteIs, PromptsFit, PromptsAreDistinct
<1>. QED
  BY <1>1, <1>2, <1>3, <1>4, <1>5, <1>6, <1>7, <1>8 DEF Decides, DecisionKind

(* and of the votes.                                                       *)
LEMMA VoteRecorded ==
    ASSUME IInv, NEW p \in Principals, NEW what \in Choices, VoteIs(p, what)
    PROVE  /\ votes \subseteq votes'
           /\ \A v \in votes' : v \in votes \/ v = [by |-> p, voter |-> Voter[p], policy |-> conf.policy,
                                                   rev |-> gate.rev, what |-> what]
           /\ Need > 1 => \E v \in votes' : /\ v.rev = gate.rev /\ v.voter = Voter[p]
                                            /\ v.policy = conf.policy /\ v.what = what
           /\ gate.at = "parked" /\ row = gate /\ shown # {} /\ ~Rejected(p)
<1>. DEFINE vote == [by |-> p, voter |-> Voter[p], policy |-> conf.policy,
                     rev |-> gate.rev, what |-> what]
<1>1. RecordVote(p, what) = IF \E v \in votes : SameVote(v, vote) THEN votes ELSE votes \cup {vote}
  BY DEF RecordVote
<1>2. vote.rev = gate.rev /\ vote.voter = Voter[p] /\ vote.policy = conf.policy /\ vote.what = what
  OBVIOUS
<1>3. gate.at = "parked" /\ row = gate /\ shown # {} /\ ~Rejected(p)
  BY DEF IInv, VoteIs, GateFits, PromptsFit, MayAct
<1>. HIDE DEF vote
<1>4. Need > 1 => \E v \in votes' : SameVote(v, vote)
  BY <1>1 DEF VoteIs, SameVote
<1>5. votes \subseteq votes' /\ \A v \in votes' : v \in votes \/ v = vote
  BY <1>1 DEF VoteIs
<1>. QED
  BY <1>2, <1>3, <1>4, <1>5 DEF SameVote, vote

LEMMA VotesKept ==
    ASSUME IInv, Parks \/ SavesPark \/ Decides \/ TimesOut \/ Aside \/ Restarts
    PROVE  VotesFit'
<1>0. /\ gate \in Records /\ row \in Records /\ row.saved /\ visit \in Nat
      /\ gate.rev \in Nat /\ row.rev \in Nat
      /\ GateFits /\ Remembered /\ PromptsFit /\ VotesFit
      /\ \A v \in votes : v.rev \in Nat
  BY FieldsOf DEF IInv, TypeOK, Presentations
<1>. USE DEF Rejected
<1>1. CASE Parks
  <2>1. PICK saved \in BOOLEAN, rev \in {gate.rev, gate.rev + 1} :
          /\ GateIs("parked", rev, gate.decided, saved)
          /\ rev = gate.rev => shown = {}
          /\ IF saved THEN row' = gate' /\ Announced ELSE UNCHANGED <<row, shown>>
    BY <1>1 DEF Parks
  <2>2. row = gate /\ gate.at = "running" /\ votes' = votes /\ ayes' = {}
    BY <1>0, <1>1 DEF Parks, GateFits
  <2>3. \A v \in votes : v.rev < rev
    BY <1>0, <2>1, <2>2 DEF VotesFit
  <2>4. shown \subseteq shown' /\ row.rev <= row'.rev /\ gate'.rev = rev
    BY <1>0, <2>1, <2>2 DEF Announced, GateIs
  <2>. QED
    BY <1>0, <2>1, <2>2, <2>3, <2>4 DEF VotesFit, GateIs
<1>2. CASE SavesPark
  <2>1. votes' = votes /\ ayes' = ayes /\ row' = gate' /\ gate'.rev = gate.rev /\ row.rev <= gate.rev
        /\ gate'.at = gate.at /\ shown \subseteq shown'
    BY <1>0, <1>2 DEF SavesPark, GateIs, GateFits, Announced
  <2>. QED
    BY <1>0, <2>1 DEF VotesFit
<1>3. CASE Aside
  BY <1>0, <1>3 DEF Aside, VotesFit
<1>6. CASE Restarts
  <2>1. /\ gate' = row /\ UNCHANGED <<kind, conf, row, votes, ayes>> /\ shown \subseteq shown'
        /\ row.at = "parked" => gate' = gate
    BY <1>0, <1>6 DEF Restarts, Announced, GateFits
  <2>. QED
    BY <1>0, <2>1 DEF VotesFit
<1>4. CASE TimesOut
  BY <1>0, <1>4 DEF TimesOut, GateIs, GateFits, VotesFit
<1>5. ASSUME NEW p \in Principals, NEW what \in Choices, DecisionKind(p, what)
      PROVE  VotesFit'
  <2>1. CASE votes' = votes /\ Leaves
    <3>1. gate'.at # "parked" /\ row' = gate' /\ gate'.rev = gate.rev /\ row.rev <= gate.rev
          /\ ayes' = {} /\ shown' = shown
      BY <1>0, <2>1 DEF Leaves, GateIs, GateFits
    <3>. QED
      BY <1>0, <2>1, <3>1 DEF VotesFit
  <2>2. CASE VoteIs(p, what) /\ (Leaves \/ Revises)
    <3>1. /\ row' = gate' /\ ayes' = {} /\ shown \subseteq shown'
          /\ gate'.rev \in {gate.rev, gate.rev + 1}
          /\ gate'.at = "parked" => gate'.rev = gate.rev + 1
      BY <1>0, <2>2 DEF Leaves, Revises, GateIs, Announced
    <3>2. shown # {} /\ \A v \in votes' : v.rev <= gate.rev /\ v.rev \in Nat /\ v.voter = Voter[v.by]
                                             /\ ~Rejected(v.by)
      BY <1>0, <2>2, VoteRecorded DEF VotesFit
    <3>. QED
      BY <1>0, <3>1, <3>2 DEF VotesFit
  <2>3. CASE Counts(p, what)
    <3>1. CASE Need > 1
      <4>1. /\ ayes' = ayes \cup {[by |-> p, policy |-> conf.policy, what |-> what]}
            /\ VoteIs(p, what) /\ gate' = gate /\ row' = row /\ shown' = shown
        BY <2>3, <3>1 DEF Counts
      <4>2. /\ votes' # {} => shown' # {}
            /\ \A v \in votes' : v.rev <= row'.rev /\ v.voter = Voter[v.by] /\ ~Rejected(v.by)
            /\ \A a \in ayes' : a.by \in Principals
        BY <1>0, <4>1, VoteRecorded DEF VotesFit
      <4>3. \A v \in votes' : v.rev = gate.rev =>
              \E a \in ayes' : a.by = v.by /\ a.policy = v.policy /\ a.what = v.what
        <5>1. ASSUME NEW v \in votes, v.rev = gate.rev
              PROVE  \E a \in ayes' : a.by = v.by /\ a.policy = v.policy /\ a.what = v.what
          BY <1>0, <4>1, <5>1 DEF VotesFit, VoteIs
        <5>2. ASSUME NEW v \in votes', v.by = p, v.policy = conf.policy, v.what = what
              PROVE  \E a \in ayes' : a.by = v.by /\ a.policy = v.policy /\ a.what = v.what
          <6>1. [by |-> p, policy |-> conf.policy, what |-> what] \in ayes'
            BY <4>1
          <6>. QED
            BY <5>2, <6>1
        <5>3. \A v \in votes' : v \in votes \/ (v.by = p /\ v.policy = conf.policy /\ v.what = what)
          BY <4>1, VoteRecorded
        <5>. QED
          BY <5>1, <5>2, <5>3
      <4>4. \A a \in ayes' : \E v \in votes' :
              v.rev = gate.rev /\ v.voter = Voter[a.by] /\ v.policy = a.policy /\ v.what = a.what
        BY <1>0, <3>1, <4>1, VoteRecorded DEF VotesFit
      <4>. QED
        BY <4>1, <4>2, <4>3, <4>4 DEF VotesFit
    <3>2. CASE ~(Need > 1)
      BY <1>0, <2>3, <3>2 DEF Counts, VoteIs, VotesFit
    <3>. QED
      BY <3>1, <3>2
  <2>. QED
    BY <1>5, <2>1, <2>2, <2>3 DEF DecisionKind
<1>. QED
  BY <1>1, <1>2, <1>3, <1>4, <1>5, <1>6 DEF Decides

-----------------------------------------------------------------------------
LEMMA TypeKept ==
    ASSUME LegibleLedger, IInv, Next
    PROVE  TypeOK'
<1>0. /\ TypeOK /\ gate \in Records /\ row \in Records /\ row.saved /\ visit \in Presentations
      /\ GateFits
  BY FieldsOf DEF IInv, TypeOK
<1>1. reloads' \in 0..MaxReloads /\ conf' \in Configs
  <2>1. ASSUME NEW c \in Configs, Reload(c)
        PROVE  reloads' \in 0..MaxReloads /\ conf' \in Configs
    BY <1>0, <2>1, BrokerConstants DEF TypeOK, BrokerConstants, Reload
  <2>2. (\A c \in Configs : ~Reload(c)) => reloads' = reloads /\ conf' = conf
    <3>1. \A p, what : Decide(p, what) => reloads' = reloads /\ conf' = conf
      BY DEF Decide, Favour, Deny
    <3>. QED
      BY <3>1 DEF Next, Park, RetryPark, Restart, Resolve, CheckReference, ResolveAnswer,
                  AnswerRefused, TimeOut
  <2>. QED
    BY <1>0, <2>1, <2>2 DEF TypeOK
<1>2. answer' = NoAnswer \/ answer' \in [by : Chatters, what : Choices, visit : Presentations]
  <2>1. ASSUME NEW p \in Principals, NEW what \in Choices, NEW q \in prompts, CheckReference(p, what, q)
        PROVE  answer' \in [by : Chatters, what : Choices, visit : Presentations]
    BY <1>0, <2>1 DEF TypeOK, CheckReference
  <2>2. (\A p \in Principals, what \in Choices, q \in prompts : ~CheckReference(p, what, q))
           => answer' \in {answer, NoAnswer}
    BY DEF Next, Park, RetryPark, Restart, Resolve, ResolveAnswer, AnswerRefused, TimeOut, Reload
  <2>. QED
    BY <1>0, <2>1, <2>2 DEF TypeOK
<1>3. Parks \/ SavesPark \/ Decides \/ TimesOut \/ Aside \/ Restarts
  BY Kinds
<1>4. /\ kind' = kind /\ history' \in BOOLEAN /\ visit' \in Presentations
      /\ gate' \in Records /\ row' \in Records /\ row'.saved
      /\ shown' \subseteq shown \cup {[visit |-> visit', rev |-> gate'.rev]}
  BY <1>0, <1>3 DEF TypeOK, GateFits, Parks, SavesPark, Decides, DecisionKind, Leaves, Revises, Counts, TimesOut,
     Aside, Restarts, GateIs, Announced
<1>5. votes' \subseteq [by : Principals, voter : {Voter[p] : p \in Principals},
                       policy : {c.policy : c \in Configs}, rev : Presentations,
                       what : Choices \ {"deny"}]
  <2>1. CASE votes' = votes
    BY <1>0, <2>1 DEF TypeOK
  <2>2. ASSUME NEW p \in Principals, NEW what \in Choices, VoteIs(p, what)
        PROVE  votes' \subseteq [by : Principals, voter : {Voter[q] : q \in Principals},
                                policy : {c.policy : c \in Configs}, rev : Presentations,
                                what : Choices \ {"deny"}]
    <3>1. [by |-> p, voter |-> Voter[p], policy |-> conf.policy, rev |-> gate.rev, what |-> what]
            \in [by : Principals, voter : {Voter[q] : q \in Principals},
                 policy : {c.policy : c \in Configs}, rev : Presentations,
                 what : Choices \ {"deny"}]
      BY <1>0, <2>2 DEF TypeOK, VoteIs, Records
    <3>. QED
      BY <1>0, <2>2, <3>1, VoteRecorded DEF TypeOK
  <2>. QED
    BY <1>3, <2>1, <2>2 DEF Parks, SavesPark, Decides, DecisionKind, Counts, TimesOut, Aside, Restarts
<1>6. shown' \subseteq [visit : Presentations, rev : Presentations]
  <2>1. gate'.rev \in Presentations
    BY <1>4 DEF Records
  <2>. QED
    BY <1>0, <1>4, <2>1 DEF TypeOK
<1>9. prompts' \subseteq shown'
  <2>1. ASSUME NEW v, NEW rev, Announce(v, rev) PROVE prompts' \subseteq shown'
    BY <1>0, <2>1 DEF TypeOK, Announce, Prompt
  <2>2. CASE UNCHANGED <<shown, prompts>>
    BY <1>0, <2>2 DEF TypeOK
  <2>3. CASE Park \/ RetryPark \/ Restart
    BY <2>1, <2>2, <2>3 DEF Park, RetryPark, Restart
  <2>4. ASSUME NEW p, NEW what, Decide(p, what) PROVE prompts' \subseteq shown'
    BY <2>1, <2>2, <2>4 DEF Decide, Deny, Favour, Pass
  <2>5. ASSUME NEW act \in Timeouts, TimeOut(act) PROVE prompts' \subseteq shown'
    <3>1. [visit |-> visit, rev |-> gate.rev] \in shown /\ shown' = shown
      BY <1>1, <2>5 DEF TimeOut, IInv, PromptsFit
    <3>. QED
      BY <1>0, <2>5, <3>1 DEF TimeOut, Prompt, TypeOK
  <2>. QED
    BY <2>2, <2>3, <2>4, <2>5 DEF Next, Resolve, ResolveAnswer, AnswerRefused, CheckReference, Reload, ghosts
<1>7. Presentations' = Presentations
  BY DEF Presentations
<1>8. kind \in {"approval", "checkpoint"}
  BY <1>0 DEF TypeOK
<1>. QED
  BY <1>1, <1>2, <1>4, <1>5, <1>6, <1>8, <1>9 DEF TypeOK, Records, Presentations

LEMMA InvariantHolds ==
    ASSUME LegibleLedger
    PROVE  Spec => []IInv
<1>1. ASSUME Init
      PROVE  IInv
  <2>1. gate.at = "running" /\ gate.rev = 0 /\ gate.decided = FALSE /\ gate.saved = TRUE /\ row = gate
    BY <1>1 DEF Init, Running
  <2>2. TypeOK
    <3>1. 0 \in Presentations /\ 0 \in 0..MaxReloads
      BY BrokerConstants DEF BrokerConstants, Presentations
    <3>2. gate \in Records
      BY <1>1, <3>1 DEF Init, Running, Records
    <3>. QED
      BY <1>1, <2>1, <3>1, <3>2 DEF Init, TypeOK, Records
  <2>3. shown = {} /\ votes = {} /\ ayes = {} /\ visit = 0
    BY <1>1 DEF Init
  <2>4. GateFits /\ Remembered
    BY <2>1, <2>3 DEF GateFits, Remembered
  <2>5. PromptsFit /\ PromptsAreDistinct /\ VotesFit
    BY <2>1, <2>3 DEF PromptsFit, PromptsAreDistinct, VotesFit
  <2>. QED
    BY <2>2, <2>4, <2>5 DEF IInv
<1>2. IInv /\ Next => IInv'
  BY Kinds, GateKept, PromptsKept, VotesKept, TypeKept DEF IInv
<1>3. IInv /\ UNCHANGED vars => IInv'
  BY DEF vars, IInv, TypeOK, GateFits, Remembered, PromptsFit, PromptsAreDistinct, VotesFit, Rejected
<1>. QED
  BY <1>1, <1>2, <1>3, PTL DEF Spec

(* Types, for any principals, policies and bounds.                         *)
THEOREM TypesHold ==
    ASSUME LegibleLedger
    PROVE  Spec => []TypeOK
BY InvariantHolds, PTL DEF IInv

(* No two presentations of a gate share the reference their shown carry. *)
THEOREM ReferencesAreDistinct ==
    ASSUME LegibleLedger
    PROVE  Spec => []PromptsAreDistinct
BY InvariantHolds, PTL DEF IInv

(* count_qualified_voters misses nobody who has voted, if a credential is  *)
(* a member under all its transports or under none: record_gate_vote keeps *)
(* one vote of a credential, and with it one transport.                    *)
THEOREM VotersCount ==
    ASSUME LegibleLedger, OneMembership
    PROVE  Spec => []VotersAreCounted
<1>1. ASSUME IInv
      PROVE  VotersAreCounted
  <2>1. SUFFICES ASSUME gate.at = "parked", Need > 1, NEW a \in ayes, a.policy = conf.policy,
                        IsMember(a.by), conf.open \/ a.by \notin Chatters
                 PROVE  Voter[a.by] \in QualifiedVoters(votes, a.what)
    BY DEF VotersAreCounted
  <2>2. PICK v \in votes : v.rev = gate.rev /\ v.voter = Voter[a.by] /\ v.policy = a.policy /\ v.what = a.what
    BY <1>1, <2>1 DEF IInv, VotesFit
  <2>3. /\ v.by \in Principals /\ a.by \in Principals /\ Voter[v.by] = Voter[a.by] /\ conf \in Configs
    BY <1>1, <2>2 DEF IInv, VotesFit, TypeOK
  <2>4. ~Unpoliced
    BY <2>1 DEF Need
  <2>5. StillMember(v)
    BY <2>1, <2>3, <2>4, OneMembership DEF OneMembership, StillMember, IsMember
  <2>. QED
    BY <2>1, <2>2, <2>5 DEF QualifiedVoters
<1>. QED
  BY <1>1, InvariantHolds, PTL

(* A gate passes on votes for this very decision, under the policy in      *)
(* force, by as many distinct members as it asks for, cast since the gate  *)
(* was presented.                                                          *)
THEOREM GatesPassByQuorum ==
    ASSUME LegibleLedger, FiniteVoters
    PROVE  Spec => PassedByQuorum
<1>. DEFINE Backing(p, what) == {Voter[q] : q \in {x \in Backers(p, what) : MayAct(x)}}
            Enough == passed' \notin {passed, Nobody} /\ passed'.what # "deny" =>
                        Cardinality(Backing(passed'.by, passed'.what)) >= Need
<1>1. ASSUME IInv, Next
      PROVE  Enough
  <2>1. SUFFICES ASSUME passed' \notin {passed, Nobody}, passed'.what # "deny"
                 PROVE  Cardinality(Backing(passed'.by, passed'.what)) >= Need
    OBVIOUS
  <2>2. PICK p \in Principals, what \in Choices :
          /\ VoteIs(p, what)
          /\ passed'.by = p /\ passed'.what = what
          /\ Need > 1 => Cardinality(QualifiedVoters(votes', what)) >= Need
    <3>1. Decides
      BY <1>1, <2>1, Kinds DEF Parks, SavesPark, TimesOut, Aside, Restarts
    <3>. QED
      BY <2>1, <3>1 DEF Decides, DecisionKind, Counts
  <2>. DEFINE S == Backing(p, what)
  <2>3. p \in Backers(p, what) /\ MayAct(p)
    BY <2>2 DEF VoteIs, Backers
  <2>4. Backers(p, what) \subseteq Principals
    BY <1>1 DEF IInv, VotesFit, Backers
  <2>5. S \subseteq {Voter[q] : q \in Principals}
    BY <2>4
  <2>6. IsFiniteSet(S) /\ Cardinality(S) \in Nat
    BY <2>5, FiniteVoters, FS_Subset, FS_CardinalityType DEF FiniteVoters
  <2>7. Need \in Nat /\ (Need > 1 \/ Need = 1)
    BY <1>1, BrokerConstants DEF IInv, TypeOK, Need, BrokerConstants
  <2>8. ASSUME Need = 1
        PROVE  Cardinality(S) >= Need
    <3>1. Voter[p] \in S
      BY <2>3
    <3>2. Cardinality(S) # 0
      BY <2>6, <3>1, FS_EmptySet
    <3>. HIDE DEF S
    <3>. QED
      BY <2>2, <2>6, <2>8, <3>2
  <2>9. ASSUME Need > 1
        PROVE  Cardinality(S) >= Need
    <3>1. ASSUME NEW v \in votes', v.policy = conf.policy, v.rev = gate.rev, v.what = what, StillMember(v)
          PROVE  v.voter \in S
      <4>1. v.by \in Backers(p, what) /\ v.voter = Voter[v.by] /\ ~Rejected(v.by)
        <5>1. CASE v \in votes
          BY <1>1, <2>2, <3>1, <5>1 DEF IInv, VotesFit, VoteIs, Backers
        <5>2. CASE v \notin votes
          BY <1>1, <2>2, <2>3, <5>2, VoteRecorded DEF MayAct
        <5>. QED
          BY <5>1, <5>2
      <4>2. MayAct(v.by)
        BY <2>3, <3>1, <4>1 DEF MayAct, StillMember, IsMember
      <4>. QED
        BY <4>1, <4>2
    <3>2. QualifiedVoters(votes', what) \subseteq S
      BY <3>1 DEF QualifiedVoters
    <3>3. /\ Cardinality(QualifiedVoters(votes', what)) <= Cardinality(S)
          /\ Cardinality(QualifiedVoters(votes', what)) \in Nat
      BY <2>6, <3>2, FS_Subset, FS_CardinalityType
    <3>. HIDE DEF S
    <3>. QED
      BY <2>2, <2>6, <2>7, <2>9, <3>3
  <2>10. Cardinality(S) >= Need
    <3>. HIDE DEF S
    <3>. QED
      BY <2>7, <2>8, <2>9
  <2>. QED
    BY <2>2, <2>10
<1>2. UNCHANGED vars => Enough
  BY DEF vars
<1>. HIDE DEF Enough
<1>3. Spec => [][Enough]_vars
  BY <1>1, <1>2, InvariantHolds, PTL DEF Spec
<1>. QED
  BY <1>3, PTL DEF Enough, PassedByQuorum
=============================================================================
